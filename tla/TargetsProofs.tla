---------------------------- MODULE TargetsProofs ---------------------------
(***************************************************************************)
(* Proofs about Targets for any keys, machines, wants, fault points and    *)
(* bounds, and about JournaledMutation, the promise it implements.         *)
(***************************************************************************)
EXTENDS Targets, TLAPS

(* The request of k has changed the document.                              *)
Touched(k) == \E n \in 1 .. MaxTries : <<k, n>> \in applied
Pending(k) == journal[k] # None /\ journal[k].state = "pending"

(* What Mutate knows at each of its steps: the plan is the one on record,  *)
(* the approval in force is the plan's, and what it will withdraw is its   *)
(* own to withdraw.                                                        *)
Working ==
    /\ boot # "up" => pc = "idle"
    /\ pc # "idle" => act \in Key /\ tries >= 1 /\ plan.desired = Want[act]
    /\ pc = "reserve" => (journal[act] # None => plan.prior = journal[act].prior)
    /\ pc \notin {"idle", "reserve"} =>
           journal[act] # None /\ plan.prior = journal[act].prior
    /\ pc \in {"check", "consume", "commit", "effect"} => issued[act] = plan
    /\ pc \in {"consume", "commit"} => cur \in {plan.prior, plan.desired}
    /\ pc \in {"commit", "effect"} => act \in consumed
    /\ pc = "commit" /\ spent => ~Touched(act)
    /\ pc \in {"receipt", "audit", "mark"} => ~Pending(act)
    /\ pc \in {"audit", "mark"} => act \in receipts
    /\ pc = "mark" => act \in audited

(* A record wants what its request wants; startup has still to look at     *)
(* every record that is not final.                                         *)
Records ==
    /\ boot = "up" => todo = {}
    /\ \A k \in Key :
         /\ k \in todo => journal[k] # None
         /\ journal[k] # None =>
              /\ journal[k].desired = Want[k]
              /\ boot = "scan" /\ journal[k].state # "finalized" => k \in todo

(* A request that has changed the document has its record; while the       *)
(* effect is not recorded yet, the document is as it left it.              *)
Changes == \A k \in Key : Touched(k) =>
    /\ journal[k] # None
    /\ Pending(k) => /\ cur = journal[k].desired /\ cur # journal[k].prior
                     /\ boot = "up" => act = k /\ pc = "effect"

NoOrphan == \A k \in Key : ~Orphan(k)

Rest == Working /\ Records /\ Changes /\ ChangeIsApproved /\ FinalizedTargetHasEvidence
Inv == TypeOK /\ Rest

(* No record and nobody at work: the invariant holds.                      *)
LEMMA InitInv == Init => Inv
<1> SUFFICES ASSUME Init PROVE Inv
  OBVIOUS
<1> USE TargetsAssumption DEF Init
<1>1. TypeOK
  <2>1. plan \in Transition /\ cur \in State BY DEF State, Transition
  <2>2. journal \in [Key -> Record \cup {None}] /\ issued \in [Key -> Transition \cup {None}]
    OBVIOUS
  <2>3. tries \in 0 .. MaxTries /\ crashes \in 0 .. MaxCrashes /\ faults \in 0 .. MaxFaults
    OBVIOUS
  <2> QED BY <2>1, <2>2, <2>3 DEF TypeOK
<1>2. Working BY DEF Working
<1>3. Records BY DEF Records
<1>4. Changes /\ ChangeIsApproved /\ FinalizedTargetHasEvidence
  BY DEF Changes, Touched, ChangeIsApproved, FinalizedTargetHasEvidence
<1> QED BY <1>1, <1>2, <1>3, <1>4 DEF Inv, Rest

(* A record that is replaced keeps its transition.                         *)
LEMMA ReplacedRecord ==
    ASSUME NEW k \in Key, journal \in [Key -> Record \cup {None}], journal[k] # None,
           NEW s \in {"pending", "finalizing", "finalized"}, NEW d \in BOOLEAN
    PROVE  /\ Replaced(k, s, d) \in [Key -> Record \cup {None}]
           /\ Replaced(k, s, d)[k] # None
           /\ Replaced(k, s, d)[k].prior = journal[k].prior
           /\ Replaced(k, s, d)[k].desired = journal[k].desired
           /\ Replaced(k, s, d)[k].state = s /\ Replaced(k, s, d)[k].durable = d
           /\ \A j \in Key : j # k => Replaced(k, s, d)[j] = journal[j]
<1>1. journal[k] \in Record OBVIOUS
<1> DEFINE r == [journal[k] EXCEPT !.state = s, !.durable = d]
<1>2. r \in Record /\ r.prior = journal[k].prior /\ r.desired = journal[k].desired
      /\ r.state = s /\ r.durable = d
  BY <1>1 DEF Record
<1>3. Replaced(k, s, d) = [journal EXCEPT ![k] = r]
  BY DEF Replaced
<1>4. r # None BY <1>2, TargetsAssumption
<1> HIDE DEF r
<1> QED BY <1>2, <1>3, <1>4

(* Every step keeps the types.                                             *)
LEMMA NextType == Inv /\ [Next]_vars => TypeOK'
<1> SUFFICES ASSUME Inv, [Next]_vars PROVE TypeOK'
  OBVIOUS
<1>00. left' \subseteq Key BY DEF Inv, TypeOK, Next, vars
<1> USE <1>00, TargetsAssumption DEF Inv, Rest, TypeOK, Fault, NoFault, Goto, Leave, At,
        Load, LoadFails, evidence, approvals, work, life
<1>0. /\ pc # "idle" => act \in Key /\ tries >= 1
      /\ pc \notin {"idle", "reserve"} => journal[act] # None
      /\ \A k \in Key : k \in todo => journal[k] # None
  BY DEF Working, Records
<1>1. CASE Reserve
  <2>1. NewRecord \in Record BY DEF NewRecord, Record, Transition
  <2> QED BY <1>0, <1>1, <2>1 DEF Reserve, WriteExclusive
<1>0a. Cancelled(act) \in [Key -> Record \cup {None}] BY DEF Cancelled
<1>2. CASE Authorize BY <1>0, <1>0a, <1>2 DEF Authorize
<1>2a. CASE Check
  <2>1. faults' \in 0 .. MaxFaults BY <1>2a DEF Check
  <2>2. pending' \in BOOLEAN BY <1>2a DEF Check
  <2>3. act' \in Key \cup {None} /\ pc' \in {"consume", "idle"} BY <1>2a DEF Check
  <2> QED BY <1>2a, <2>1, <2>2, <2>3 DEF Check
<1>3. CASE Consume
  <2>1. faults' \in 0 .. MaxFaults
    <3>1. NoFault \/ Fault("intent") \/ Fault("consume") BY <1>3 DEF Consume
    <3> QED BY <3>1
  <2>2. spent' \in BOOLEAN BY <1>3 DEF Consume
  <2>3. act' \in Key \cup {None} /\ consumed' \subseteq Key
    BY <1>0, <1>3 DEF Consume, Withdraw
  <2> QED BY <1>0, <1>0a, <1>3, <2>1, <2>2, <2>3 DEF Consume, Withdraw
<1>4. CASE Commit
  <2>1. act \in Key /\ tries \in 1 .. MaxTries BY <1>0, <1>4 DEF Commit
  <2>2. plan.desired \in State BY DEF Transition
  <2>3. journal' \in [Key -> Record \cup {None}] /\ consumed' \subseteq Key
    BY <1>4, <1>0a DEF Commit, Unpublished, Withdraw
  <2>4. cur' \in State /\ applied' \subseteq Key \X (1 .. MaxTries)
    BY <1>4, <2>1, <2>2 DEF Commit, Apply, Unpublished
  <2>5. act' \in Key \cup {None} /\ pc' \in {"idle", "effect"}
    BY <1>4 DEF Commit, Apply, Unpublished, Withdraw
  <2>6. pending' \in BOOLEAN /\ durable' \in BOOLEAN
    BY <1>4 DEF Commit, Unpublished
  <2>7. faults' \in 0 .. MaxFaults
    BY <1>4 DEF Commit, Unpublished
  <2> QED BY <1>4, <2>3, <2>4, <2>5, <2>6, <2>7 DEF Commit
<1>5. CASE RecordEffect
  <2>1. Replaced(act, "finalizing", durable) \in [Key -> Record \cup {None}]
    BY <1>0, <1>5, ReplacedRecord DEF RecordEffect
  <2> QED BY <1>5, <2>1 DEF RecordEffect
<1>6. CASE EnsureReceipt BY <1>0, <1>6 DEF EnsureReceipt
<1>7. CASE EnsureAudit BY <1>0, <1>7 DEF EnsureAudit
<1>8. CASE MarkFinalized
  <2>1. act \in Key /\ journal[act] # None BY <1>0, <1>8 DEF MarkFinalized
  <2>2. journal[act].durable \in BOOLEAN BY <2>1 DEF Record
  <2>3. Replaced(act, "finalized", journal[act].durable) \in [Key -> Record \cup {None}]
    BY <2>1, <2>2, ReplacedRecord
  <2> QED BY <1>8, <2>3 DEF MarkFinalized
<1>9. CASE Crash
  <2>1. crashes' \in 0 .. MaxCrashes BY <1>9 DEF Crash
  <2> QED BY <1>9, <2>1 DEF Crash
<1>10. CASE BootStart
  <2>1. todo' \subseteq Key BY <1>10 DEF BootStart
  <2> QED BY <1>10, <2>1 DEF BootStart
<1>11. CASE BootServe BY <1>11 DEF BootServe
<1>12. ASSUME NEW k \in Key, IssueApproval(k) PROVE TypeOK'
  <2>1. [prior |-> cur, desired |-> Want[k]] \in Transition BY DEF Transition, State
  <2> QED BY <1>12, <2>1 DEF IssueApproval
<1>13. ASSUME NEW k \in Key, Expire(k) PROVE TypeOK'
  BY <1>13 DEF Expire
<1>14. ASSUME NEW k \in Key, Mutate(k) PROVE TypeOK'
  <2>1. PriorOf(k) \in State BY DEF PriorOf, Record
  <2>2. [prior |-> PriorOf(k), desired |-> Want[k]] \in Transition
    BY <2>1 DEF Transition, State
  <2> HIDE DEF PriorOf
  <2>3. plan' \in Transition BY <1>14, <2>2 DEF Mutate
  <2>4. retry' \in BOOLEAN BY <1>14 DEF Mutate
  <2>5. tries' \in 0 .. MaxTries /\ faults' \in 0 .. MaxFaults BY <1>14 DEF Mutate
  <2>6. act' \in Key \cup {None} BY <1>14 DEF Mutate
  <2> QED BY <1>14, <2>3, <2>4, <2>5, <2>6 DEF Mutate
<1>15. ASSUME NEW k \in Key, BootCancel(k) PROVE TypeOK'
  BY <1>15 DEF BootCancel, BootNext, BootRefused
<1>16. ASSUME NEW k \in Key, BootDrift(k) PROVE TypeOK'
  BY <1>16 DEF BootDrift, BootRefused
<1>17. ASSUME NEW k \in Key, BootFinalize(k) PROVE TypeOK'
  <2>1. journal[k] # None BY <1>0, <1>17 DEF BootFinalize
  <2>2. /\ Replaced(k, "finalized", TRUE) \in [Key -> Record \cup {None}]
        /\ Replaced(k, "finalizing", TRUE) \in [Key -> Record \cup {None}]
    BY <2>1, ReplacedRecord
  <2>3. journal' \in [Key -> Record \cup {None}]
    BY <1>17, <2>2 DEF BootFinalize
  <2>4. receipts' \subseteq Key /\ audited' \subseteq Key
    BY <1>17 DEF BootFinalize
  <2>5. boot' \in {"off", "scan", "up"} /\ todo' \subseteq Key
    BY <1>17 DEF BootFinalize, BootNext, BootRefused
  <2>6. faults' \in 0 .. MaxFaults
    <3>1. \/ NoFault
          \/ \E p \in {"mark", "audit", "receipt", "effect", "sync"} : Fault(p)
      BY <1>17 DEF BootFinalize
    <3> QED BY <3>1
  <2> QED BY <1>17, <2>3, <2>4, <2>5, <2>6 DEF BootFinalize
<1>18. ASSUME NEW k \in Key, BootSkip(k) PROVE TypeOK'
  BY <1>18 DEF BootSkip, BootNext
<1>19. CASE UNCHANGED vars BY <1>19 DEF vars
<1> QED
  BY <1>1, <1>2, <1>2a, <1>3, <1>4, <1>5, <1>6, <1>7, <1>8, <1>9, <1>10, <1>11, <1>12, <1>13,
     <1>14, <1>15, <1>16, <1>17, <1>18, <1>19 DEF Next, Step

(* A step that changes neither the document nor who changed it.            *)
LEMMA SameTouched ==
    ASSUME applied' = applied PROVE \A k : Touched(k)' <=> Touched(k)
  BY DEF Touched

(* The steps of a request up to its effect.                                *)
LEMMA RequestInv ==
    ASSUME Inv, TypeOK', Reserve \/ Authorize \/ Check \/ Consume PROVE Rest'
<1> USE TargetsAssumption DEF Inv, Rest, TypeOK, NoFault, Fault, Goto, Leave, At,
        evidence, approvals, work, life
<1>0. \A k : Touched(k)' <=> Touched(k)
  BY SameTouched DEF Reserve, Authorize, Check, Consume
<1>1. \A k : (\E n \in 1 .. MaxTries : <<k, n>> \in applied) <=> Touched(k) BY DEF Touched
<1>2. act \in Key /\ boot = "up" BY DEF Working, Reserve, Authorize, Check, Consume
<1>3. CASE Reserve
  <2>1. NewRecord \in Record /\ NewRecord # None /\ NewRecord.prior = plan.prior
        /\ NewRecord.desired = plan.desired /\ NewRecord.state = "pending"
    <3>1. NewRecord \in Record BY DEF NewRecord, Record, Transition
    <3>2. NewRecord # None BY <3>1
    <3> QED BY <3>1, <3>2 DEF NewRecord
  <2>2. /\ pc = "reserve" /\ pc' \in {"authorize", "idle"} /\ boot' = boot /\ cur' = cur
        /\ pc' = "authorize" => act' = act /\ journal'[act] # None
                                /\ journal'[act].prior = plan.prior
        /\ plan' = plan /\ tries' = tries /\ todo' = todo
        /\ \A k \in Key : journal'[k] # None =>
              \/ journal'[k] = journal[k]
              \/ k = act /\ journal[k] = None /\ journal'[k] = NewRecord
        /\ \A k \in Key : journal[k] # None => journal'[k] = journal[k]
    <3>1. \/ journal[act] # None /\ journal' = journal
          \/ journal[act] = None /\ journal' \in {journal, [journal EXCEPT ![act] = NewRecord]}
      BY <1>3 DEF Reserve, WriteExclusive
    <3>2. \A k \in Key : /\ \/ journal'[k] = journal[k]
                            \/ k = act /\ journal[k] = None /\ journal'[k] = NewRecord
                         /\ journal[k] # None => journal'[k] = journal[k]
      BY <1>2, <3>1
    <3>3. /\ pc = "reserve" /\ pc' \in {"authorize", "idle"} /\ boot' = boot /\ cur' = cur
          /\ plan' = plan /\ tries' = tries /\ todo' = todo
          /\ pc' = "authorize" => act' = act
      BY <1>3 DEF Reserve, WriteExclusive
    <3>4. pc' = "authorize" => \/ journal[act] # None /\ journal' = journal
                               \/ journal' = [journal EXCEPT ![act] = NewRecord]
      BY <1>3 DEF Reserve, WriteExclusive
    <3>5. journal[act] # None => plan.prior = journal[act].prior
      BY <3>3 DEF Working
    <3> QED BY <1>2, <2>1, <3>2, <3>3, <3>4, <3>5
  <2>3. Working' BY <1>2, <2>2 DEF Working
  <2>4. Records' BY <1>2, <2>1, <2>2 DEF Records, Working
  <2>5. Changes' BY <1>0, <1>2, <2>2 DEF Changes, Pending
  <2>6. ChangeIsApproved' BY <1>3 DEF Reserve, ChangeIsApproved
  <2>7. FinalizedTargetHasEvidence'
    BY <1>3, <2>1, <2>2 DEF Reserve, FinalizedTargetHasEvidence
  <2> QED BY <2>3, <2>4, <2>5, <2>6, <2>7
<1>4. /\ Cancelled(act) \in [Key -> Record \cup {None}]
      /\ \A k \in Key : Cancelled(act)[k] = journal[k] \/ (k = act /\ Pending(k) /\ Cancelled(act)[k] = None)
  BY <1>2 DEF Cancelled, Removable, Pending
<1>5. CASE Authorize
  <2>1. /\ pc = "authorize" /\ pc' \in {"check", "idle"} /\ boot' = boot /\ cur' = cur
        /\ pc' = "check" => act' = act /\ journal' = journal /\ issued[act] = plan
        /\ plan' = plan /\ tries' = tries /\ todo' = todo /\ issued' = issued
        /\ \A k \in Key : journal'[k] = journal[k] \/ (k = act /\ Pending(k) /\ journal'[k] = None)
    BY <1>4, <1>5 DEF Authorize, Authorized
  <2>3. Working' BY <1>2, <2>1 DEF Working
  <2>4. Records' BY <1>2, <2>1 DEF Records
  <2>5. Changes' BY <1>0, <1>2, <2>1 DEF Changes, Pending
  <2>6. ChangeIsApproved' BY <1>5 DEF Authorize, ChangeIsApproved
  <2>7. FinalizedTargetHasEvidence'
    BY <1>5, <2>1 DEF Authorize, FinalizedTargetHasEvidence
  <2> QED BY <2>3, <2>4, <2>5, <2>6, <2>7
<1>5a. CASE Check
  <2>1. /\ pc = "check" /\ pc' \in {"consume", "idle"} /\ boot' = boot /\ cur' = cur
        /\ pc' = "consume" => act' = act /\ cur \in {plan.prior, plan.desired}
        /\ plan' = plan /\ tries' = tries /\ todo' = todo /\ issued' = issued
        /\ journal' = journal
    BY <1>5a DEF Check
  <2>3. Working' BY <1>2, <2>1 DEF Working
  <2>4. Records' BY <1>2, <2>1 DEF Records
  <2>5. Changes' BY <1>0, <1>2, <2>1 DEF Changes, Pending
  <2>6. ChangeIsApproved' BY <1>5a DEF Check, ChangeIsApproved
  <2>7. FinalizedTargetHasEvidence'
    BY <1>5a, <2>1 DEF Check, FinalizedTargetHasEvidence
  <2> QED BY <2>3, <2>4, <2>5, <2>6, <2>7
<1>6. CASE Consume
  <2>1. /\ pc = "consume" /\ pc' \in {"commit", "idle"} /\ boot' = boot /\ cur' = cur
        /\ pc' = "commit" => /\ act' = act /\ journal' = journal /\ act \in consumed'
                             /\ spent' = (act \notin consumed)
        /\ plan' = plan /\ tries' = tries /\ todo' = todo /\ issued' = issued
        /\ \A k \in Key : journal'[k] = journal[k] \/ (k = act /\ Pending(k) /\ journal'[k] = None)
        /\ consumed \subseteq consumed'
    BY <1>2, <1>4, <1>6 DEF Consume, Withdraw
  <2>2. Touched(act) => act \in consumed BY <1>1, <1>2 DEF ChangeIsApproved
  <2>3. Working' BY <1>0, <1>2, <2>1, <2>2 DEF Working
  <2>4. Records' BY <1>2, <2>1 DEF Records
  <2>5. Changes' BY <1>0, <1>2, <2>1 DEF Changes, Pending
  <2>6. ChangeIsApproved' BY <1>6, <2>1 DEF Consume, ChangeIsApproved
  <2>7. FinalizedTargetHasEvidence'
    BY <1>6, <2>1 DEF Consume, FinalizedTargetHasEvidence
  <2> QED BY <2>3, <2>4, <2>5, <2>6, <2>7
<1> QED BY <1>3, <1>5, <1>5a, <1>6

(* The publication: only the request at work is touched by it.             *)
LEMMA CommitInv ==
    ASSUME Inv, TypeOK', Commit PROVE Rest'
<1> USE TargetsAssumption DEF Inv, Rest, TypeOK, NoFault, Fault, Goto, Leave, At, life, evidence
<1>1. /\ act \in Key /\ boot = "up" /\ pc = "commit" /\ tries \in 1 .. MaxTries
      /\ journal[act] # None /\ plan.prior = journal[act].prior
      /\ plan.desired = Want[act] /\ issued[act] = plan /\ act \in consumed
      /\ spent => ~Touched(act)
      /\ cur \in {plan.prior, plan.desired}
      /\ journal[act].desired = Want[act]
  BY DEF Working, Records, Commit
<1>2. \A k : (\E n \in 1 .. MaxTries : <<k, n>> \in applied) <=> Touched(k) BY DEF Touched
<1>3. /\ boot' = boot /\ todo' = todo /\ tries' = tries /\ plan' = plan /\ issued' = issued
      /\ receipts' = receipts /\ audited' = audited
  BY DEF Commit
<1>4. \A k \in Key : Pending(k) => ~Touched(k)
  BY <1>1 DEF Changes
<1>5. issued[act] # None /\ issued[act].desired = Want[act]
  BY <1>1
<1>6. CASE Goto("effect") /\ Apply /\ UNCHANGED <<journal, consumed>>
  <2>1. \A k \in Key : Touched(k)' => Touched(k) \/ (k = act /\ cur # plan.desired)
    BY <1>6 DEF Touched, Apply
  <2>2. \A k \in Key : (\E n \in 1 .. MaxTries : <<k, n>> \in applied') =>
                           Touched(k) \/ k = act
    BY <1>6 DEF Touched, Apply
  <2>3. pc' = "effect" /\ act' = act /\ cur' = plan.desired BY <1>6 DEF Apply
  <2>4. Working' BY <1>1, <1>3, <1>6, <2>3 DEF Working
  <2>5. Records' BY <1>1, <1>3, <1>6 DEF Records
  <2>6. Changes' BY <1>1, <1>3, <1>4, <1>6, <2>1, <2>3 DEF Changes, Pending
  <2>7. ChangeIsApproved' BY <1>1, <1>2, <1>3, <1>5, <1>6, <2>2 DEF ChangeIsApproved
  <2>8. FinalizedTargetHasEvidence' BY <1>3, <1>6 DEF FinalizedTargetHasEvidence
  <2> QED BY <2>4, <2>5, <2>6, <2>7, <2>8
<1>8. CASE Unpublished
  <2>1. \A k : Touched(k)' <=> Touched(k) BY <1>8, SameTouched DEF Unpublished
  <2>2. \A k \in Key : journal'[k] = journal[k] \/ (k = act /\ Pending(k) /\ journal'[k] = None)
    BY <1>1, <1>8 DEF Unpublished, Withdraw, Cancelled, Removable, Pending
  <2>3. /\ pc' = "idle" /\ cur' = cur /\ applied' = applied
        /\ \A k \in Key : k \in consumed => k \in consumed' \/ (k = act /\ spent)
    BY <1>8 DEF Unpublished, Withdraw
  <2>4. Working' BY <1>1, <1>3, <2>3 DEF Working
  <2>5. Records' BY <1>1, <1>3, <2>2 DEF Records
  <2>6. Changes' BY <1>4, <2>1, <2>2 DEF Changes, Pending
  <2>7. ChangeIsApproved' BY <1>1, <1>2, <1>3, <2>3 DEF ChangeIsApproved
  <2>8. FinalizedTargetHasEvidence' BY <1>3, <2>2 DEF FinalizedTargetHasEvidence
  <2> QED BY <2>4, <2>5, <2>6, <2>7, <2>8
<1> QED BY <1>6, <1>8 DEF Commit

(* The record of the effect, which is written when writing it succeeds, or *)
(* else is left to itself.                                                 *)
LEMMA EffectInv ==
    ASSUME Inv, TypeOK', "effect" \notin FaultPoints \/ NoOrphan', RecordEffect PROVE Rest'
<1> USE TargetsAssumption DEF Inv, Rest, TypeOK, NoFault, Fault, Goto, Leave, At, life,
        evidence, approvals
<1>1. /\ act \in Key /\ boot = "up" /\ pc = "effect" /\ journal[act] # None
      /\ plan.prior = journal[act].prior /\ plan.desired = Want[act]
  BY DEF Working, RecordEffect
<1>2. /\ boot' = boot /\ todo' = todo /\ tries' = tries /\ plan' = plan /\ issued' = issued
      /\ receipts' = receipts /\ audited' = audited /\ consumed' = consumed
      /\ cur' = cur /\ applied' = applied
  BY DEF RecordEffect
<1>3. \A k : Touched(k)' <=> Touched(k) BY <1>2, SameTouched
<1>4. /\ Goto("receipt") \/ Leave
      /\ \/ Pending(act) /\ journal' = Replaced(act, "finalizing", durable)
         \/ ~Pending(act) /\ journal' = journal
  <2>1. CASE Fault("effect") /\ Leave /\ journal' = journal /\ Pending(act)
    BY <1>1, <1>2, <2>1 DEF NoOrphan, Orphan, Pending
  <2> QED BY <1>1, <2>1 DEF RecordEffect, Pending
<1>5. /\ \A k \in Key : k # act => journal'[k] = journal[k]
      /\ journal'[act] # None /\ journal'[act].prior = journal[act].prior
      /\ journal'[act].desired = journal[act].desired
      /\ journal'[act].state # "pending"
      /\ journal'[act].state = "finalized" => journal[act].state = "finalized"
  <2>1. CASE Pending(act) /\ journal' = Replaced(act, "finalizing", durable)
    BY <1>1, <2>1, ReplacedRecord
  <2>2. CASE ~Pending(act) /\ journal' = journal
    BY <1>1, <2>2 DEF Pending
  <2> QED BY <1>4, <2>1, <2>2
<1>6. pc' \in {"receipt", "idle"} /\ (pc' = "receipt" => act' = act) BY <1>4
<1>7. Working' BY <1>1, <1>2, <1>5, <1>6 DEF Working, Pending
<1>8. Records' BY <1>1, <1>2, <1>5 DEF Records
<1>9. Changes' BY <1>1, <1>2, <1>3, <1>5 DEF Changes, Pending
<1>10. ChangeIsApproved' BY <1>2 DEF ChangeIsApproved
<1>11. FinalizedTargetHasEvidence' BY <1>1, <1>2, <1>5 DEF FinalizedTargetHasEvidence
<1> QED BY <1>7, <1>8, <1>9, <1>10, <1>11

(* The receipt, the terminal audit and the mark.                           *)
LEMMA FinishInv ==
    ASSUME Inv, TypeOK', EnsureReceipt \/ EnsureAudit \/ MarkFinalized PROVE Rest'
<1> USE TargetsAssumption DEF Inv, Rest, TypeOK, NoFault, Fault, Goto, Leave, At, life, approvals
<1>1. /\ act \in Key /\ boot = "up" /\ pc \in {"receipt", "audit", "mark"}
      /\ journal[act] # None /\ plan.prior = journal[act].prior /\ plan.desired = Want[act]
      /\ journal[act].state # "pending"
  BY DEF Working, Pending, EnsureReceipt, EnsureAudit, MarkFinalized
<1>2. /\ boot' = boot /\ todo' = todo /\ tries' = tries /\ plan' = plan /\ issued' = issued
      /\ consumed' = consumed /\ cur' = cur /\ applied' = applied
      /\ receipts \subseteq receipts' /\ audited \subseteq audited'
      /\ pc' = "idle" \/ act' = act
  BY DEF EnsureReceipt, EnsureAudit, MarkFinalized, evidence
<1>3. \A k : Touched(k)' <=> Touched(k) BY <1>2, SameTouched
<1>4. ChangeIsApproved' BY <1>2 DEF ChangeIsApproved
<1>5. CASE EnsureReceipt \/ EnsureAudit
  <2>1. journal' = journal BY <1>5 DEF EnsureReceipt, EnsureAudit
  <2>2. Working' BY <1>1, <1>2, <1>5, <2>1 DEF Working, Pending, EnsureReceipt, EnsureAudit
  <2>3. Records' BY <1>1, <1>2, <2>1 DEF Records
  <2>4. Changes' BY <1>1, <1>2, <1>3, <2>1 DEF Changes, Pending
  <2>5. FinalizedTargetHasEvidence' BY <1>2, <2>1 DEF FinalizedTargetHasEvidence
  <2> QED BY <1>4, <2>2, <2>3, <2>4, <2>5
<1>6. CASE MarkFinalized
  <2>1. pc = "mark" /\ pc' = "idle" /\ act \in receipts /\ act \in audited
    BY <1>6 DEF MarkFinalized, Working
  <2>2. journal[act].durable \in BOOLEAN BY <1>1 DEF Record
  <2>3. journal' \in {journal, Replaced(act, "finalized", journal[act].durable)}
    BY <1>6 DEF MarkFinalized
  <2>4. /\ \A k \in Key : k # act => journal'[k] = journal[k]
        /\ journal'[act] # None /\ journal'[act].prior = journal[act].prior
        /\ journal'[act].desired = journal[act].desired
        /\ journal'[act].state # "pending"
    BY <1>1, <2>2, <2>3, ReplacedRecord
  <2>5. Working' BY <1>1, <1>2, <2>1 DEF Working
  <2>6. Records' BY <1>1, <1>2, <2>4 DEF Records
  <2>7. Changes' BY <1>1, <1>2, <1>3, <2>4 DEF Changes, Pending
  <2>8. FinalizedTargetHasEvidence' BY <1>1, <1>2, <2>1, <2>4 DEF FinalizedTargetHasEvidence
  <2> QED BY <1>4, <2>5, <2>6, <2>7, <2>8
<1> QED BY <1>5, <1>6

(* An approval is issued or expires, a request arrives.                    *)
LEMMA ArrivalInv ==
    ASSUME Inv, TypeOK', NEW k \in Key, IssueApproval(k) \/ Expire(k) \/ Mutate(k)
    PROVE  Rest'
<1> USE TargetsAssumption DEF Inv, Rest, TypeOK, NoFault, Load, LoadFails, Fault, At, life, work,
        evidence, approvals
<1>1. /\ journal' = journal /\ cur' = cur /\ applied' = applied /\ boot' = boot /\ todo' = todo
      /\ receipts' = receipts /\ audited' = audited /\ consumed' = consumed
  BY DEF IssueApproval, Expire, Mutate
<1>2. \A j : Touched(j)' <=> Touched(j) BY <1>1, SameTouched
<1>3. Records' BY <1>1 DEF Records
<1>4. FinalizedTargetHasEvidence' BY <1>1 DEF FinalizedTargetHasEvidence
<1>5. CASE IssueApproval(k)
  <2>1. /\ act' = act /\ pc' = pc /\ plan' = plan /\ spent' = spent /\ tries' = tries
        /\ \A j \in Key : issued[j] # None => issued'[j] = issued[j]
    BY <1>5 DEF IssueApproval
  <2>2. pc \in {"check", "consume", "commit", "effect"} => act \in Key /\ issued[act] # None
    BY DEF Working
  <2>3. Working' BY <1>1, <1>2, <2>1, <2>2 DEF Working, Pending
  <2>4. Changes' BY <1>1, <1>2, <2>1 DEF Changes, Pending
  <2>5. ChangeIsApproved' BY <1>1, <2>1 DEF ChangeIsApproved
  <2> QED BY <1>3, <1>4, <2>3, <2>4, <2>5
<1>6. CASE Expire(k)
  <2>1. act' = act /\ pc' = pc /\ plan' = plan /\ spent' = spent /\ tries' = tries /\ issued' = issued
    BY <1>6 DEF Expire
  <2>3. Working' BY <1>1, <1>2, <2>1 DEF Working, Pending
  <2>4. Changes' BY <1>1, <1>2, <2>1 DEF Changes, Pending
  <2>5. ChangeIsApproved' BY <1>1, <2>1 DEF ChangeIsApproved
  <2> QED BY <1>3, <1>4, <2>3, <2>4, <2>5
<1>7. CASE Mutate(k)
  <2>1. /\ pc = "idle" /\ boot = "up" /\ tries' = tries + 1 /\ issued' = issued
        /\ \/ pc' = "idle"
           \/ /\ pc' = "reserve" /\ act' = k /\ plan'.desired = Want[k]
              /\ journal[k] # None => plan'.prior = journal[k].prior
    BY <1>7 DEF Mutate, PriorOf
  <2>3. Working' BY <1>1, <1>2, <2>1 DEF Working
  <2>4. Changes' BY <1>1, <1>2, <2>1 DEF Changes, Pending
  <2>5. ChangeIsApproved' BY <1>1, <2>1 DEF ChangeIsApproved
  <2> QED BY <1>3, <1>4, <2>3, <2>4, <2>5
<1> QED BY <1>5, <1>6, <1>7

(* The process dies and starts again.                                      *)
LEMMA BootInv ==
    ASSUME Inv, TypeOK', Crash \/ BootStart \/ BootServe PROVE Rest'
<1> USE TargetsAssumption DEF Inv, Rest, TypeOK, Leave, life, work, evidence, approvals
<1>1. /\ journal' = journal /\ cur' = cur /\ applied' = applied /\ issued' = issued
      /\ receipts' = receipts /\ audited' = audited /\ consumed' = consumed
      /\ tries' = tries
  BY DEF Crash, BootStart, BootServe
<1>2. \A j : Touched(j)' <=> Touched(j) BY <1>1, SameTouched
<1>3. FinalizedTargetHasEvidence' /\ ChangeIsApproved'
  BY <1>1 DEF FinalizedTargetHasEvidence, ChangeIsApproved
<1>4. CASE Crash
  <2>1. pc' = "idle" /\ boot' = "off" /\ todo' = {} BY <1>4 DEF Crash
  <2>2. Working' /\ Records' /\ Changes'
    BY <1>1, <1>2, <2>1 DEF Working, Records, Changes, Pending
  <2> QED BY <1>3, <2>2
<1>5. CASE BootStart
  <2>1. /\ pc' = pc /\ boot = "off" /\ boot' = "scan" /\ pc = "idle"
        /\ \A k \in Key : k \in todo' <=> journal[k] # None
    BY <1>5 DEF BootStart, Working
  <2>2. Working' /\ Records' /\ Changes'
    BY <1>1, <1>2, <2>1 DEF Working, Records, Changes, Pending
  <2> QED BY <1>3, <2>2
<1>6. CASE BootServe
  <2>1. pc' = pc /\ boot = "scan" /\ boot' = "up" /\ pc = "idle" /\ todo = {} /\ todo' = {}
    BY <1>6 DEF BootServe, Working
  <2>2. \A k \in Key : ~Pending(k) BY <2>1 DEF Records, Pending
  <2>3. Working' BY <2>1 DEF Working
  <2>4. Records' /\ Changes' BY <1>1, <1>2, <2>1, <2>2 DEF Records, Changes, Pending
  <2> QED BY <1>3, <2>3, <2>4
<1> QED BY <1>4, <1>5, <1>6

(* Startup cancels, refuses, finalizes or passes over one record.          *)
LEMMA ReconcileInv ==
    ASSUME Inv, TypeOK', NEW k \in Key,
           BootCancel(k) \/ BootDrift(k) \/ BootFinalize(k) \/ BootSkip(k)
    PROVE  Rest'
<1> USE TargetsAssumption DEF Inv, Rest, TypeOK, NoFault, Fault, life, work, approvals,
        BootNext, BootRefused
<1>1. /\ cur' = cur /\ applied' = applied /\ issued' = issued /\ tries' = tries
      /\ pc' = pc /\ act' = act /\ boot = "scan" /\ pc = "idle" /\ k \in todo /\ journal[k] # None
  BY DEF BootCancel, BootDrift, BootFinalize, BootSkip, Working, Records
<1>2. \A j : Touched(j)' <=> Touched(j) BY <1>1, SameTouched
<1>3. \A j \in Key : (\E n \in 1 .. MaxTries : <<j, n>> \in applied) <=> Touched(j) BY DEF Touched
<1>4. (boot' = "off" /\ todo' = {}) \/ (boot' = "scan" /\ todo' = todo \ {k})
  BY <1>1 DEF BootCancel, BootDrift, BootFinalize, BootSkip
<1>5. Working' BY <1>1, <1>4 DEF Working
<1>6. CASE BootCancel(k)
  <2>1. /\ Pending(k) /\ cur = journal[k].prior /\ receipts' = receipts /\ audited' = audited
        /\ \A j \in Key : j # k => journal'[j] = journal[j] /\ (j \in consumed => j \in consumed')
        /\ \/ journal'[k] = None
           \/ boot' = "off" /\ journal'[k] = journal[k]
    BY <1>1, <1>6 DEF BootCancel, Untouched, Pending, evidence
  <2>2. ~Touched(k) BY <2>1 DEF Changes
  <2>3. Records' BY <1>1, <1>4, <2>1 DEF Records
  <2>4. Changes' BY <1>1, <1>2, <1>4, <2>1, <2>2 DEF Changes, Pending
  <2>5. ChangeIsApproved' BY <1>1, <1>3, <2>1, <2>2 DEF ChangeIsApproved
  <2>6. FinalizedTargetHasEvidence' BY <2>1 DEF FinalizedTargetHasEvidence
  <2> QED BY <1>5, <2>3, <2>4, <2>5, <2>6
<1>7. CASE BootDrift(k) \/ BootSkip(k)
  <2>1. /\ receipts' = receipts /\ audited' = audited /\ journal' = journal /\ consumed' = consumed
        /\ boot' = "off" \/ journal[k].state = "finalized"
    BY <1>7 DEF BootDrift, BootSkip, evidence
  <2>2. Records' BY <1>1, <1>4, <2>1 DEF Records
  <2>3. Changes' BY <1>1, <1>2, <1>4, <2>1 DEF Changes, Pending
  <2>4. ChangeIsApproved' BY <1>1, <2>1 DEF ChangeIsApproved
  <2>5. FinalizedTargetHasEvidence' BY <2>1 DEF FinalizedTargetHasEvidence
  <2> QED BY <1>5, <2>2, <2>3, <2>4, <2>5
<1>8. CASE BootFinalize(k)
  <2>1. /\ consumed' = consumed /\ receipts \subseteq receipts' /\ audited \subseteq audited'
        /\ journal[k].state # "finalized"
        /\ \/ journal' = Replaced(k, "finalized", TRUE) /\ k \in receipts' /\ k \in audited'
           \/ boot' = "off" /\ journal' = Replaced(k, "finalizing", TRUE)
           \/ boot' = "off" /\ journal' = journal
    BY <1>8 DEF BootFinalize, evidence
  <2>2. /\ \A j \in Key : j # k => journal'[j] = journal[j]
        /\ journal'[k] # None /\ journal'[k].prior = journal[k].prior
        /\ journal'[k].desired = journal[k].desired
        /\ \/ journal'[k].state = "finalized" /\ k \in receipts' /\ k \in audited'
           \/ boot' = "off" /\ journal'[k].state = "finalizing"
           \/ boot' = "off" /\ journal'[k].state = journal[k].state
    <3> DEFINE Keeps(s) == LET R == Replaced(k, s, TRUE) IN
                 /\ R[k] # None /\ R[k].prior = journal[k].prior
                 /\ R[k].desired = journal[k].desired /\ R[k].state = s
                 /\ \A j \in Key : j # k => R[j] = journal[j]
    <3>0. Keeps("finalized") /\ Keeps("finalizing")
      BY <1>1, ReplacedRecord
    <3>1. CASE journal' = Replaced(k, "finalized", TRUE) /\ k \in receipts' /\ k \in audited'
      BY <3>0, <3>1
    <3>2. CASE boot' = "off" /\ journal' = Replaced(k, "finalizing", TRUE)
      BY <3>0, <3>2
    <3>3. CASE boot' = "off" /\ journal' = journal
      BY <1>1, <3>3
    <3> QED BY <2>1, <3>1, <3>2, <3>3
  <2>3. Records' BY <1>1, <1>4, <2>2 DEF Records
  <2>4. Changes' BY <1>1, <1>2, <1>4, <2>2 DEF Changes, Pending
  <2>5. ChangeIsApproved' BY <1>1, <2>1 DEF ChangeIsApproved
  <2>6. FinalizedTargetHasEvidence' BY <2>1, <2>2 DEF FinalizedTargetHasEvidence
  <2> QED BY <1>5, <2>3, <2>4, <2>5, <2>6
<1> QED BY <1>6, <1>7, <1>8

(* Every step preserves the invariant.                                     *)
LEMMA NextInv ==
    ASSUME Inv, [Next]_vars, "effect" \notin FaultPoints \/ NoOrphan' PROVE Inv'
<1>0. TypeOK' BY NextType
<1>1. CASE Next
  BY <1>0, <1>1, RequestInv, CommitInv, EffectInv, FinishInv, ArrivalInv, BootInv, ReconcileInv
     DEF Next, Step, Inv
<1>2. CASE UNCHANGED vars
  BY <1>2 DEF vars, Inv, Rest, Working, Records, Changes, Pending, Touched, TypeOK,
     ChangeIsApproved, FinalizedTargetHasEvidence, evidence, approvals, work, life
<1> QED BY <1>1, <1>2

(* The invariant of Targets, for every fault that the journal's effect     *)
(* write survives: targets_cancel.cfg shows what its failure leads to.     *)
LEMMA TargetsInvariant == "effect" \notin FaultPoints => (Spec => []Inv)
<1> SUFFICES ASSUME "effect" \notin FaultPoints PROVE Spec => []Inv
  OBVIOUS
<1>1. Init => Inv BY InitInv
<1>2. Inv /\ [Next]_vars => Inv' BY NextInv
<1> QED BY <1>1, <1>2, PTL DEF Spec

(* A request that changed the target had its own approval, for exactly     *)
(* that transition and consumed for good, and a final record has its       *)
(* receipt and its audit (Mutate, reconcileTargetRecord).                  *)
THEOREM TargetsChangeIsRecorded == "effect" \notin FaultPoints => (Spec => []ChangeIsRecorded)
<1> SUFFICES ASSUME "effect" \notin FaultPoints PROVE Spec => []ChangeIsRecorded
  OBVIOUS
<1>1. Spec => []Inv BY TargetsInvariant
<1>2. Inv => ChangeIsRecorded BY DEF Inv, Rest, ChangeIsRecorded
<1> QED BY <1>1, <1>2, PTL

-----------------------------------------------------------------------------
(* While no record has been left to itself, none outlives the request or   *)
(* the startup that made it without its receipt.                           *)
(* Only the request at work has a pending record, or one without receipt.  *)
Sole ==
    /\ \A j, k \in Key : Pending(j) /\ Pending(k) => j = k
    /\ \A k \in Key : boot = "up" /\ Pending(k) =>
           act = k /\ pc \in {"authorize", "check", "consume", "commit", "effect"}
    /\ \A k \in Key : boot = "up" /\ journal[k] # None /\ ~Pending(k) /\ k \notin receipts =>
           act = k /\ pc = "receipt"

(* So a request at work is the first of its key, and finds the document as *)
(* its plan says.                                                          *)
First == pc # "idle" =>
    /\ ~retry
    /\ pc = "reserve" => journal[act] = None
    /\ pc \in {"reserve", "authorize", "check", "consume", "commit"} => cur = plan.prior
    /\ pc \in {"authorize", "check", "consume", "commit", "effect"} => Pending(act)
    /\ pc = "effect" => cur = plan.desired

(* A record tells whether its request changed the document.                *)
Truth == \A k \in Key :
    /\ Pending(k) => \/ ~Touched(k) /\ cur = journal[k].prior
                     \/ Touched(k) /\ cur = journal[k].desired /\ cur # journal[k].prior
    /\ journal[k] # None /\ ~Pending(k) => (Touched(k) <=> journal[k].prior # journal[k].desired)
    /\ \A m, n \in 1 .. MaxTries : <<k, m>> \in applied /\ <<k, n>> \in applied => m = n

Sharp == Sole /\ First /\ Truth

(* No record: every record tells the truth.                                *)
LEMMA InitSharp == Init => Sharp
  BY DEF Init, Sharp, Sole, First, Truth, Pending

(* The steps of a request that do not publish.                             *)
LEMMA RequestSharp ==
    ASSUME Inv, Inv', Sharp, NoOrphan', Reserve \/ Authorize \/ Check \/ Consume PROVE Sharp'
<1> USE TargetsAssumption DEF Inv, Rest, TypeOK, Sharp, Goto, Leave, At, evidence, approvals,
        life
<1>0. \A k : Touched(k)' <=> Touched(k)
  BY SameTouched DEF Reserve, Authorize, Check, Consume
<1>1. /\ act \in Key /\ boot = "up" /\ boot' = boot /\ cur' = cur /\ plan' = plan /\ retry' = retry
      /\ applied' = applied /\ receipts' = receipts /\ ~retry /\ pc # "idle"
  BY DEF Working, Reserve, Authorize, Check, Consume, First
<1>2. CASE Reserve
  <2>1. /\ journal[act] = None /\ cur = plan.prior /\ pc = "reserve" /\ ~Touched(act)
        /\ \A k \in Key : ~Pending(k)
        /\ plan.desired = Want[act]
    BY <1>1, <1>2 DEF Reserve, First, Sole, Changes, Working
  <2>2. NewRecord \in Record /\ NewRecord # None /\ NewRecord.prior = plan.prior
        /\ NewRecord.desired = plan.desired /\ NewRecord.state = "pending"
    <3>1. NewRecord \in Record BY DEF NewRecord, Record, Transition
    <3>2. NewRecord # None BY <3>1
    <3> QED BY <3>1, <3>2 DEF NewRecord
  <2>3. \/ /\ pc' = "authorize" /\ act' = act /\ journal'[act] = NewRecord
           /\ \A k \in Key : k # act => journal'[k] = journal[k]
        \/ pc' = "idle" /\ journal' = journal
    BY <1>1, <1>2, <2>1 DEF Reserve, WriteExclusive
  <2>4. Sole' BY <1>1, <2>1, <2>2, <2>3 DEF Sole, Pending
  <2>5. First' BY <1>1, <2>1, <2>2, <2>3 DEF First, Pending
  <2>6. Truth' BY <1>0, <1>1, <2>1, <2>2, <2>3 DEF Truth, Pending
  <2> QED BY <2>4, <2>5, <2>6
<1>3. CASE Authorize \/ Check \/ Consume
  <2>1. Pending(act) /\ cur = plan.prior BY <1>1, <1>3 DEF First, Authorize, Check, Consume
  <2>2. /\ \A k \in Key : k # act => Cancelled(act)[k] = journal[k]
        /\ Cancelled(act)[act] = None
    BY <1>1, <2>1 DEF Cancelled, Removable, Pending
  <2>3. \/ pc' \in {"check", "consume", "commit"} /\ act' = act /\ journal' = journal
        \/ pc' = "idle" /\ act' = None /\ journal' \in {journal, Cancelled(act)}
    BY <1>1, <1>3 DEF Authorize, Check, Consume, Withdraw
  <2>4. act' = None => journal' # journal
    <3>1. act # None BY <1>1
    <3> QED BY <1>1, <2>1, <3>1 DEF NoOrphan, Orphan, Pending
  <2>5. CASE pc' \in {"check", "consume", "commit"} /\ act' = act /\ journal' = journal
    <3>1. Sole' BY <1>1, <2>1, <2>5 DEF Sole, Pending
    <3>2. First' BY <1>1, <2>1, <2>5 DEF First, Pending
    <3>3. Truth' BY <1>0, <1>1, <2>5 DEF Truth, Pending
    <3> QED BY <3>1, <3>2, <3>3
  <2>6. CASE pc' = "idle" /\ journal' = Cancelled(act)
    <3>1. Sole' BY <1>1, <2>1, <2>2, <2>6 DEF Sole, Pending
    <3>2. First' BY <2>6 DEF First
    <3>3. Truth' BY <1>0, <1>1, <2>2, <2>6 DEF Truth, Pending
    <3> QED BY <3>1, <3>2, <3>3
  <2> QED BY <2>3, <2>4, <2>5, <2>6
<1> QED BY <1>2, <1>3

(* The publication changes the document for the first time of its key, or  *)
(* leaves it and withdraws the record.                                     *)
LEMMA CommitSharp ==
    ASSUME Inv, Inv', Sharp, NoOrphan', Commit PROVE Sharp'
<1> USE TargetsAssumption DEF Inv, Rest, TypeOK, Sharp, Goto, Leave, At, evidence, life
<1>1. /\ act \in Key /\ boot = "up" /\ boot' = boot /\ plan' = plan /\ retry' = retry
      /\ receipts' = receipts /\ ~retry /\ pc = "commit" /\ Pending(act) /\ cur = plan.prior
      /\ plan.prior = journal[act].prior /\ plan.desired = journal[act].desired
      /\ tries \in 1 .. MaxTries
  BY DEF Working, Commit, First, Records
<1>2. ~Touched(act) BY <1>1 DEF Changes
<1>3. \A k \in Key : k # act => ~Pending(k) BY <1>1 DEF Sole
<1>4. CASE Goto("effect") /\ Apply /\ journal' = journal
  <2>1. /\ pc' = "effect" /\ act' = act /\ cur' = plan.desired
        /\ \A k \in Key : \A n \in 1 .. MaxTries :
             <<k, n>> \in applied' <=>
                (<<k, n>> \in applied \/ (k = act /\ n = tries /\ cur # plan.desired))
    BY <1>1, <1>4 DEF Apply
  <2>2. \A k \in Key : Touched(k)' <=> (Touched(k) \/ (k = act /\ cur # plan.desired))
    BY <1>1, <2>1 DEF Touched
  <2>3. \A n \in 1 .. MaxTries : <<act, n>> \notin applied BY <1>1, <1>2 DEF Touched
  <2>4. Sole' BY <1>1, <1>4, <2>1 DEF Sole, Pending
  <2>5. First' BY <1>1, <1>4, <2>1 DEF First, Pending
  <2>6. Truth'
    <3> SUFFICES ASSUME NEW k \in Key
                 PROVE  /\ Pending(k)' => \/ ~Touched(k)' /\ cur' = journal[k].prior
                                          \/ Touched(k)' /\ cur' = journal[k].desired /\ cur' # journal[k].prior
                        /\ journal[k] # None /\ ~Pending(k)'
                              => (Touched(k)' <=> journal[k].prior # journal[k].desired)
                        /\ \A m, n \in 1 .. MaxTries :
                              <<k, m>> \in applied' /\ <<k, n>> \in applied' => m = n
      BY <1>4 DEF Truth
    <3>1. CASE k = act BY <1>1, <1>2, <1>4, <2>1, <2>2, <2>3, <3>1 DEF Pending
    <3>2. CASE k # act BY <1>3, <1>4, <2>1, <2>2, <3>2 DEF Pending, Truth
    <3> QED BY <3>1, <3>2
  <2> QED BY <2>4, <2>5, <2>6
<1>5. CASE Unpublished
  <2>1. /\ pc' = "idle" /\ cur' = cur /\ applied' = applied
        /\ \A k \in Key : k # act => journal'[k] = journal[k]
        /\ journal'[act] = None
    <3>1. pc' = "idle" /\ act' = None /\ cur' = cur /\ applied' = applied
          /\ journal' \in {journal, Cancelled(act)}
      BY <1>5 DEF Unpublished, Withdraw
    <3>2. journal' # journal BY <1>1, <3>1 DEF NoOrphan, Orphan, Pending
    <3> QED BY <1>1, <3>1, <3>2 DEF Cancelled, Removable, Pending
  <2>2. \A k : Touched(k)' <=> Touched(k) BY <2>1, SameTouched
  <2>3. Sole' BY <1>1, <1>3, <2>1 DEF Sole, Pending
  <2>4. First' BY <2>1 DEF First
  <2>5. Truth' BY <1>1, <1>3, <2>1, <2>2 DEF Truth, Pending
  <2> QED BY <2>3, <2>4, <2>5
<1> QED BY <1>1, <1>4, <1>5 DEF Commit

(* The effect is recorded as it was.                                       *)
LEMMA EffectSharp ==
    ASSUME Inv, Inv', Sharp, NoOrphan', RecordEffect PROVE Sharp'
<1> USE TargetsAssumption DEF Inv, Rest, TypeOK, Sharp, Goto, Leave, At, evidence, life, approvals
<1>1. /\ act \in Key /\ boot = "up" /\ boot' = boot /\ plan' = plan /\ retry' = retry
      /\ receipts' = receipts /\ ~retry /\ pc = "effect" /\ Pending(act)
      /\ cur' = cur /\ applied' = applied
  BY DEF Working, RecordEffect, First
<1>3. /\ journal' = Replaced(act, "finalizing", durable)
      /\ (pc' = "receipt" /\ act' = act) \/ (pc' = "idle" /\ act' = None)
  <2>1. journal' = Replaced(act, "finalizing", durable) \/ (journal' = journal /\ act' = None)
    BY <1>1 DEF RecordEffect, Pending
  <2>2. act' = None => journal' # journal BY <1>1 DEF NoOrphan, Orphan, Pending
  <2> QED BY <1>1, <2>1, <2>2 DEF RecordEffect, Pending
<1>4. /\ \A k \in Key : k # act => journal'[k] = journal[k]
      /\ journal'[act] # None /\ journal'[act].prior = journal[act].prior
      /\ journal'[act].desired = journal[act].desired
      /\ journal'[act].state = "finalizing"
  BY <1>1, <1>3, ReplacedRecord DEF Pending
<1>5. \A k : Touched(k)' <=> Touched(k) BY <1>1, SameTouched
<1>6. cur = journal[act].desired BY <1>1 DEF First, Working, Records
<1>7. \A k \in Key : k # act => ~Pending(k) BY <1>1 DEF Sole
<1>8. Sole'
  <2>1. act' = None => act \in receipts' BY <1>1, <1>3, <1>4 DEF NoOrphan, Orphan
  <2> QED BY <1>1, <1>3, <1>4, <1>7, <2>1 DEF Sole, Pending
<1>9. First' BY <1>1, <1>3 DEF First
<1>10. Touched(act) <=> journal[act].prior # journal[act].desired
  BY <1>1, <1>6 DEF Truth
<1>11. Truth' BY <1>1, <1>4, <1>5, <1>7, <1>10 DEF Truth, Pending
<1> QED BY <1>8, <1>9, <1>11

(* The receipt, the terminal audit and the mark.                           *)
LEMMA FinishSharp ==
    ASSUME Inv, Inv', Sharp, NoOrphan', EnsureReceipt \/ EnsureAudit \/ MarkFinalized PROVE Sharp'
<1> USE TargetsAssumption DEF Inv, Rest, TypeOK, Sharp, Goto, Leave, At, life, approvals
<1>1. /\ act \in Key /\ boot = "up" /\ boot' = boot /\ plan' = plan /\ retry' = retry
      /\ receipts \subseteq receipts' /\ ~retry /\ cur' = cur /\ applied' = applied
      /\ pc \in {"receipt", "audit", "mark"} /\ journal[act] # None /\ ~Pending(act)
  BY DEF Working, EnsureReceipt, EnsureAudit, MarkFinalized, First, evidence
<1>2. \A k : Touched(k)' <=> Touched(k) BY <1>1, SameTouched
<1>3. act \in receipts' /\ (pc' = "idle" \/ (pc' \in {"audit", "mark"} /\ act' = act))
  <2>1. act' = None /\ journal' = journal => act \in receipts'
    BY <1>1 DEF NoOrphan, Orphan
  <2> QED BY <1>1, <2>1 DEF EnsureReceipt, EnsureAudit, MarkFinalized, Working, evidence
<1>4. /\ \A k \in Key : k # act => journal'[k] = journal[k]
      /\ journal'[act] # None /\ journal'[act].prior = journal[act].prior
      /\ journal'[act].desired = journal[act].desired
      /\ journal'[act].state # "pending"
  <2>1. journal[act].durable \in BOOLEAN BY <1>1 DEF Record
  <2>2. journal' \in {journal, Replaced(act, "finalized", journal[act].durable)}
    BY DEF EnsureReceipt, EnsureAudit, MarkFinalized
  <2> QED BY <1>1, <2>1, <2>2, ReplacedRecord DEF Pending
<1>5. Sole' BY <1>1, <1>3, <1>4 DEF Sole, Pending
<1>6. First' BY <1>1, <1>3, <1>4 DEF First
<1>7. Truth' BY <1>1, <1>2, <1>4 DEF Truth, Pending
<1> QED BY <1>5, <1>6, <1>7

(* Approvals come and go; a request that arrives finds no record.          *)
LEMMA ArrivalSharp ==
    ASSUME Inv, Inv', Sharp, NEW k \in Key, IssueApproval(k) \/ Expire(k) \/ Mutate(k)
    PROVE  Sharp'
<1> USE TargetsAssumption DEF Inv, Rest, TypeOK, Sharp, At, life, evidence, work, approvals
<1>1. /\ journal' = journal /\ cur' = cur /\ applied' = applied /\ boot' = boot
      /\ receipts' = receipts
  BY DEF IssueApproval, Expire, Mutate
<1>2. \A j : Touched(j)' <=> Touched(j) BY <1>1, SameTouched
<1>3. Truth' BY <1>1, <1>2 DEF Truth, Pending
<1>4. CASE IssueApproval(k) \/ Expire(k)
  <2>1. act' = act /\ pc' = pc /\ plan' = plan /\ retry' = retry
    BY <1>4 DEF IssueApproval, Expire
  <2>2. Sole' /\ First' BY <1>1, <2>1 DEF Sole, First, Pending
  <2> QED BY <1>3, <2>2
<1>5. CASE Mutate(k)
  <2>1. pc = "idle" /\ boot = "up" BY <1>5 DEF Mutate
  <2>2. k \notin receipts => journal[k] = None BY <2>1 DEF Sole, Pending
  <2>3. \/ pc' = "idle"
        \/ pc' = "reserve" /\ act' = k /\ plan'.prior = cur /\ ~retry' /\ journal[k] = None
    BY <1>5, <2>2 DEF Mutate, PriorOf
  <2>4. Sole' BY <1>1, <2>1, <2>3 DEF Sole, Pending
  <2>5. First' BY <1>1, <2>3 DEF First
  <2> QED BY <1>3, <2>4, <2>5
<1> QED BY <1>4, <1>5

(* A death, and the steps of a startup.                                    *)
LEMMA BootSharp ==
    ASSUME Inv, Inv', Sharp, Crash \/ BootStart \/ BootServe PROVE Sharp'
<1> USE TargetsAssumption DEF Inv, Rest, TypeOK, Sharp, Leave, life, work, evidence, approvals
<1>1. journal' = journal /\ cur' = cur /\ applied' = applied /\ receipts' = receipts
  BY DEF Crash, BootStart, BootServe
<1>2. \A j : Touched(j)' <=> Touched(j) BY <1>1, SameTouched
<1>3. Truth' BY <1>1, <1>2 DEF Truth, Pending
<1>4. pc' = "idle" BY DEF Crash, BootStart, BootServe, Working
<1>5. First' BY <1>4 DEF First
<1>6. CASE Crash \/ BootStart
  <2>1. boot' # "up" BY <1>6 DEF Crash, BootStart
  <2> QED BY <1>1, <1>3, <1>5, <2>1 DEF Sole, Pending
<1>7. CASE BootServe
  <2>1. \A k \in Key : journal[k] # None => journal[k].state = "finalized"
    BY <1>7 DEF BootServe, Records
  <2>2. \A k \in Key : journal[k] # None => k \in receipts
    BY <2>1 DEF FinalizedTargetHasEvidence
  <2>3. Sole' BY <1>1, <2>1, <2>2 DEF Sole, Pending
  <2> QED BY <1>3, <1>5, <2>3
<1> QED BY <1>6, <1>7

(* A startup that cancels or finalizes a record does so by its truth.      *)
LEMMA ReconcileSharp ==
    ASSUME Inv, Inv', Sharp, NEW k \in Key,
           BootCancel(k) \/ BootDrift(k) \/ BootFinalize(k) \/ BootSkip(k)
    PROVE  Sharp'
<1> USE TargetsAssumption DEF Inv, Rest, TypeOK, Sharp, life, work, approvals,
        BootNext, BootRefused
<1>1. /\ cur' = cur /\ applied' = applied /\ boot' # "up" /\ pc' = "idle"
      /\ boot = "scan" /\ k \in todo /\ journal[k] # None
  BY DEF BootCancel, BootDrift, BootFinalize, BootSkip, Working, Records
<1>2. \A j : Touched(j)' <=> Touched(j) BY <1>1, SameTouched
<1>3. First' BY <1>1 DEF First
<1>4. CASE journal' = journal
  BY <1>1, <1>2, <1>3, <1>4 DEF Sole, Truth, Pending
<1>5. CASE BootCancel(k) /\ journal' = [journal EXCEPT ![k] = None]
  <2>1. /\ \A j \in Key : j # k => journal'[j] = journal[j]
        /\ journal'[k] = None
    BY <1>5
  <2> QED BY <1>1, <1>2, <1>3, <2>1 DEF Sole, Truth, Pending
<1>6. ASSUME BootFinalize(k), journal' # journal PROVE Sharp'
  <2>1. /\ ~Untouched(journal[k]) /\ cur = journal[k].desired
        /\ \/ journal' = Replaced(k, "finalized", TRUE)
           \/ journal' = Replaced(k, "finalizing", TRUE)
    BY <1>6 DEF BootFinalize
  <2> DEFINE Keeps(s) == LET R == Replaced(k, s, TRUE) IN
               /\ R[k] # None /\ R[k].prior = journal[k].prior
               /\ R[k].desired = journal[k].desired /\ R[k].state = s
               /\ \A j \in Key : j # k => R[j] = journal[j]
  <2>2. Keeps("finalized") /\ Keeps("finalizing")
    BY <1>1, ReplacedRecord
  <2>3. /\ \A j \in Key : j # k => journal'[j] = journal[j]
        /\ journal'[k] # None /\ journal'[k].prior = journal[k].prior
        /\ journal'[k].desired = journal[k].desired /\ journal'[k].state # "pending"
    BY <2>1, <2>2
  <2>4. Touched(k) <=> journal[k].prior # journal[k].desired
    BY <1>1, <2>1 DEF Truth, Untouched, Pending
  <2>5. Sole' BY <1>1, <2>3 DEF Sole, Pending
  <2>6. Truth' BY <1>1, <1>2, <2>3, <2>4 DEF Truth, Pending
  <2> QED BY <1>3, <2>5, <2>6
<1> QED BY <1>4, <1>5, <1>6 DEF BootCancel, BootDrift, BootFinalize, BootSkip

(* Every step preserves the sharper invariant.                             *)
LEMMA NextSharp ==
    ASSUME Inv, Inv', Sharp, NoOrphan', [Next]_vars PROVE Sharp'
<1>1. CASE Next
  BY <1>1, RequestSharp, CommitSharp, EffectSharp, FinishSharp, ArrivalSharp, BootSharp,
     ReconcileSharp DEF Next, Step
<1>2. CASE UNCHANGED vars
  BY <1>2 DEF vars, Sharp, Sole, First, Truth, Pending, Touched, evidence, work, life
<1> QED BY <1>1, <1>2

-----------------------------------------------------------------------------
(* The refinement goes by keys: what the abstract journal is shown of one. *)
PhaseOf(k) == IF journal[k] = None THEN "free"
              ELSE IF journal[k].state = "pending" THEN "reserved" ELSE "decided"
AuthorsOf(k) == {n \in 1 .. MaxTries : <<k, n>> \in applied}
OutcomeOf(k) == IF journal[k] = None \/ journal[k].state = "pending" THEN "open"
                ELSE IF journal[k].prior = journal[k].desired THEN "none" ELSE "applied"

(* The empty journal is the abstract one's.                                *)
LEMMA JournalInit == Init => Journal!Init
  BY DEF Init, Journal!Init

(* Where no key changes what it shows, the abstract journal stutters.      *)
LEMMA JournalStutter ==
    ASSUME \A k \in Key : /\ PhaseOf(k)' = PhaseOf(k) /\ AuthorsOf(k)' = AuthorsOf(k)
                          /\ OutcomeOf(k)' = OutcomeOf(k)
    PROVE  UNCHANGED Journal!vars
  BY DEF Journal!vars, PhaseOf, AuthorsOf, OutcomeOf

(* A change of what is shown of one key, in one of the journal's ways, is  *)
(* a step of the journal.                                                  *)
LEMMA JournalKeyStep ==
    ASSUME NEW k \in Key,
           \A j \in Key \ {k} : /\ PhaseOf(j)' = PhaseOf(j) /\ AuthorsOf(j)' = AuthorsOf(j)
                                /\ OutcomeOf(j)' = OutcomeOf(j),
           \/ /\ PhaseOf(k) = "free" /\ PhaseOf(k)' = "reserved"
              /\ AuthorsOf(k)' = AuthorsOf(k) /\ OutcomeOf(k)' = OutcomeOf(k)
           \/ /\ PhaseOf(k) = "reserved" /\ PhaseOf(k)' = "free" /\ AuthorsOf(k) = {}
              /\ AuthorsOf(k)' = AuthorsOf(k) /\ OutcomeOf(k)' = OutcomeOf(k)
           \/ /\ PhaseOf(k) = "reserved" /\ PhaseOf(k)' = "reserved" /\ AuthorsOf(k) = {}
              /\ \E n \in 1 .. MaxTries : AuthorsOf(k)' = {n}
              /\ OutcomeOf(k)' = OutcomeOf(k)
           \/ /\ PhaseOf(k) = "reserved" /\ PhaseOf(k)' = "decided"
              /\ AuthorsOf(k)' = AuthorsOf(k)
              /\ OutcomeOf(k)' = IF AuthorsOf(k) = {} THEN "none" ELSE "applied"
    PROVE  Journal!Next
<1> DEFINE P == [j \in Key |-> PhaseOf(j)]  A == [j \in Key |-> AuthorsOf(j)]
           O == [j \in Key |-> OutcomeOf(j)]
<1>1. CASE /\ PhaseOf(k) = "free" /\ PhaseOf(k)' = "reserved"
           /\ AuthorsOf(k)' = AuthorsOf(k) /\ OutcomeOf(k)' = OutcomeOf(k)
  <2>1. /\ P[k] = "free" /\ P' = [P EXCEPT ![k] = "reserved"] /\ A' = A /\ O' = O
    BY <1>1
  <2>2. Journal!Reserve(k) BY <2>1 DEF Journal!Reserve, PhaseOf, AuthorsOf, OutcomeOf
  <2> QED BY <2>2 DEF Journal!Next
<1>2. CASE /\ PhaseOf(k) = "reserved" /\ PhaseOf(k)' = "free" /\ AuthorsOf(k) = {}
           /\ AuthorsOf(k)' = AuthorsOf(k) /\ OutcomeOf(k)' = OutcomeOf(k)
  <2>1. /\ P[k] = "reserved" /\ A[k] = {} /\ P' = [P EXCEPT ![k] = "free"]
        /\ A' = A /\ O' = O
    BY <1>2
  <2>2. Journal!Cancel(k) BY <2>1 DEF Journal!Cancel, PhaseOf, AuthorsOf, OutcomeOf
  <2> QED BY <2>2 DEF Journal!Next
<1>3. CASE /\ PhaseOf(k) = "reserved" /\ PhaseOf(k)' = "reserved" /\ AuthorsOf(k) = {}
           /\ \E n \in 1 .. MaxTries : AuthorsOf(k)' = {n}
           /\ OutcomeOf(k)' = OutcomeOf(k)
  <2>1. PICK n \in 1 .. MaxTries : AuthorsOf(k)' = {n} BY <1>3
  <2>2. /\ P[k] = "reserved" /\ A[k] = {} /\ P' = P
        /\ A' = [A EXCEPT ![k] = {n}] /\ O' = O
    BY <1>3, <2>1
  <2>3. Journal!Apply(k, n) BY <2>2 DEF Journal!Apply, PhaseOf, AuthorsOf, OutcomeOf
  <2> QED BY <2>3 DEF Journal!Next
<1>4. CASE /\ PhaseOf(k) = "reserved" /\ PhaseOf(k)' = "decided"
           /\ AuthorsOf(k)' = AuthorsOf(k)
           /\ OutcomeOf(k)' = IF AuthorsOf(k) = {} THEN "none" ELSE "applied"
  <2>1. OutcomeOf(k)' = Journal!Truth(k) BY <1>4 DEF Journal!Truth, AuthorsOf
  <2>2. /\ P[k] = "reserved" /\ P' = [P EXCEPT ![k] = "decided"]
        /\ A' = A /\ O' = [O EXCEPT ![k] = OutcomeOf(k)']
    BY <1>4
  <2>3. \E v \in {"unknown", Journal!Truth(k)} : O' = [O EXCEPT ![k] = v]
    BY <2>1, <2>2
  <2>4. Journal!Decide(k) BY <2>2, <2>3 DEF Journal!Decide, PhaseOf, AuthorsOf, OutcomeOf
  <2> QED BY <2>4 DEF Journal!Next
<1> QED BY <1>1, <1>2, <1>3, <1>4

(* A key whose record and whose effect stay shows what it showed.          *)
LEMMA ShownSame ==
    ASSUME NEW k, journal'[k] = journal[k],
           \A n \in 1 .. MaxTries : <<k, n>> \in applied' <=> <<k, n>> \in applied
    PROVE  PhaseOf(k)' = PhaseOf(k) /\ AuthorsOf(k)' = AuthorsOf(k) /\ OutcomeOf(k)' = OutcomeOf(k)
  BY DEF PhaseOf, AuthorsOf, OutcomeOf

(* What a step may do to one record, and the journal's name for it.        *)
LEMMA RecordMoves ==
    ASSUME NEW k \in Key, \A j \in Key : j # k => journal'[j] = journal[j],
           \/ /\ applied' = applied /\ journal[k] = None
              /\ journal'[k] # None /\ journal'[k].state = "pending"
           \/ applied' = applied /\ Pending(k) /\ ~Touched(k) /\ journal'[k] = None
           \/ /\ journal'[k] = journal[k] /\ Pending(k) /\ ~Touched(k)
              /\ \E n \in 1 .. MaxTries : applied' = applied \cup {<<k, n>>}
           \/ /\ applied' = applied /\ Pending(k)
              /\ journal'[k] # None /\ journal'[k].state # "pending"
              /\ Touched(k) <=> journal'[k].prior # journal'[k].desired
           \/ /\ applied' = applied /\ journal[k] # None /\ ~Pending(k)
              /\ journal'[k] # None /\ journal'[k].state # "pending"
              /\ journal'[k].prior = journal[k].prior /\ journal'[k].desired = journal[k].desired
           \/ applied' = applied /\ journal'[k] = journal[k]
    PROVE  Journal!Next \/ UNCHANGED Journal!vars
<1> DEFINE Same(j) == PhaseOf(j)' = PhaseOf(j) /\ AuthorsOf(j)' = AuthorsOf(j)
                      /\ OutcomeOf(j)' = OutcomeOf(j)
<1>1. \A j \in Key \ {k} : Same(j)
  <2> SUFFICES ASSUME NEW j \in Key, j # k PROVE Same(j)
    OBVIOUS
  <2>1. \A n \in 1 .. MaxTries : <<j, n>> \in applied' <=> <<j, n>> \in applied
    OBVIOUS
  <2> QED BY <2>1, ShownSame
<1>2. AuthorsOf(k) = {} <=> ~Touched(k) BY DEF AuthorsOf, Touched
<1>3. CASE /\ applied' = applied /\ journal[k] = None
           /\ journal'[k] # None /\ journal'[k].state = "pending"
  <2>1. /\ PhaseOf(k) = "free" /\ PhaseOf(k)' = "reserved"
        /\ AuthorsOf(k)' = AuthorsOf(k) /\ OutcomeOf(k)' = OutcomeOf(k)
    BY <1>3 DEF PhaseOf, AuthorsOf, OutcomeOf
  <2> QED BY <1>1, <2>1, JournalKeyStep
<1>4. CASE applied' = applied /\ Pending(k) /\ ~Touched(k) /\ journal'[k] = None
  <2>1. /\ PhaseOf(k) = "reserved" /\ PhaseOf(k)' = "free" /\ AuthorsOf(k) = {}
        /\ AuthorsOf(k)' = AuthorsOf(k) /\ OutcomeOf(k)' = OutcomeOf(k)
    BY <1>2, <1>4 DEF PhaseOf, AuthorsOf, OutcomeOf, Pending
  <2> QED BY <1>1, <2>1, JournalKeyStep
<1>5. CASE /\ journal'[k] = journal[k] /\ Pending(k) /\ ~Touched(k)
           /\ \E n \in 1 .. MaxTries : applied' = applied \cup {<<k, n>>}
  <2>1. PICK n \in 1 .. MaxTries : applied' = applied \cup {<<k, n>>} BY <1>5
  <2>2. AuthorsOf(k)' = {n} BY <1>2, <1>5, <2>1 DEF AuthorsOf
  <2>3. /\ PhaseOf(k) = "reserved" /\ PhaseOf(k)' = "reserved" /\ AuthorsOf(k) = {}
        /\ \E m \in 1 .. MaxTries : AuthorsOf(k)' = {m}
        /\ OutcomeOf(k)' = OutcomeOf(k)
    BY <1>2, <1>5, <2>2 DEF PhaseOf, OutcomeOf, Pending
  <2> QED BY <1>1, <2>3, JournalKeyStep
<1>6. CASE /\ applied' = applied /\ Pending(k)
           /\ journal'[k] # None /\ journal'[k].state # "pending"
           /\ Touched(k) <=> journal'[k].prior # journal'[k].desired
  <2>1. /\ PhaseOf(k) = "reserved" /\ PhaseOf(k)' = "decided"
        /\ AuthorsOf(k)' = AuthorsOf(k)
        /\ OutcomeOf(k)' = IF AuthorsOf(k) = {} THEN "none" ELSE "applied"
    <3>1. PhaseOf(k) = "reserved" /\ PhaseOf(k)' = "decided" BY <1>6 DEF PhaseOf, Pending
    <3>2. AuthorsOf(k)' = AuthorsOf(k) BY <1>6 DEF AuthorsOf
    <3>3. OutcomeOf(k)' = IF ~Touched(k) THEN "none" ELSE "applied"
      BY <1>6 DEF OutcomeOf
    <3> QED BY <1>2, <3>1, <3>2, <3>3
  <2> QED BY <1>1, <2>1, JournalKeyStep
<1>7. CASE /\ applied' = applied /\ journal[k] # None /\ ~Pending(k)
           /\ journal'[k] # None /\ journal'[k].state # "pending"
           /\ journal'[k].prior = journal[k].prior /\ journal'[k].desired = journal[k].desired
  <2>1. Same(k) BY <1>7 DEF PhaseOf, AuthorsOf, OutcomeOf, Pending
  <2> QED BY <1>1, <2>1, JournalStutter
<1>8. CASE applied' = applied /\ journal'[k] = journal[k]
  <2>1. Same(k) BY <1>8, ShownSame
  <2> QED BY <1>1, <2>1, JournalStutter
<1> QED BY <1>3, <1>4, <1>5, <1>6, <1>7, <1>8

(* A step of the request at work is a step of the journal, or none.        *)
LEMMA RequestRefines ==
    ASSUME Inv, Sharp, NoOrphan',
           Reserve \/ Authorize \/ Check \/ Consume \/ Commit \/ RecordEffect \/ MarkFinalized
    PROVE  Journal!Next \/ UNCHANGED Journal!vars
<1> USE TargetsAssumption DEF Inv, Rest, TypeOK, Sharp, Goto, Leave, At
<1>1. act \in Key /\ boot = "up" /\ pc # "idle" /\ ~retry
  BY DEF Working, First, Reserve, Authorize, Check, Consume, Commit, RecordEffect, MarkFinalized
<1>2. /\ \A k \in Key : k # act => Cancelled(act)[k] = journal[k]
      /\ Pending(act) => Cancelled(act)[act] = None
  BY <1>1 DEF Cancelled, Removable, Pending
<1>3. Pending(act) /\ pc # "effect" => ~Touched(act) BY <1>1 DEF Changes
<1>4. CASE Reserve
  <2>1. journal[act] = None /\ applied' = applied BY <1>1, <1>4 DEF Reserve, First
  <2>2. NewRecord # None /\ NewRecord.state = "pending"
    <3>1. NewRecord \in Record BY DEF NewRecord, Record, Transition
    <3>2. NewRecord # None BY <3>1
    <3> QED BY <3>2 DEF NewRecord
  <2>3. \/ journal' = journal
        \/ journal' = [journal EXCEPT ![act] = NewRecord]
    BY <1>4, <2>1 DEF Reserve, WriteExclusive
  <2>4. /\ \A j \in Key : j # act => journal'[j] = journal[j]
        /\ journal'[act] = journal[act] \/ (journal'[act] # None /\ journal'[act].state = "pending")
    BY <1>1, <2>2, <2>3
  <2> QED BY <1>1, <2>1, <2>4, RecordMoves
<1>5. CASE Authorize \/ Check \/ Consume
  <2>1. Pending(act) /\ pc # "effect" /\ applied' = applied
    BY <1>1, <1>5 DEF Authorize, Check, Consume, First
  <2>2. journal' = journal \/ journal' = Cancelled(act)
    BY <1>1, <1>5 DEF Authorize, Check, Consume, Withdraw
  <2>3. /\ \A j \in Key : j # act => journal'[j] = journal[j]
        /\ journal'[act] = journal[act] \/ journal'[act] = None
    BY <1>1, <1>2, <2>1, <2>2
  <2> QED BY <1>1, <1>3, <2>1, <2>3, RecordMoves
<1>6. CASE Commit
  <2>1. /\ Pending(act) /\ ~Touched(act) /\ pc = "commit" /\ cur = plan.prior
        /\ tries \in 1 .. MaxTries
    BY <1>1, <1>3, <1>6 DEF Commit, First, Working
  <2>2. \/ Apply /\ journal' = journal
        \/ applied' = applied /\ journal' \in {journal, Cancelled(act)}
    BY <1>6, <2>1 DEF Commit, Unpublished, Withdraw
  <2>3. /\ \A j \in Key : j # act => journal'[j] = journal[j]
        /\ \/ journal'[act] = journal[act] /\ applied' = applied
           \/ journal'[act] = journal[act] /\ applied' = applied \cup {<<act, tries>>}
           \/ journal'[act] = None /\ applied' = applied
    BY <1>1, <1>2, <2>1, <2>2 DEF Apply
  <2> QED BY <1>1, <2>1, <2>3, RecordMoves
<1>7. CASE RecordEffect
  <2>1. Pending(act) /\ pc = "effect" /\ applied' = applied
        /\ cur = journal[act].desired
    BY <1>1, <1>7 DEF RecordEffect, First, Working, Records
  <2>2. journal' = Replaced(act, "finalizing", durable)
    <3>1. /\ boot' = boot
          /\ \/ journal' = Replaced(act, "finalizing", durable)
             \/ journal' = journal /\ act' = None
      BY <1>7, <2>1 DEF RecordEffect, Pending, life
    <3>2. act' = None /\ boot' = boot => journal' # journal
      BY <1>1, <2>1 DEF NoOrphan, Orphan, Pending
    <3> QED BY <3>1, <3>2
  <2>3. /\ \A j \in Key : j # act => journal'[j] = journal[j]
        /\ journal'[act] # None /\ journal'[act].state # "pending"
        /\ journal'[act].prior = journal[act].prior /\ journal'[act].desired = journal[act].desired
    BY <1>1, <2>1, <2>2, ReplacedRecord DEF Pending
  <2>4. Touched(act) <=> journal[act].prior # journal[act].desired
    BY <1>1, <2>1 DEF Truth
  <2> QED BY <1>1, <2>1, <2>3, <2>4, RecordMoves
<1>8. CASE MarkFinalized
  <2>1. journal[act] # None /\ ~Pending(act) /\ applied' = applied
    BY <1>1, <1>8 DEF MarkFinalized, Working
  <2>2. journal[act].durable \in BOOLEAN BY <1>1, <2>1 DEF Record
  <2>3. journal' \in {journal, Replaced(act, "finalized", journal[act].durable)}
    BY <1>8 DEF MarkFinalized
  <2>4. /\ \A j \in Key : j # act => journal'[j] = journal[j]
        /\ journal'[act] # None /\ journal'[act].state # "pending"
        /\ journal'[act].prior = journal[act].prior /\ journal'[act].desired = journal[act].desired
    BY <1>1, <2>1, <2>2, <2>3, ReplacedRecord DEF Pending
  <2> QED BY <1>1, <2>1, <2>4, RecordMoves
<1> QED BY <1>4, <1>5, <1>6, <1>7, <1>8

(* So is a step of a startup at one record.                                *)
LEMMA ReconcileRefines ==
    ASSUME Inv, Sharp, NEW k \in Key, BootCancel(k) \/ BootFinalize(k)
    PROVE  Journal!Next \/ UNCHANGED Journal!vars
<1> USE TargetsAssumption DEF Inv, Rest, TypeOK, Sharp
<1>1. applied' = applied /\ journal[k] # None
  BY DEF BootCancel, BootFinalize, Records
<1>2. CASE BootCancel(k)
  <2>1. Pending(k) /\ cur = journal[k].prior BY <1>1, <1>2 DEF BootCancel, Untouched, Pending
  <2>2. ~Touched(k) BY <2>1 DEF Changes
  <2>3. /\ \A j \in Key : j # k => journal'[j] = journal[j]
        /\ journal'[k] = journal[k] \/ journal'[k] = None
    BY <1>2 DEF BootCancel
  <2> QED BY <1>1, <2>1, <2>2, <2>3, RecordMoves
<1>3. CASE BootFinalize(k)
  <2>1. /\ ~Untouched(journal[k]) /\ cur = journal[k].desired
        /\ \/ journal' = Replaced(k, "finalized", TRUE)
           \/ journal' = Replaced(k, "finalizing", TRUE)
           \/ journal' = journal
    BY <1>3 DEF BootFinalize, evidence
  <2> DEFINE Keeps(s) == LET R == Replaced(k, s, TRUE) IN
               /\ R[k] # None /\ R[k].prior = journal[k].prior
               /\ R[k].desired = journal[k].desired /\ R[k].state = s
               /\ \A j \in Key : j # k => R[j] = journal[j]
  <2>2. Keeps("finalized") /\ Keeps("finalizing")
    BY <1>1, ReplacedRecord
  <2>3. /\ \A j \in Key : j # k => journal'[j] = journal[j]
        /\ \/ journal'[k] = journal[k]
           \/ /\ journal'[k] # None /\ journal'[k].prior = journal[k].prior
              /\ journal'[k].desired = journal[k].desired /\ journal'[k].state # "pending"
    BY <2>1, <2>2
  <2>4. Pending(k) => (Touched(k) <=> journal[k].prior # journal[k].desired)
    BY <1>1, <2>1 DEF Truth, Untouched, Pending
  <2> HIDE DEF Keeps
  <2>5. CASE journal'[k] = journal[k] BY <1>1, <2>3, <2>5, RecordMoves
  <2>6. CASE journal'[k] # journal[k] /\ Pending(k)
    BY <1>1, <2>3, <2>4, <2>6, RecordMoves
  <2>7. CASE journal'[k] # journal[k] /\ ~Pending(k)
    BY <1>1, <2>3, <2>7, RecordMoves
  <2> QED BY <2>5, <2>6, <2>7
<1> QED BY <1>2, <1>3

(* Until a record is left to itself, the target journal implements         *)
(* JournaledMutation: a request changes the document at most once over its *)
(* retries and restarts, its record is cancelled only if it never did, and *)
(* the recorded effect is the truth, through crashes and every failure     *)
(* that leaves no such record.                                             *)
THEOREM TargetsRefinesJournal == Spec => TargetJournalRefined
<1> DEFINE SoFar == left = {} => Inv /\ Sharp
           Refined == left' = {} => Journal!Next
<1>2. [Next]_vars => (left' = {} => left = {})
  BY DEF Next, vars
<1>3. SoFar /\ [Next]_vars => SoFar'
  <2> SUFFICES ASSUME SoFar, [Next]_vars, left' = {} PROVE Inv' /\ Sharp'
    OBVIOUS
  <2>1. Inv /\ Sharp BY <1>2
  <2>2. CASE Next
    <3>1. NoOrphan' BY <2>2 DEF Next, NoOrphan
    <3>2. Inv' BY <2>1, <3>1, NextInv
    <3> QED BY <2>1, <3>1, <3>2, NextSharp
  <2>3. CASE UNCHANGED vars
    BY <2>1, <2>3 DEF vars, Inv, Rest, Working, Records, Changes, Pending, Touched, TypeOK,
       ChangeIsApproved, FinalizedTargetHasEvidence, Sharp, Sole, First, Truth,
       evidence, approvals, work, life
  <2> QED BY <2>2, <2>3
<1>4. SoFar /\ [Next]_vars => [Refined]_(Journal!vars)
  <2> SUFFICES ASSUME SoFar, [Next]_vars, left' = {}
               PROVE  Journal!Next \/ UNCHANGED Journal!vars
    OBVIOUS
  <2>0. Inv /\ Sharp BY <1>2
  <2>1. CASE /\ Next
             /\ \/ Reserve \/ Authorize \/ Check \/ Consume \/ Commit
                \/ RecordEffect \/ MarkFinalized
    <3>1. NoOrphan' BY <2>1 DEF Next, NoOrphan
    <3> QED BY <2>0, <2>1, <3>1, RequestRefines
  <2>2. CASE \E k \in Key : BootCancel(k) \/ BootFinalize(k)
    BY <2>0, <2>2, ReconcileRefines
  <2>3. CASE UNCHANGED <<journal, applied>>
    <3>1. \A k \in Key : /\ PhaseOf(k)' = PhaseOf(k) /\ AuthorsOf(k)' = AuthorsOf(k)
                         /\ OutcomeOf(k)' = OutcomeOf(k)
      BY <2>3, ShownSame
    <3> QED BY <3>1, JournalStutter
  <2>4. CASE \/ EnsureReceipt \/ EnsureAudit \/ Crash \/ BootStart \/ BootServe
             \/ \E k \in Key : \/ IssueApproval(k) \/ Expire(k) \/ Mutate(k)
                               \/ BootDrift(k) \/ BootSkip(k)
             \/ UNCHANGED vars
    <3>1. UNCHANGED <<journal, applied>>
      BY <2>4 DEF EnsureReceipt, EnsureAudit, Crash, BootStart, BootServe, IssueApproval, Expire,
         Mutate, BootDrift, BootSkip, vars
    <3> QED BY <2>3, <3>1
  <2> QED BY <2>1, <2>2, <2>4 DEF Next, Step
<1>5. Init => SoFar BY InitInv, InitSharp
<1> HIDE DEF SoFar, Refined
<1>6. Spec => Journal!Init /\ [][Refined]_(Journal!vars)
  BY <1>3, <1>4, <1>5, JournalInit, PTL DEF Spec
<1> QED BY <1>6 DEF TargetJournalRefined, Refined

-----------------------------------------------------------------------------
(* JournaledMutation, what the target and the session journal implement,   *)
(* for any keys, agents and histories of its own.                          *)

CONSTANTS AnyKey, AnyAgent
VARIABLES keyPhase, authors, verdict

Promise == INSTANCE JournaledMutation WITH
    Key <- AnyKey, Agent <- AnyAgent,
    phase <- keyPhase, applied <- authors, outcome <- verdict

promised == <<keyPhase, authors, verdict>>
KeyStep(k) == \/ Promise!Reserve(k) \/ Promise!Cancel(k) \/ Promise!Decide(k)
              \/ \E a \in AnyAgent : Promise!Apply(k, a)

(* The types of the promise's state are kept.                              *)
LEMMA PromiseTyped == Promise!Spec => []Promise!TypeOK
<1>1. Promise!Init => Promise!TypeOK BY DEF Promise!Init, Promise!TypeOK, Promise!Verdicts
<1>2. Promise!TypeOK /\ [Promise!Next]_promised => Promise!TypeOK'
  BY DEF Promise!TypeOK, Promise!Next, Promise!Reserve, Promise!Cancel, Promise!Decide,
         Promise!Apply, Promise!Verdicts, Promise!Truth, promised
<1> QED BY <1>1, <1>2, PTL DEF Promise!Spec, Promise!vars, promised

(* A step of the journal under one key preserves the promise.              *)
LEMMA KeyTruthful ==
    ASSUME Promise!TypeOK, Promise!Truthful, NEW k \in AnyKey, KeyStep(k)
    PROVE  Promise!Truthful'
<1> USE DEF Promise!TypeOK, Promise!Truthful, Promise!Truth
<1>1. CASE Promise!Reserve(k) BY <1>1 DEF Promise!Reserve
<1>2. CASE Promise!Cancel(k) BY <1>2 DEF Promise!Cancel
<1>3. CASE Promise!Decide(k) BY <1>3 DEF Promise!Decide
<1>4. ASSUME NEW a \in AnyAgent, Promise!Apply(k, a) PROVE Promise!Truthful'
  BY <1>4 DEF Promise!Apply
<1> QED BY <1>1, <1>2, <1>3, <1>4 DEF KeyStep

(* Under every key the effect has at most one author, a free key has seen  *)
(* none, and a settled verdict agrees with what happened: the promise that *)
(* the session journal and the target journal implement.                   *)
THEOREM JournalTruthful == Promise!Spec => []Promise!Truthful
<1>1. Promise!Init => Promise!Truthful BY DEF Promise!Init, Promise!Truthful, Promise!Truth
<1>2. Promise!TypeOK /\ Promise!Truthful /\ [Promise!Next]_promised => Promise!Truthful'
  <2> SUFFICES ASSUME Promise!TypeOK, Promise!Truthful, [Promise!Next]_promised
               PROVE  Promise!Truthful'
    OBVIOUS
  <2>1. CASE Promise!Next
    <3>1. PICK k \in AnyKey : KeyStep(k) BY <2>1 DEF Promise!Next, KeyStep
    <3> QED BY <3>1, KeyTruthful
  <2>2. CASE UNCHANGED promised BY <2>2 DEF promised, Promise!Truthful, Promise!Truth
  <2> QED BY <2>1, <2>2
<1> QED BY <1>1, <1>2, PromiseTyped, PTL DEF Promise!Spec, Promise!vars, promised

(* A decided key stays decided, with the verdict and the effect it has:    *)
(* neither a retry nor a reconciliation revises a verdict.                 *)
VerdictIsFinal ==
    \A k \in AnyKey : keyPhase[k] = "decided" =>
        keyPhase'[k] = "decided" /\ verdict'[k] = verdict[k] /\ authors'[k] = authors[k]

(* VerdictIsFinal holds of every step.                                     *)
THEOREM JournalVerdictIsFinal == Promise!Spec => [][VerdictIsFinal]_promised
<1>1. Promise!TypeOK /\ [Promise!Next]_promised => [VerdictIsFinal]_promised
  <2> SUFFICES ASSUME Promise!TypeOK, Promise!Next PROVE VerdictIsFinal
    OBVIOUS
  <2>1. PICK k \in AnyKey : KeyStep(k) BY DEF Promise!Next, KeyStep
  <2> QED BY <2>1 DEF KeyStep, Promise!TypeOK, VerdictIsFinal, Promise!Reserve, Promise!Cancel,
                      Promise!Decide, Promise!Apply
<1> QED BY <1>1, PromiseTyped, PTL DEF Promise!Spec, Promise!vars, promised
=============================================================================
