------------------------ MODULE SessionMutationProofs -----------------------
(***************************************************************************)
(* Proofs about SessionMutation for any calls, operations, keys, flights   *)
(* and machines, any number of crashes and of failing writes: the journal  *)
(* implements JournaledMutation, an effect spends its approval, a final    *)
(* record has its evidence, and sure answers agree.                        *)
(***************************************************************************)
EXTENDS SessionMutation, TLAPS

(* A call that acts, one that has not come to its own marker, and one that *)
(* has not executed.                                                       *)
Active == {"lookup", "cached", "approval", "lease", "policy", "reserve",
           "create", "created", "discard", "prepare", "execute", "intent",
           "receipt", "audit", "mark", "load", "settle", "unsettled"}
Early == {"idle", "wait", "lookup", "cached", "approval", "lease", "policy",
          "reserve", "create"}
Unexecuted == Early \cup {"created", "discard", "prepare", "execute"}

(* An acting call leads its flight in a daemon that is up: of the calls of *)
(* one operation at most one acts.  A waiting call waits for its equal.    *)
Leading ==
    /\ \A c \in Call : pc[c] \in Active => boot = "up" /\ flight[F(c)] = c
    /\ \A c \in Call : pc[c] = "wait" => lead[c] \in Call /\ OpOf[lead[c]] = OpOf[c]

(* A record is under its own key and by a call that came to reserve it; a  *)
(* decided one holds the outcome of that call, or that it is unknown.      *)
RecordOK(k) ==
    LET r == journal[k] IN
    r # None =>
        /\ KeyOf[r.op] = k /\ OpOf[r.by] = r.op /\ pc[r.by] \notin Early
        /\ r.state # "pending" =>
             /\ r.rcpt.status # "denied"
             /\ r.rcpt.effect # "unknown" => r.rcpt.by = r.by
             /\ r.rcpt.effect = "applied" => r.by \in effects
Records == \A k \in Key : RecordOK(k)

(* While no record is stolen, an effect is that of the call whose record   *)
(* the key holds, and a decided record does not deny it.                   *)
Kept(c) ==
    /\ journal[K(c)] # None /\ journal[K(c)].by = c
    /\ journal[K(c)].state # "pending" => journal[K(c)].rcpt.effect # "none"
EffectOK(c) == pc[c] \notin Unexecuted /\ (stolen = {} => Kept(c))
Effects == \A c \in effects : EffectOK(c)

(* The key has no record, or no receipt, of the call's operation.          *)
Unrecorded(c) == journal[K(c)] # None => journal[K(c)].op # OpOf[c]
Unreceipted(c) == \A r \in receipts : r.op # OpOf[c]
(* It has a record of the call's operation; it had, before a theft; it has *)
(* no receipt of the operation but p.                                      *)
Recorded(c) == journal[K(c)] # None /\ journal[K(c)].op = OpOf[c]
Gone(c) == stolen # {} /\ Unrecorded(c)
Only(c, p) == \A r \in receipts : r.op = OpOf[c] => r = p

(* What a call may rely on, by the place where it is.                      *)
AtAdmission(c) ==
    /\ pc[c] \in {"cached", "approval", "lease", "policy", "reserve", "create"}
       => Unrecorded(c)
    /\ pc[c] \in {"approval", "lease", "policy", "reserve", "create", "created",
                  "discard", "prepare", "execute", "intent"}
       => Unreceipted(c)
AtExecution(c) ==
    /\ pc[c] \in {"created", "prepare", "execute"} => Gone(c) \/ journal[K(c)] = Marker(c)
    /\ pc[c] = "discard" => Unrecorded(c) \/ journal[K(c)] = Marker(c)
AtIntent(c) == pc[c] = "intent" =>
    /\ plan[c] \in Receipt /\ plan[c].op = OpOf[c] /\ plan[c].status # "denied"
    /\ plan[c].effect # "unknown" => /\ plan[c].by = c
                                     /\ plan[c].effect = "applied" <=> c \in effects
    /\ \/ Gone(c)
       \/ /\ Recorded(c) /\ journal[K(c)].state = "pending"
          /\ plan[c].effect # "unknown" => journal[K(c)].by = c
AtEvidence(c) == pc[c] \in {"receipt", "audit", "mark"} =>
    /\ plan[c] \in Receipt /\ plan[c].op = OpOf[c] /\ Only(c, plan[c])
    /\ pc[c] \in {"audit", "mark"} => plan[c] \in receipts
    /\ pc[c] = "mark" => plan[c] \in audited
    /\ Executing(c) => (plan[c].effect = "applied" <=> c \in effects)
    /\ IF plan[c].status = "denied"
         THEN pc[c] # "mark" /\ Unrecorded(c)
         ELSE \/ Gone(c)
              \/ /\ Recorded(c) /\ journal[K(c)].state # "pending"
                 /\ journal[K(c)].rcpt = plan[c]
AtSettle(c) == pc[c] \in {"settle", "unsettled"} =>
    /\ plan[c] \in Receipt /\ plan[c].op = OpOf[c] /\ Executing(c)
    /\ plan[c].effect = "none" => c \notin effects
    /\ pc[c] = "settle" => plan[c] \in receipts
Stages == \A c \in Call : /\ AtAdmission(c) /\ AtExecution(c) /\ AtIntent(c)
                          /\ AtEvidence(c) /\ AtSettle(c)

(* An operation has one receipt, which is what its record says; while the  *)
(* record is pending there is none.                                        *)
Agrees(r, k) ==
    journal[k] # None /\ journal[k].op = r.op =>
        journal[k].state # "pending" /\ journal[k].rcpt = r
Receipted ==
    /\ \A r, s \in receipts : r.op = s.op => r = s
    /\ \A r \in receipts, k \in Key : Agrees(r, k)

(* A sure answer is the receipt of the operation.                          *)
Sure(c, p) == p \in receipts /\ p.op = OpOf[c]
Replies == \A c \in Call : reply[c] # None /\ reply[c].sure => Sure(c, reply[c].rcpt)

(* A call that may still bring its effect about has the approval it needs; *)
(* one that spends an approval finds no other effect that spent it.        *)
Spender(c) ==
    \/ pc[c] = "execute"
    \/ pc[c] \in {"intent", "receipt", "audit", "mark", "settle", "unsettled"} /\ Executing(c)
Alone(c) == \A d \in effects : d \in needs /\ OpOf[d] = OpOf[c] => d = c
Approvals ==
    \A c \in Call :
        /\ pc[c] \in {"reserve", "create", "created", "prepare", "execute"} /\ c \in needs
           /\ c \notin ended => auth[c] = "valid"
        /\ pc[c] = "execute" /\ c \in needs /\ c \notin ended => OpOf[c] \in consumed
        /\ Spender(c) /\ c \in needs /\ auth[c] = "valid" => Alone(c)

(* The startup reconciliation decides every record, then audits it.        *)
Reconciled ==
    /\ boot \in {"scan", "mark"} => \A k \in todo : journal[k] # None
    /\ boot = "scan" => \A k \in Key \ todo : journal[k] # None =>
           journal[k].state # "pending" /\ journal[k].rcpt \in receipts
    /\ boot = "mark" => \A k \in Key : journal[k] # None =>
           journal[k].state # "pending" /\ journal[k].rcpt \in receipts \cap audited

Inv == /\ TypeOK /\ Leading /\ Records /\ Effects /\ Stages /\ Receipted /\ Replies
       /\ Approvals /\ EffectSpendsApproval /\ Reconciled /\ FinalizedHasEvidence

-----------------------------------------------------------------------------
(* The records the protocol writes have their types.                       *)
LEMMA Shapes ==
    /\ \A c \in Call, o \in Op : Interrupted(c, o) \in Receipt /\ Interrupted(c, o).op = o
    /\ \A b \in Boots, o \in Op : Interrupted(b, o) \in Receipt /\ Interrupted(b, o).op = o
    /\ \A c \in Call : Denial(c) \in Receipt /\ Marker(c) \in Reservation
    /\ \A c \in Call : /\ OpOf[c] \in Op /\ K(c) \in Key /\ F(c) \in Flight
                       /\ M(c) \in Machine
    /\ \A r \in Receipt : r.op \in Op
    /\ \A r \in Reservation :
          /\ r.op \in Op /\ r.by \in Call
          /\ r.state \in {"pending", "finalizing", "finalized"}
          /\ r.state # "pending" => r.rcpt \in Receipt /\ r.rcpt.op = r.op
<1> USE SessionMutationAssumption, NoneAssumption
<1>1. \A c \in Call : OpOf[c] \in Op /\ K(c) \in Key /\ F(c) \in Flight /\ M(c) \in Machine
  BY DEF K, F, M
<1>2. \A c \in Call, o \in Op : Interrupted(c, o) \in Receipt /\ Interrupted(c, o).op = o
  BY DEF Interrupted, Receipt, Status, Effect
<1>3. \A b \in Boots, o \in Op : Interrupted(b, o) \in Receipt /\ Interrupted(b, o).op = o
  BY DEF Interrupted, Receipt, Status, Effect
<1>4. \A c \in Call : Denial(c) \in Receipt
  BY <1>1 DEF Denial, Receipt, Status, Effect
<1>5. \A c \in Call : Marker(c) \in Reservation
  BY <1>1 DEF Marker, Reservation
<1>6. \A r \in Receipt : r.op \in Op
  BY DEF Receipt
<1>7. \A r \in Reservation :
          /\ r.op \in Op /\ r.by \in Call
          /\ r.state \in {"pending", "finalizing", "finalized"}
          /\ r.state # "pending" => r.rcpt \in Receipt /\ r.rcpt.op = r.op
  BY DEF Reservation
<1> QED BY <1>1, <1>2, <1>3, <1>4, <1>5, <1>6, <1>7

(* A pending record takes a receipt of its operation.                      *)
LEMMA DecideShape ==
    ASSUME NEW r \in Reservation, NEW p \in Receipt, p.op = r.op
    PROVE  LET s == [r EXCEPT !.state = "finalizing", !.rcpt = p] IN
             /\ s \in Reservation /\ s # None
             /\ s.op = r.op /\ s.by = r.by /\ s.state = "finalizing" /\ s.rcpt = p
BY NoneAssumption DEF Reservation

(* A decided record is marked and stays what it is.                        *)
LEMMA MarkShape ==
    ASSUME NEW r \in Reservation, r.state # "pending"
    PROVE  LET s == [r EXCEPT !.state = "finalized"] IN
             /\ s \in Reservation /\ s # None
             /\ s.op = r.op /\ s.by = r.by /\ s.state = "finalized" /\ s.rcpt = r.rcpt
BY NoneAssumption DEF Reservation

(* Of the calls of one operation at most one acts.                         *)
LEMMA OneActs ==
    ASSUME Leading, NEW c \in Call, NEW d \in Call,
           pc[c] \in Active, pc[d] \in Active, OpOf[c] = OpOf[d]
    PROVE  c = d
BY DEF Leading, F

(* What a step of the call c may touch: its own place and plan, its own    *)
(* effect, the record of its key if that is its operation's or is stolen,  *)
(* receipts of its operation.                                              *)
Footprint(c) ==
    /\ boot = "up" /\ UNCHANGED <<ended, auth, boot, todo, crashes>>
    /\ \A d \in Call \ {c} :
          /\ pc'[d] = pc[d] /\ plan'[d] = plan[d] /\ reply'[d] = reply[d]
          /\ lead'[d] = lead[d]
          /\ d \in effects' <=> d \in effects
          /\ d \in needs' <=> d \in needs
          /\ flight[F(d)] = d => flight'[F(d)] = d
    /\ effects \subseteq effects' /\ stolen \subseteq stolen'
    /\ pc[c] \notin Early => pc'[c] \notin Early
    /\ receipts \subseteq receipts' /\ audited \subseteq audited'
    /\ \A r \in receipts' : r \in receipts \/ r.op = OpOf[c]
    /\ \A k \in Key \ {K(c)} : journal'[k] = journal[k]
    /\ \/ journal'[K(c)] = journal[K(c)]
       \/ /\ journal[K(c)] # None => journal[K(c)].op = OpOf[c]
          /\ journal'[K(c)] # None => journal'[K(c)].op = OpOf[c]
       \/ journal'[K(c)] = None /\ stolen' # {}
    /\ pc[c] \in Active \/ UNCHANGED <<journal, receipts, effects>>
    /\ c \in effects /\ c \in needs' => c \in needs

(* Within its footprint a call disturbs nothing another call relies on.    *)
LEMMA OthersKeep ==
    ASSUME Inv, NEW c \in Call, Footprint(c), NEW d \in Call \ {c}
    PROVE  /\ AtAdmission(d)' /\ AtExecution(d)' /\ AtIntent(d)' /\ AtEvidence(d)'
           /\ AtSettle(d)'
           /\ reply'[d] # None /\ reply'[d].sure => Sure(d, reply[d].rcpt)'
<1>0. AtAdmission(d) /\ AtExecution(d) /\ AtIntent(d) /\ AtEvidence(d) /\ AtSettle(d)
  BY DEF Inv, Stages
<1>1. /\ pc'[d] = pc[d] /\ plan'[d] = plan[d] /\ reply'[d] = reply[d]
      /\ d \in effects' <=> d \in effects
      /\ receipts \subseteq receipts' /\ audited \subseteq audited'
      /\ K(c) \in Key /\ K(d) \in Key
  BY Shapes DEF Footprint
<1>s. stolen \subseteq stolen'
  BY DEF Footprint
<1>2. pc[d] \in Active =>
        /\ Unreceipted(d) => Unreceipted(d)'
        /\ Only(d, plan[d]) => Only(d, plan[d])'
        /\ Unrecorded(d) => Unrecorded(d)'
        /\ Recorded(d) => journal'[K(d)] = journal[K(d)] \/ Gone(d)'
  <2> SUFFICES ASSUME pc[d] \in Active
               PROVE  /\ Unreceipted(d) => Unreceipted(d)'
                      /\ Only(d, plan[d]) => Only(d, plan[d])'
                      /\ Unrecorded(d) => Unrecorded(d)'
                      /\ Recorded(d) => journal'[K(d)] = journal[K(d)] \/ Gone(d)'
    OBVIOUS
  <2>1. CASE UNCHANGED <<journal, receipts>>
    BY <1>1, <2>1 DEF Unreceipted, Only, Unrecorded, Recorded, K
  <2>2. CASE pc[c] \in Active
    <3>1. OpOf[c] # OpOf[d]
      BY <2>2, OneActs DEF Inv
    <3>2. /\ Unreceipted(d) => Unreceipted(d)'
          /\ Only(d, plan[d]) => Only(d, plan[d])'
      BY <1>1, <3>1 DEF Footprint, Unreceipted, Only
    <3>3. CASE K(d) # K(c)
      BY <3>2, <3>3, <1>1 DEF Footprint, Unrecorded, Recorded, K
    <3>4. CASE K(d) = K(c)
      BY <3>1, <3>2, <3>4, <1>1 DEF Footprint, Unrecorded, Recorded, Gone, K
    <3> QED BY <3>3, <3>4
  <2> QED BY <2>1, <2>2 DEF Footprint
<1>g. pc[d] \in Active /\ Gone(d) => Gone(d)'
  BY <1>2, <1>s DEF Gone
<1>3. AtAdmission(d)'
  BY <1>0, <1>1, <1>2 DEF AtAdmission, Active
<1>4. AtExecution(d)'
  <2> SUFFICES ASSUME pc[d] \in {"created", "prepare", "execute", "discard"}
               PROVE  \/ Gone(d)' \/ journal'[K(d)] = Marker(d)
                      \/ pc[d] = "discard" /\ Unrecorded(d)'
    BY <1>1 DEF AtExecution, Marker, K, Gone
  <2>0. pc[d] \in Active
    BY DEF Active
  <2>1. CASE journal[K(d)] = Marker(d)
    <3>1. Recorded(d)
      BY <2>1, Shapes, NoneAssumption DEF Recorded, Marker
    <3> QED BY <1>2, <2>0, <2>1, <3>1
  <2> QED BY <1>0, <1>2, <1>g, <2>0, <2>1 DEF AtExecution
<1>5. AtIntent(d)'
  <2> SUFFICES ASSUME pc[d] = "intent" PROVE AtIntent(d)'
    BY <1>1 DEF AtIntent
  <2>0. pc[d] \in Active
    BY DEF Active
  <2>1. CASE Gone(d)'
    BY <1>0, <1>1, <2>1 DEF AtIntent
  <2>2. CASE Recorded(d) /\ journal'[K(d)] = journal[K(d)] /\ ~Gone(d)
    BY <1>0, <1>1, <2>2 DEF AtIntent, Recorded, K
  <2> QED BY <1>0, <1>2, <1>g, <2>0, <2>1, <2>2 DEF AtIntent
<1>6. AtEvidence(d)'
  <2> SUFFICES ASSUME pc[d] \in {"receipt", "audit", "mark"} PROVE AtEvidence(d)'
    BY <1>1 DEF AtEvidence
  <2>0. pc[d] \in Active /\ (Executing(d)' <=> Executing(d))
    BY <1>1 DEF Active, Executing
  <2>1. CASE plan[d].status = "denied"
    BY <1>0, <1>1, <1>2, <2>0, <2>1 DEF AtEvidence
  <2>2. CASE plan[d].status # "denied" /\ Gone(d)'
    BY <1>0, <1>1, <1>2, <2>0, <2>2 DEF AtEvidence
  <2>3. CASE plan[d].status # "denied" /\ Recorded(d) /\ journal'[K(d)] = journal[K(d)] /\ ~Gone(d)
    BY <1>0, <1>1, <1>2, <2>0, <2>3 DEF AtEvidence, Recorded, K
  <2> QED BY <1>0, <1>2, <1>g, <2>0, <2>1, <2>2, <2>3 DEF AtEvidence
<1>7. AtSettle(d)'
  BY <1>0, <1>1 DEF AtSettle, Executing
<1>8. ASSUME reply'[d] # None, reply'[d].sure PROVE Sure(d, reply[d].rcpt)'
  <2>1. Sure(d, reply[d].rcpt)
    BY <1>1, <1>8 DEF Inv, Replies
  <2> QED BY <2>1, <1>1 DEF Sure
<1> QED BY <1>3, <1>4, <1>5, <1>6, <1>7, <1>8

(* What a step of c has to establish itself: its own place, the record of  *)
(* its key where it changed, its receipt, its answer and its approval.     *)
OwnPlace(c) ==
    /\ pc'[c] \in Active => flight'[F(c)] = c
    /\ pc'[c] = "wait" => lead'[c] \in Call /\ OpOf[lead'[c]] = OpOf[c]
    /\ AtAdmission(c)' /\ AtExecution(c)' /\ AtIntent(c)' /\ AtEvidence(c)' /\ AtSettle(c)'
    /\ reply'[c] # None /\ reply'[c].sure => Sure(c, reply[c].rcpt)'
OwnRecord(c) ==
    /\ journal'[K(c)] = journal[K(c)] \/ journal'[K(c)] = None
       \/ /\ RecordOK(K(c))'
          /\ journal'[K(c)].state = "finalized" => journal'[K(c)].rcpt \in receipts' \cap audited'
          /\ \A r \in receipts' : Agrees(r, K(c))'
    /\ \A d \in effects' : K(d) = K(c) => EffectOK(d)'
    /\ \A r, t \in receipts' : r \notin receipts /\ r.op = t.op => r = t
    /\ \A r \in receipts' \ receipts : Agrees(r, K(c))'
OwnApproval(c) ==
    /\ pc'[c] \in {"reserve", "create", "created", "prepare", "execute"} /\ c \in needs'
       /\ c \notin ended => auth[c] = "valid"
    /\ pc'[c] = "execute" /\ c \in needs' /\ c \notin ended => OpOf[c] \in consumed'
    /\ Spender(c)' /\ c \in needs' /\ auth[c] = "valid" => Alone(c)'
    /\ c \in effects' /\ c \in needs' => auth[c] = "valid" /\ OpOf[c] \in consumed'
    /\ \A o \in consumed : o \in consumed' \/
          /\ pc[c] \in Active /\ o = OpOf[c]
          /\ \A d \in effects : d \in needs => OpOf[d] # o

(* Those are enough: the invariant follows.                                *)
LEMMA Assemble ==
    ASSUME Inv, NEW c \in Call, Footprint(c), TypeOK', OwnPlace(c), OwnRecord(c),
           OwnApproval(c)
    PROVE  Inv'
<1>0. /\ K(c) \in Key /\ OpOf[c] \in Op /\ F(c) \in Flight
      /\ \A d \in Call : K(d) \in Key
      /\ effects \subseteq Call /\ effects' \subseteq Call
      /\ pc \in [Call -> Active \cup {"idle", "wait", "done", "lost"}]
  BY Shapes DEF Inv, TypeOK, Active
<1>1. Leading'
  <2>1. ASSUME NEW d \in Call, pc'[d] \in Active PROVE boot' = "up" /\ flight'[F(d)] = d
    BY <2>1 DEF Inv, Leading, Footprint, OwnPlace
  <2>2. ASSUME NEW d \in Call, pc'[d] = "wait"
        PROVE  lead'[d] \in Call /\ OpOf[lead'[d]] = OpOf[d]
    BY <2>2 DEF Inv, Leading, Footprint, OwnPlace
  <2> QED BY <2>1, <2>2 DEF Leading, F
<1>2. Records'
  <2> SUFFICES ASSUME NEW k \in Key PROVE RecordOK(k)'
    BY DEF Records
  <2>1. CASE journal'[k] = journal[k]
    <3> SUFFICES ASSUME journal[k] # None PROVE RecordOK(k)'
      BY <2>1 DEF RecordOK
    <3>1. journal[k].by \in Call
      BY Shapes DEF Inv, TypeOK
    <3>2. pc[journal[k].by] \notin Early
      BY DEF Inv, Records, RecordOK
    <3>3. pc'[journal[k].by] \notin Early /\ effects \subseteq effects'
      BY <3>1, <3>2 DEF Footprint
    <3> QED BY <2>1, <3>3 DEF Inv, Records, RecordOK
  <2>2. CASE k = K(c) /\ journal'[k] # journal[k]
    BY <2>2 DEF OwnRecord, RecordOK
  <2> QED BY <2>1, <2>2 DEF Footprint
<1>3. Effects'
  <2> SUFFICES ASSUME NEW d \in effects' PROVE EffectOK(d)'
    BY DEF Effects
  <2>1. CASE K(d) = K(c)
    BY <2>1 DEF OwnRecord
  <2>2. CASE K(d) # K(c)
    <3>1. d # c /\ d \in Call /\ d \in effects /\ EffectOK(d)
      BY <2>2, <1>0 DEF Footprint, Inv, Effects
    <3>2. journal'[K(d)] = journal[K(d)] /\ pc'[d] = pc[d] /\ (stolen' = {} => stolen = {})
      BY <2>2, <3>1, <1>0 DEF Footprint
    <3> QED BY <3>1, <3>2 DEF EffectOK, Kept, K
  <2> QED BY <2>1, <2>2
<1>4. Stages'
  BY OthersKeep DEF OwnPlace, Stages
<1>5. Receipted'
  <2>1. ASSUME NEW r \in receipts', NEW t \in receipts', r.op = t.op PROVE r = t
    <3>1. CASE r \in receipts /\ t \in receipts
      BY <2>1, <3>1 DEF Inv, Receipted
    <3> QED BY <2>1, <3>1 DEF OwnRecord
  <2>2. ASSUME NEW r \in receipts', NEW k \in Key PROVE Agrees(r, k)'
    <3>1. CASE journal'[k] = journal[k] /\ r \in receipts
      BY <3>1 DEF Inv, Receipted, Agrees
    <3>2. CASE r \notin receipts
      <4>1. r.op = OpOf[c] /\ Agrees(r, K(c))'
        BY <3>2 DEF Footprint, OwnRecord
      <4>2. CASE k = K(c)
        BY <4>1, <4>2 DEF Agrees, K
      <4>3. CASE k # K(c)
        <5>1. journal'[k] # None => KeyOf[journal'[k].op] = k
          BY <1>2 DEF Records, RecordOK
        <5> QED BY <5>1, <4>1, <4>3 DEF K, Agrees
      <4> QED BY <4>2, <4>3
    <3>3. CASE journal'[k] # journal[k]
      <4>1. k = K(c)
        BY <3>3 DEF Footprint
      <4>2. journal'[K(c)] = None \/ Agrees(r, K(c))'
        BY <4>1, <3>3 DEF OwnRecord
      <4> QED BY <4>1, <4>2 DEF Agrees, K
    <3> QED BY <3>1, <3>2, <3>3
  <2> QED BY <2>1, <2>2 DEF Receipted
<1>6. Replies'
  <2> SUFFICES ASSUME NEW d \in Call, reply'[d] # None, reply'[d].sure
               PROVE  Sure(d, reply[d].rcpt)'
    BY DEF Replies
  <2>1. CASE d = c
    BY <2>1 DEF OwnPlace
  <2>2. CASE d # c
    BY <2>2, OthersKeep
  <2> QED BY <2>1, <2>2
<1>7. Approvals'
  <2> SUFFICES ASSUME NEW d \in Call
               PROVE /\ pc'[d] \in {"reserve", "create", "created", "prepare", "execute"}
                        /\ d \in needs' /\ d \notin ended' => auth'[d] = "valid"
                     /\ pc'[d] = "execute" /\ d \in needs' /\ d \notin ended'
                        => OpOf[d] \in consumed'
                     /\ Spender(d)' /\ d \in needs' /\ auth'[d] = "valid" => Alone(d)'
    BY DEF Approvals
  <2>1. CASE d = c
    BY <2>1 DEF OwnApproval, Footprint
  <2>2. CASE d # c
    <3>1. /\ pc'[d] = pc[d] /\ (d \in needs' <=> d \in needs) /\ ended' = ended
          /\ auth' = auth /\ plan'[d] = plan[d]
      BY <2>2 DEF Footprint
    <3>2. pc[d] \in Active /\ pc[c] \in Active => OpOf[c] # OpOf[d]
      BY <2>2, OneActs DEF Inv
    <3>3. (Spender(d)' <=> Spender(d)) /\ (Spender(d) => pc[d] \in Active)
      BY <3>1 DEF Spender, Executing, Active
    <3>4. ASSUME Spender(d), Alone(d) PROVE Alone(d)'
      <4> SUFFICES ASSUME NEW e \in effects', e \in needs', OpOf[e] = OpOf[d] PROVE e = d
        BY DEF Alone
      <4>1. CASE e # c
        BY <3>4, <4>1, <1>0 DEF Alone, Footprint
      <4>2. CASE e = c
        <5>1. CASE e \in effects
          BY <3>4, <4>2, <5>1 DEF Alone, Footprint
        <5>2. CASE e \notin effects
          <6>1. pc[c] \in Active
            BY <4>2, <5>2 DEF Footprint
          <6> QED BY <3>2, <3>3, <3>4, <4>2, <6>1
        <5> QED BY <5>1, <5>2
      <4> QED BY <4>1, <4>2
    <3>5. /\ pc[d] \in {"reserve", "create", "created", "prepare", "execute"} /\ d \in needs
             /\ d \notin ended => auth[d] = "valid"
          /\ pc[d] = "execute" /\ d \in needs /\ d \notin ended => OpOf[d] \in consumed
          /\ Spender(d) /\ d \in needs /\ auth[d] = "valid" => Alone(d)
      BY DEF Inv, Approvals
    <3>6. pc[d] = "execute" /\ OpOf[d] \in consumed => OpOf[d] \in consumed'
      BY <3>2 DEF OwnApproval, Active
    <3> QED BY <3>1, <3>3, <3>4, <3>5, <3>6
  <2> QED BY <2>1, <2>2
<1>8. EffectSpendsApproval'
  <2> SUFFICES ASSUME NEW d \in effects', d \in needs'
               PROVE  auth'[d] = "valid" /\ OpOf[d] \in consumed'
    BY DEF EffectSpendsApproval
  <2>1. CASE d = c
    BY <2>1 DEF OwnApproval, Footprint
  <2>2. CASE d # c
    <3>1. d \in effects /\ d \in needs /\ auth' = auth
      BY <2>2, <1>0 DEF Footprint
    <3> QED BY <3>1 DEF Inv, EffectSpendsApproval, OwnApproval
  <2> QED BY <2>1, <2>2
<1>9. Reconciled'
  BY DEF Footprint, Reconciled
<1>10. FinalizedHasEvidence'
  <2> SUFFICES ASSUME NEW k \in Key, journal'[k] # None, journal'[k].state = "finalized"
               PROVE  journal'[k].rcpt \in receipts' \cap audited'
    BY DEF FinalizedHasEvidence
  <2>1. CASE journal'[k] = journal[k]
    BY <2>1 DEF Footprint, Inv, FinalizedHasEvidence
  <2>2. CASE k = K(c) /\ journal'[k] # journal[k]
    BY <2>2 DEF OwnRecord
  <2> QED BY <2>1, <2>2 DEF Footprint
<1> QED BY <1>1, <1>2, <1>3, <1>4, <1>5, <1>6, <1>7, <1>8, <1>9, <1>10 DEF Inv

-----------------------------------------------------------------------------
(* A sure answer stays what the journal or the receipts say.               *)
LEMMA SureStays ==
    ASSUME NEW c \in Call, Footprint(c), NEW d \in Call, NEW p, Sure(d, p)
    PROVE  Sure(d, p)'
BY DEF Footprint, Sure

Points == Active \cup {"idle", "wait", "done", "lost"}

(* The call c moves to l with the answer a, and keeps its flight if it     *)
(* goes on acting.                                                         *)
Moved(c, l, a) ==
    /\ pc' = [pc EXCEPT ![c] = l] /\ reply' = [reply EXCEPT ![c] = a]
    /\ lease' \in [Machine -> Call \cup {None}] /\ flight' \in [Flight -> Call \cup {None}]
    /\ \A d \in Call \ {c} : flight[F(d)] = d => flight'[F(d)] = d
    /\ l \in Active => flight'[F(c)] = c

(* Goto is such a move.                                                    *)
LEMMA GotoMoves ==
    ASSUME Inv, NEW c \in Call, pc[c] \in Active, NEW l, Goto(c, l)
    PROVE  Moved(c, l, reply[c])
BY DEF Inv, TypeOK, Goto, Leading, Moved

(* Leave ends a call, and is a move too.                                   *)
LEMMA LeaveMoves ==
    ASSUME Inv, NEW c \in Call, NEW a, Leave(c, a)
    PROVE  Moved(c, "done", a)
<1>1. lease \in [Machine -> Call \cup {None}] /\ flight \in [Flight -> Call \cup {None}]
  BY DEF Inv, TypeOK
<1>2. \A d \in Call : F(d) \in Flight
  BY Shapes
<1> QED BY <1>1, <1>2, SessionMutationAssumption DEF Leave, Moved, Active

(* What a move alone does to the types.                                    *)
LEMMA MovedTypes ==
    ASSUME Inv, NEW c \in Call, NEW l \in Points, NEW a \in Reply \cup {None},
           Moved(c, l, a)
    PROVE  /\ pc' \in [Call -> Points] /\ reply' \in [Call -> Reply \cup {None}]
           /\ pc'[c] = l /\ reply'[c] = a
           /\ \A d \in Call \ {c} : pc'[d] = pc[d] /\ reply'[d] = reply[d]
<1>1. pc \in [Call -> Points] /\ reply \in [Call -> Reply \cup {None}]
  BY DEF Inv, TypeOK, Points, Active
<1> QED BY <1>1 DEF Moved

(* A step that writes nothing durable and has no effect: it has to         *)
(* establish only what its new place asks for.                             *)
LEMMA QuietStep ==
    ASSUME Inv, NEW c \in Call, boot = "up", pc[c] \in Early \cup {"load"},
           NEW l \in Points, NEW a \in Reply \cup {None}, Moved(c, l, a),
           l \in Early \cup {"intent", "receipt", "audit", "load", "done"},
           pc[c] = "load" => l = "done",
           UNCHANGED <<durable, effects, ended, auth, stolen, boot, todo, crashes>>,
           faults' \in 0 .. MaxFaults,
           plan' \in [Call -> Receipt \cup {None}],
           \A d \in Call \ {c} : plan'[d] = plan[d],
           lead' \in [Call -> Call \cup {None}],
           \A d \in Call \ {c} : lead'[d] = lead[d],
           l = "wait" => lead'[c] \in Call /\ OpOf[lead'[c]] = OpOf[c],
           needs' \subseteq Call, \A d \in Call \ {c} : d \in needs' <=> d \in needs,
           pc[c] = "load" => needs' = needs,
           l \in {"reserve", "create"} /\ c \in needs' /\ c \notin ended => auth[c] = "valid",
           l \in {"intent", "receipt", "audit"} => ~Executing(c)',
           AtAdmission(c)', AtIntent(c)', AtEvidence(c)',
           a # None /\ a.sure => Sure(c, a.rcpt)
    PROVE  Inv'
<1>0. /\ journal' = journal /\ receipts' = receipts /\ audited' = audited
      /\ consumed' = consumed /\ effects' = effects
  BY DEF durable
<1>1. /\ pc' \in [Call -> Points] /\ reply' \in [Call -> Reply \cup {None}]
      /\ pc'[c] = l /\ reply'[c] = a
      /\ \A d \in Call \ {c} : pc'[d] = pc[d] /\ reply'[d] = reply[d]
  BY MovedTypes
<1>2. TypeOK'
  BY <1>0, <1>1 DEF Inv, TypeOK, Moved, Points, Active
<1>5. c \in effects => pc[c] = "load"
  BY DEF Inv, Effects, EffectOK, Unexecuted
<1>3. Footprint(c)
  <2>1. pc[c] \notin Early => pc'[c] \notin Early
    BY <1>1 DEF Early
  <2>2. /\ pc[c] \in Active \/ UNCHANGED <<journal, receipts, effects>>
        /\ c \in effects /\ c \in needs' => c \in needs
    BY <1>0, <1>5
  <2>3. \A d \in Call \ {c} : flight[F(d)] = d => flight'[F(d)] = d
    BY DEF Moved
  <2> QED BY <1>0, <1>1, <2>1, <2>2, <2>3 DEF Footprint
<1>4. OwnPlace(c)
  <2>1. AtExecution(c)' /\ AtSettle(c)'
    BY <1>1 DEF AtExecution, AtSettle, Early
  <2>2. reply'[c] # None /\ reply'[c].sure => Sure(c, reply[c].rcpt)'
    <3>1. a # None /\ a.sure => Sure(c, a.rcpt)'
      BY <1>3, SureStays
    <3> QED BY <3>1, <1>1 DEF Sure
  <2>3. pc'[c] \in Active => flight'[F(c)] = c
    BY <1>1 DEF Moved
  <2> QED BY <1>1, <2>1, <2>2, <2>3 DEF OwnPlace
<1>6. OwnRecord(c)
  <2>1. ASSUME NEW d \in effects', K(d) = K(c) PROVE EffectOK(d)'
    <3>1. EffectOK(d) /\ d \in Call
      BY <1>0, <2>1 DEF Inv, Effects, TypeOK
    <3>2. pc'[d] \notin Unexecuted
      BY <1>1, <1>5, <1>0, <3>1 DEF EffectOK, Early, Unexecuted
    <3> QED BY <3>1, <3>2, <1>0 DEF EffectOK, Kept, K
  <2>2. \A r \in receipts' : r \in receipts
    BY <1>0
  <2>3. journal'[K(c)] = journal[K(c)]
    BY <1>0
  <2>4. \A d \in effects' : K(d) = K(c) => EffectOK(d)'
    BY <2>1
  <2> QED BY <2>2, <2>3, <2>4 DEF OwnRecord
<1>7. OwnApproval(c)
  <2>1. ~Spender(c)'
    BY <1>1 DEF Spender, Early
  <2>2. pc'[c] \notin {"created", "prepare", "execute"}
    BY <1>1 DEF Early
  <2> QED BY <1>0, <1>1, <1>5, <2>1, <2>2 DEF OwnApproval, Inv, EffectSpendsApproval
<1> QED BY <1>2, <1>3, <1>4, <1>6, <1>7, Assemble

(* A failing write counts; the others do not.                              *)
LEMMA FaultTypes == ASSUME Inv, Fault \/ NoFault PROVE faults' \in 0 .. MaxFaults
BY SessionMutationAssumption DEF Inv, TypeOK, Fault, NoFault

(* An error is no sure answer.                                             *)
LEMMA FailedShape == Failed \in Reply /\ ~Failed.sure
BY DEF Failed, Reply

(* Giving up is quiet, wherever it is done without a durable write.        *)
LEMMA QuietGiveUp ==
    ASSUME Inv, NEW c \in Call, boot = "up", pc[c] \in Early \cup {"load"}, GiveUp(c),
           UNCHANGED <<durable, effects, ended, auth, stolen, boot, todo, crashes, plan, lead>>,
           faults' \in 0 .. MaxFaults, pc[c] = "load" => needs' = needs,
           needs' \subseteq Call, \A d \in Call \ {c} : d \in needs' <=> d \in needs
    PROVE  Inv'
<1>1. Moved(c, "done", Failed)
  BY LeaveMoves DEF GiveUp
<1>2. pc'[c] = "done"
  BY <1>1 DEF Moved, Inv, TypeOK
<1>3. AtAdmission(c)' /\ AtIntent(c)' /\ AtEvidence(c)'
  BY <1>2 DEF AtAdmission, AtIntent, AtEvidence
<1>4. plan' \in [Call -> Receipt \cup {None}] /\ lead' \in [Call -> Call \cup {None}]
  BY DEF Inv, TypeOK
<1> QED BY <1>1, <1>3, <1>4, FailedShape, QuietStep DEF Points

(* acquireFlight preserves the invariant: the call leads, waits or fails.  *)
LEMMA ArriveInv == ASSUME Inv, NEW c \in Call, Arrive(c) PROVE Inv'
<1>0. /\ flight \in [Flight -> Call \cup {None}] /\ F(c) \in Flight /\ boot = "up"
      /\ pc[c] = "idle" /\ UNCHANGED <<durable, lease, ended, auth, needs, plan, effects,
                                       stolen, boot, todo, crashes>>
      /\ faults' \in 0 .. MaxFaults
      /\ lease \in [Machine -> Call \cup {None}] /\ needs \subseteq Call
      /\ plan \in [Call -> Receipt \cup {None}] /\ lead \in [Call -> Call \cup {None}]
      /\ reply \in [Call -> Reply \cup {None}] /\ pc \in [Call -> Points]
      /\ \A d \in Call : F(d) \in Flight
  BY Shapes DEF Inv, TypeOK, Arrive, At, Points, Active
<1>1. CASE /\ flight[F(c)] = None /\ flight' = [flight EXCEPT ![F(c)] = c]
           /\ pc' = [pc EXCEPT ![c] = "lookup"] /\ UNCHANGED <<lead, reply>>
  <2>1. Moved(c, "lookup", reply[c])
    <3>1. \A d \in Call \ {c} : flight[F(d)] = d => flight'[F(d)] = d
      BY <1>0, <1>1, SessionMutationAssumption
    <3> QED BY <1>0, <1>1, <3>1 DEF Moved
  <2>2. pc'[c] = "lookup"
    BY <1>0, <1>1
  <2>3. AtAdmission(c)' /\ AtIntent(c)' /\ AtEvidence(c)'
    BY <2>2 DEF AtAdmission, AtIntent, AtEvidence
  <2>4. reply[c] # None /\ reply[c].sure => Sure(c, reply[c].rcpt)
    BY DEF Inv, Replies
  <2>5. "lookup" \in Points /\ {"idle", "lookup"} \subseteq Early
    BY DEF Points, Active, Early
  <2> QED BY <1>0, <1>1, <2>1, <2>3, <2>4, <2>5, QuietStep
<1>2. CASE /\ pc' = [pc EXCEPT ![c] = "done"] /\ reply' = [reply EXCEPT ![c] = Failed]
           /\ UNCHANGED <<flight, lead>>
  <2>1. Moved(c, "done", Failed)
    BY <1>0, <1>2 DEF Moved, Active
  <2>2. pc'[c] = "done"
    BY <1>0, <1>2
  <2>3. AtAdmission(c)' /\ AtIntent(c)' /\ AtEvidence(c)'
    BY <2>2 DEF AtAdmission, AtIntent, AtEvidence
  <2>5. "done" \in Points /\ "idle" \in Early
    BY DEF Points, Early
  <2> QED BY <1>0, <1>2, <2>1, <2>3, <2>5, FailedShape, QuietStep
<1>3. CASE /\ flight[F(c)] # None /\ OpOf[flight[F(c)]] = OpOf[c]
           /\ pc' = [pc EXCEPT ![c] = "wait"] /\ lead' = [lead EXCEPT ![c] = flight[F(c)]]
           /\ UNCHANGED <<flight, reply>>
  <2>1. Moved(c, "wait", reply[c])
    BY <1>0, <1>3 DEF Moved, Active
  <2>2. pc'[c] = "wait"
    BY <1>0, <1>3
  <2>3. AtAdmission(c)' /\ AtIntent(c)' /\ AtEvidence(c)'
    BY <2>2 DEF AtAdmission, AtIntent, AtEvidence
  <2>4. reply[c] # None /\ reply[c].sure => Sure(c, reply[c].rcpt)
    BY DEF Inv, Replies
  <2>5. "wait" \in Points /\ {"idle", "wait"} \subseteq Early
    BY DEF Points, Early
  <2>6. lead' \in [Call -> Call \cup {None}] /\ (\A d \in Call \ {c} : lead'[d] = lead[d])
        /\ lead'[c] \in Call /\ OpOf[lead'[c]] = OpOf[c]
    BY <1>0, <1>3
  <2> QED BY <1>0, <1>3, <2>1, <2>3, <2>4, <2>5, <2>6, QuietStep
<1> QED BY <1>1, <1>2, <1>3 DEF Arrive

(* waitForInFlight preserves it: the leader's answer is one for its equal. *)
LEMMA WaitInv == ASSUME Inv, NEW c \in Call, Wait(c) PROVE Inv'
<1>0. /\ boot = "up" /\ pc[c] = "wait" /\ "wait" \in Early /\ "done" \in Points
      /\ faults' \in 0 .. MaxFaults
      /\ UNCHANGED <<durable, effects, ended, auth, stolen, boot, todo, crashes, plan, lead,
                     needs>>
      /\ plan \in [Call -> Receipt \cup {None}] /\ lead \in [Call -> Call \cup {None}]
      /\ reply \in [Call -> Reply \cup {None}] /\ needs \subseteq Call
      /\ lead[c] \in Call /\ OpOf[lead[c]] = OpOf[c]
  BY DEF Inv, TypeOK, Leading, Wait, At, rest, Early, Points
<1>1. CASE GiveUp(c)
  BY <1>0, <1>1, QuietGiveUp
<1>2. CASE Leave(c, reply[lead[c]])
  <2>1. Moved(c, "done", reply[lead[c]])
    BY <1>2, LeaveMoves
  <2>2. pc'[c] = "done"
    BY <2>1 DEF Moved, Inv, TypeOK
  <2>3. AtAdmission(c)' /\ AtIntent(c)' /\ AtEvidence(c)'
    BY <2>2 DEF AtAdmission, AtIntent, AtEvidence
  <2>4. reply[lead[c]] # None /\ reply[lead[c]].sure => Sure(c, reply[lead[c]].rcpt)
    BY <1>0 DEF Inv, Replies, Sure
  <2> QED BY <1>0, <2>1, <2>3, <2>4, QuietStep
<1> QED BY <1>1, <1>2 DEF Wait

(* A quiet step that goes on acting.                                       *)
LEMMA QuietGoto ==
    ASSUME Inv, NEW c \in Call, boot = "up", pc[c] \in Early, pc[c] \in Active,
           NEW l \in Active, Goto(c, l),
           l \in Early \cup {"intent", "receipt", "audit", "load"},
           UNCHANGED <<durable, effects, ended, auth, stolen, boot, todo, crashes, lead>>,
           faults' \in 0 .. MaxFaults,
           plan' \in [Call -> Receipt \cup {None}],
           \A d \in Call \ {c} : plan'[d] = plan[d],
           needs' \subseteq Call, \A d \in Call \ {c} : d \in needs' <=> d \in needs,
           l \in {"reserve", "create"} /\ c \in needs' /\ c \notin ended => auth[c] = "valid",
           l \in {"intent", "receipt", "audit"} => ~Executing(c)',
           pc'[c] = l => AtAdmission(c)' /\ AtIntent(c)' /\ AtEvidence(c)'
    PROVE  Inv'
<1>1. Moved(c, l, reply[c])
  BY GotoMoves
<1>2. pc'[c] = l /\ reply[c] \in Reply \cup {None} /\ lead' \in [Call -> Call \cup {None}]
  BY <1>1 DEF Moved, Inv, TypeOK
<1>3. reply[c] # None /\ reply[c].sure => Sure(c, reply[c].rcpt)
  BY DEF Inv, Replies
<1>4. l \in Points /\ l # "wait" /\ pc[c] # "load"
  BY DEF Points, Active, Early
<1> QED BY <1>1, <1>2, <1>3, <1>4, QuietStep

(* lookupSessionRetry preserves it: no record, or one to be finished or    *)
(* replayed, whose receipt the call then carries.                          *)
LEMMA LookupInv == ASSUME Inv, NEW c \in Call, Lookup(c) PROVE Inv'
<1> DEFINE r == journal[K(c)]
<1>0. /\ boot = "up" /\ pc[c] = "lookup" /\ pc[c] \in Early /\ pc[c] \in Active
      /\ faults' \in 0 .. MaxFaults
      /\ UNCHANGED <<durable, effects, ended, auth, stolen, boot, todo, crashes, lead, needs>>
      /\ UNCHANGED <<journal, receipts>>
      /\ plan \in [Call -> Receipt \cup {None}] /\ needs \subseteq Call
      /\ r \in Reservation \cup {None} /\ K(c) \in Key
  BY Shapes DEF Inv, TypeOK, Lookup, At, rest, Early, Active, durable
<1>1. CASE GiveUp(c) /\ UNCHANGED plan
  BY <1>0, <1>1, QuietGiveUp
<1>2. CASE r = None /\ Goto(c, "cached") /\ UNCHANGED plan
  <2>1. pc'[c] = "cached" => AtAdmission(c)' /\ AtIntent(c)' /\ AtEvidence(c)'
    BY <1>0, <1>2 DEF AtAdmission, AtIntent, AtEvidence, Unrecorded, K
  <2>2. "cached" \in Active /\ "cached" \in Early
    BY DEF Active, Early
  <2> QED BY <1>0, <1>2, <2>1, <2>2, QuietGoto
<1>3. ASSUME r # None, ~Collides(c),
             Goto(c, CASE r.state = "pending"    -> "intent"
                       [] r.state = "finalizing" -> "receipt"
                       [] r.state = "finalized"  -> "load"),
             plan' = [plan EXCEPT ![c] = IF r.state = "pending" THEN Interrupted(c, r.op)
                                         ELSE r.rcpt]
      PROVE  Inv'
  <2>0. /\ r \in Reservation /\ r.op = OpOf[c] /\ Recorded(c) /\ Recorded(c)' /\ r.op \in Op
        /\ r.state \in {"pending", "finalizing", "finalized"}
        /\ r.state # "pending" => r.rcpt \in Receipt /\ r.rcpt.op = r.op
        /\ r.state # "pending" => r.rcpt.status # "denied"
        /\ r.state # "pending" /\ r.rcpt.effect # "unknown" => r.rcpt.by # c
        /\ journal'[K(c)] = r
    BY <1>0, <1>3, Shapes DEF Collides, Recorded, Inv, Records, RecordOK, K
  <2>r. /\ r.state = "pending" => Unreceipted(c)'
        /\ r.state # "pending" => \A t \in receipts' : t.op = OpOf[c] => t = r.rcpt
    <3>1. \A t \in receipts : Agrees(t, K(c))
      BY <1>0 DEF Inv, Receipted
    <3> QED BY <1>0, <1>3, <2>0, <3>1 DEF Agrees, Unreceipted, Only
  <2>1. CASE r.state = "pending"
    <3>1. Goto(c, "intent") /\ plan' = [plan EXCEPT ![c] = Interrupted(c, r.op)]
      BY <1>3, <2>1
    <3>2. /\ Interrupted(c, r.op) \in Receipt /\ Interrupted(c, r.op).op = OpOf[c]
          /\ Interrupted(c, r.op).status # "denied" /\ Interrupted(c, r.op).effect = "unknown"
      BY <2>0, Shapes DEF Interrupted
    <3>3. /\ plan' \in [Call -> Receipt \cup {None}] /\ plan'[c] = Interrupted(c, r.op)
          /\ \A d \in Call \ {c} : plan'[d] = plan[d]
      BY <1>0, <3>1, <3>2
    <3>4. pc'[c] = "intent" => AtAdmission(c)' /\ AtIntent(c)' /\ AtEvidence(c)'
      BY <2>0, <2>1, <2>r, <3>2, <3>3 DEF AtAdmission, AtIntent, AtEvidence, K
    <3>5. "intent" \in Active /\ ~Executing(c)'
      BY <3>2, <3>3 DEF Active, Executing
    <3> QED BY <1>0, <3>1, <3>3, <3>4, <3>5, QuietGoto
  <2>2. CASE r.state # "pending"
    <3>1. /\ plan' \in [Call -> Receipt \cup {None}] /\ plan'[c] = r.rcpt
          /\ \A d \in Call \ {c} : plan'[d] = plan[d]
      BY <1>0, <1>3, <2>0, <2>2
    <3>0. ~Executing(c)'
      BY <2>0, <2>2, <3>1 DEF Executing
    <3>2. \A l \in {"receipt", "load"} :
             pc'[c] = l => AtAdmission(c)' /\ AtIntent(c)' /\ AtEvidence(c)'
      <4>1. Only(c, plan[c])'
        BY <2>r, <2>2, <3>1 DEF Only
      <4> QED BY <2>0, <2>2, <3>0, <3>1, <4>1 DEF AtAdmission, AtIntent, AtEvidence, K
    <3>3. Goto(c, "receipt") \/ Goto(c, "load")
      BY <1>3, <2>0, <2>2
    <3>4. "receipt" \in Active /\ "load" \in Active
      BY DEF Active
    <3>5. CASE Goto(c, "receipt")
      BY <1>0, <3>0, <3>1, <3>2, <3>4, <3>5, QuietGoto
    <3>6. CASE Goto(c, "load")
      BY <1>0, <3>1, <3>2, <3>4, <3>6, QuietGoto
    <3> QED BY <3>3, <3>5, <3>6
  <2> QED BY <2>1, <2>2
<1> QED BY <1>1, <1>2, <1>3 DEF Lookup

(* checkCachedReceipt preserves it: no receipt of the key, or the denial.  *)
LEMMA CachedReceiptInv == ASSUME Inv, NEW c \in Call, CachedReceipt(c) PROVE Inv'
<1>0. /\ boot = "up" /\ pc[c] = "cached" /\ pc[c] \in Early /\ pc[c] \in Active
      /\ faults' \in 0 .. MaxFaults
      /\ UNCHANGED <<durable, effects, ended, auth, stolen, boot, todo, crashes, lead, needs>>
      /\ UNCHANGED <<journal, receipts>>
      /\ plan \in [Call -> Receipt \cup {None}] /\ needs \subseteq Call
      /\ receipts \subseteq Receipt
      /\ Unrecorded(c) /\ Unrecorded(c)'
  BY DEF Inv, TypeOK, CachedReceipt, At, rest, Early, Active, durable, Stages, AtAdmission,
         Unrecorded, K
<1>1. CASE GiveUp(c) /\ UNCHANGED plan
  BY <1>0, <1>1, QuietGiveUp
<1>2. CASE {t \in receipts : KeyOf[t.op] = K(c)} = {} /\ Goto(c, "approval") /\ UNCHANGED plan
  <2>0. \A t \in receipts : KeyOf[t.op] # K(c)
    BY <1>2
  <2>1. Unreceipted(c)'
    BY <2>0, <1>0 DEF Unreceipted, K
  <2>2. pc'[c] = "approval" => AtAdmission(c)' /\ AtIntent(c)' /\ AtEvidence(c)'
    BY <1>0, <2>1 DEF AtAdmission, AtIntent, AtEvidence
  <2>3. "approval" \in Active /\ "approval" \in Early
    BY DEF Active, Early
  <2> QED BY <1>0, <1>2, <2>2, <2>3, QuietGoto
<1>3. ASSUME NEW t \in receipts, t.op = OpOf[c], t.status = "denied", Goto(c, "audit"),
             plan' = [plan EXCEPT ![c] = t]
      PROVE  Inv'
  <2>1. /\ plan' \in [Call -> Receipt \cup {None}] /\ plan'[c] = t
        /\ \A d \in Call \ {c} : plan'[d] = plan[d]
    BY <1>0, <1>3
  <2>0. Only(c, plan[c])'
    BY <1>0, <1>3, <2>1 DEF Only, Inv, Receipted
  <2>3. "audit" \in Active /\ ~Executing(c)'
    BY <1>3, <2>1 DEF Active, Executing
  <2>2. pc'[c] = "audit" => AtAdmission(c)' /\ AtIntent(c)' /\ AtEvidence(c)'
    BY <1>0, <1>3, <2>0, <2>1, <2>3 DEF AtAdmission, AtIntent, AtEvidence
  <2> QED BY <1>0, <1>3, <2>1, <2>2, <2>3, QuietGoto
<1> QED BY <1>1, <1>2, <1>3 DEF CachedReceipt

(* The denial of c is one its place may persist.                           *)
LEMMA DenialPlace ==
    ASSUME Inv, NEW c \in Call, Unrecorded(c), Unreceipted(c), UNCHANGED <<journal, receipts>>,
           plan' = [plan EXCEPT ![c] = Denial(c)]
    PROVE  /\ plan' \in [Call -> Receipt \cup {None}]
           /\ \A d \in Call \ {c} : plan'[d] = plan[d]
           /\ pc'[c] = "receipt" => AtAdmission(c)' /\ AtIntent(c)' /\ AtEvidence(c)'
           /\ ~Executing(c)'
<1>0. /\ Denial(c) \in Receipt /\ Denial(c).op = OpOf[c] /\ Denial(c).status = "denied"
      /\ plan \in [Call -> Receipt \cup {None}]
  BY Shapes DEF Denial, Inv, TypeOK
<1>1. plan'[c] = Denial(c) /\ Unrecorded(c)' /\ Unreceipted(c)'
  BY <1>0 DEF Unrecorded, Unreceipted, K
<1>2. Only(c, plan[c])' /\ ~Executing(c)'
  BY <1>0, <1>1 DEF Only, Unreceipted, Executing
<1> QED BY <1>0, <1>1, <1>2 DEF AtAdmission, AtIntent, AtEvidence

(* resolveSessionMutationApproval preserves it.                            *)
LEMMA ResolveApprovalInv == ASSUME Inv, NEW c \in Call, ResolveApproval(c) PROVE Inv'
<1>0. /\ boot = "up" /\ pc[c] = "approval" /\ pc[c] \in Early /\ pc[c] \in Active
      /\ faults' \in 0 .. MaxFaults
      /\ UNCHANGED <<durable, effects, ended, auth, stolen, boot, todo, crashes, lead, needs>>
      /\ UNCHANGED <<journal, receipts>>
      /\ plan \in [Call -> Receipt \cup {None}] /\ needs \subseteq Call
      /\ Unrecorded(c) /\ Unrecorded(c)' /\ Unreceipted(c) /\ Unreceipted(c)'
  BY DEF Inv, TypeOK, ResolveApproval, At, rest, Early, Active, durable, Stages, AtAdmission,
         Unrecorded, Unreceipted, K
<1>1. CASE GiveUp(c) /\ UNCHANGED plan
  BY <1>0, <1>1, QuietGiveUp
<1>2. CASE Goto(c, "receipt") /\ plan' = [plan EXCEPT ![c] = Denial(c)]
  <2>1. "receipt" \in Active
    BY DEF Active
  <2> QED BY <1>0, <1>2, <2>1, DenialPlace, QuietGoto
<1>3. CASE Goto(c, "lease") /\ UNCHANGED plan
  <2>1. pc'[c] = "lease" => AtAdmission(c)' /\ AtIntent(c)' /\ AtEvidence(c)'
    BY <1>0 DEF AtAdmission, AtIntent, AtEvidence
  <2>2. "lease" \in Active /\ "lease" \in Early
    BY DEF Active, Early
  <2> QED BY <1>0, <1>3, <2>1, <2>2, QuietGoto
<1> QED BY <1>1, <1>2, <1>3 DEF ResolveApproval

(* acquireMutationLease preserves it.                                      *)
LEMMA AcquireLeaseInv == ASSUME Inv, NEW c \in Call, AcquireLease(c) PROVE Inv'
<1>0. /\ boot = "up" /\ pc[c] = "lease" /\ pc[c] \in Early /\ pc[c] \in Active
      /\ faults' \in 0 .. MaxFaults
      /\ UNCHANGED <<durable, effects, ended, auth, stolen, boot, todo, crashes, lead, needs,
                     plan>>
      /\ UNCHANGED <<journal, receipts>>
      /\ plan \in [Call -> Receipt \cup {None}] /\ needs \subseteq Call
      /\ lead \in [Call -> Call \cup {None}]
      /\ Unrecorded(c)' /\ Unreceipted(c)'
  BY DEF Inv, TypeOK, AcquireLease, At, rest, Early, Active, durable, Stages, AtAdmission,
         Unrecorded, Unreceipted, K
<1>1. CASE GiveUp(c)
  BY <1>0, <1>1, QuietGiveUp
<1>2. CASE /\ lease' = [lease EXCEPT ![M(c)] = c] /\ pc' = [pc EXCEPT ![c] = "policy"]
           /\ UNCHANGED <<flight, reply>>
  <2>1. Moved(c, "policy", reply[c])
    BY <1>0, <1>2, Shapes DEF Moved, Inv, TypeOK, Leading
  <2>2. pc'[c] = "policy" /\ reply[c] \in Reply \cup {None}
    BY <1>2 DEF Inv, TypeOK
  <2>3. AtAdmission(c)' /\ AtIntent(c)' /\ AtEvidence(c)'
    BY <1>0, <2>2 DEF AtAdmission, AtIntent, AtEvidence
  <2>4. reply[c] # None /\ reply[c].sure => Sure(c, reply[c].rcpt)
    BY DEF Inv, Replies
  <2>5. "policy" \in Points /\ "policy" \in Early
    BY DEF Points, Active, Early
  <2> QED BY <1>0, <2>1, <2>2, <2>3, <2>4, <2>5, QuietStep
<1> QED BY <1>1, <1>2 DEF AcquireLease

(* admitSessionMutation preserves it: whoever goes on with a context that  *)
(* has not ended holds the approval its class asks for.                    *)
LEMMA AdmitInv == ASSUME Inv, NEW c \in Call, Admit(c) PROVE Inv'
<1>0. /\ boot = "up" /\ pc[c] = "policy" /\ pc[c] \in Early /\ pc[c] \in Active
      /\ faults' \in 0 .. MaxFaults
      /\ UNCHANGED <<durable, effects, ended, auth, stolen, boot, todo, crashes, lead>>
      /\ UNCHANGED <<journal, receipts>>
      /\ plan \in [Call -> Receipt \cup {None}]
      /\ Unrecorded(c) /\ Unrecorded(c)' /\ Unreceipted(c) /\ Unreceipted(c)'
  BY DEF Inv, TypeOK, Admit, At, rest, Early, Active, durable, Stages, AtAdmission,
         Unrecorded, Unreceipted, K
<1>1. needs' \subseteq Call /\ \A d \in Call \ {c} : d \in needs' <=> d \in needs
  BY DEF Admit, Inv, TypeOK
<1>2. CASE Goto(c, "receipt") /\ plan' = [plan EXCEPT ![c] = Denial(c)]
  <2>1. "receipt" \in Active
    BY DEF Active
  <2> QED BY <1>0, <1>1, <1>2, <2>1, DenialPlace, QuietGoto
<1>3. CASE /\ Goto(c, "reserve") /\ UNCHANGED plan
           /\ c \in needs' /\ c \notin ended => auth[c] = "valid"
  <2>1. pc'[c] = "reserve" => AtAdmission(c)' /\ AtIntent(c)' /\ AtEvidence(c)'
    BY <1>0 DEF AtAdmission, AtIntent, AtEvidence
  <2>2. "reserve" \in Active /\ "reserve" \in Early
    BY DEF Active, Early
  <2> QED BY <1>0, <1>1, <1>3, <2>1, <2>2, QuietGoto
<1> QED BY <1>2, <1>3 DEF Admit, Approved

(* ReserveContext's lookup preserves it: the key is free, or it gives up.  *)
LEMMA ReserveInv == ASSUME Inv, NEW c \in Call, Reserve(c) PROVE Inv'
<1>0. /\ boot = "up" /\ pc[c] = "reserve" /\ pc[c] \in Early /\ pc[c] \in Active
      /\ UNCHANGED <<durable, effects, ended, auth, stolen, boot, todo, crashes, lead, needs,
                     plan>>
      /\ UNCHANGED <<journal, receipts>>
      /\ Fault \/ NoFault
      /\ plan \in [Call -> Receipt \cup {None}] /\ needs \subseteq Call
      /\ Unrecorded(c)' /\ Unreceipted(c)'
      /\ c \in needs /\ c \notin ended => auth[c] = "valid"
  BY DEF Inv, TypeOK, Reserve, At, rest, Early, Active, durable, Stages, AtAdmission,
         Unrecorded, Unreceipted, Approvals, K
<1>1. faults' \in 0 .. MaxFaults
  BY <1>0, FaultTypes
<1>2. CASE GiveUp(c)
  BY <1>0, <1>1, <1>2, QuietGiveUp
<1>3. CASE Goto(c, "create")
  <2>1. pc'[c] = "create" => AtAdmission(c)' /\ AtIntent(c)' /\ AtEvidence(c)'
    BY <1>0 DEF AtAdmission, AtIntent, AtEvidence
  <2>2. "create" \in Active /\ "create" \in Early
    BY DEF Active, Early
  <2> QED BY <1>0, <1>1, <1>3, <2>1, <2>2, QuietGoto
<1> QED BY <1>2, <1>3 DEF Reserve

(* replayMutationResult preserves it: a sure answer is the finalized one.  *)
LEMMA ReplayInv == ASSUME Inv, NEW c \in Call, Replay(c) PROVE Inv'
<1> DEFINE r == journal[K(c)]
<1>0. /\ boot = "up" /\ pc[c] = "load" /\ "done" \in Points
      /\ faults' \in 0 .. MaxFaults
      /\ UNCHANGED <<durable, effects, ended, auth, stolen, boot, todo, crashes, lead, needs,
                     plan>>
      /\ plan \in [Call -> Receipt \cup {None}] /\ needs \subseteq Call
      /\ lead \in [Call -> Call \cup {None}]
      /\ r \in Reservation \cup {None}
  BY Shapes DEF Inv, TypeOK, Replay, At, rest, Points
<1>1. CASE GiveUp(c)
  BY <1>0, <1>1, QuietGiveUp
<1>2. CASE /\ r # None /\ r.op = OpOf[c] /\ r.state = "finalized" /\ r.rcpt \in receipts
           /\ Leave(c, [rcpt |-> r.rcpt, sure |-> TRUE])
  <2> DEFINE a == [rcpt |-> r.rcpt, sure |-> TRUE]
  <2>1. r.rcpt \in Receipt /\ r.rcpt.op = OpOf[c]
    BY <1>0, <1>2, Shapes
  <2>2. a \in Reply /\ a.rcpt = r.rcpt
    BY <2>1 DEF Reply
  <2>3. Moved(c, "done", a)
    BY <1>2, LeaveMoves
  <2>4. Sure(c, a.rcpt)
    BY <1>2, <2>1, <2>2 DEF Sure
  <2>5. pc'[c] = "done"
    BY <2>3 DEF Moved, Inv, TypeOK
  <2>6. AtAdmission(c)' /\ AtIntent(c)' /\ AtEvidence(c)'
    BY <2>5 DEF AtAdmission, AtIntent, AtEvidence
  <2> HIDE DEF a
  <2> QED BY <1>0, <2>2, <2>3, <2>4, <2>6, QuietStep
<1> QED BY <1>1, <1>2 DEF Replay

-----------------------------------------------------------------------------
(* A step past the admission, which may write to the journal, the receipts *)
(* and the audit log and have an effect.                                   *)
LEMMA WriteStep ==
    ASSUME Inv, NEW c \in Call, boot = "up", pc[c] \in Active,
           NEW l \in Points \ Early, NEW a \in Reply \cup {None}, Moved(c, l, a),
           UNCHANGED <<needs, ended, lead, auth, boot, todo, crashes>>,
           stolen \subseteq stolen', stolen' \subseteq Op, faults' \in 0 .. MaxFaults,
           plan' \in [Call -> Receipt \cup {None}], \A d \in Call \ {c} : plan'[d] = plan[d],
           journal' \in [Key -> Reservation \cup {None}],
           \A k \in Key \ {K(c)} : journal'[k] = journal[k],
           \/ journal'[K(c)] = journal[K(c)]
           \/ /\ journal[K(c)] # None => journal[K(c)].op = OpOf[c]
              /\ journal'[K(c)] # None => journal'[K(c)].op = OpOf[c]
           \/ journal'[K(c)] = None /\ stolen' # {},
           receipts' \subseteq Receipt, receipts \subseteq receipts',
           \A r \in receipts' : r \in receipts \/ r.op = OpOf[c],
           audited' \subseteq Receipt, audited \subseteq audited', consumed' \subseteq Op,
           effects \subseteq effects', effects' \subseteq effects \cup {c},
           AtAdmission(c)', AtExecution(c)', AtIntent(c)', AtEvidence(c)', AtSettle(c)',
           a # None /\ a.sure => Sure(c, a.rcpt),
           OwnRecord(c), OwnApproval(c)
    PROVE  Inv'
<1>1. /\ pc' \in [Call -> Points] /\ reply' \in [Call -> Reply \cup {None}]
      /\ pc'[c] = l /\ reply'[c] = a
      /\ \A d \in Call \ {c} : pc'[d] = pc[d] /\ reply'[d] = reply[d]
  BY MovedTypes
<1>2. TypeOK'
  <2>1. effects' \subseteq Call
    BY DEF Inv, TypeOK
  <2>2. /\ needs' \subseteq Call /\ ended' \subseteq Call /\ lead' \in [Call -> Call \cup {None}]
        /\ auth' \in [Call -> {"none", "valid", "invalid"}] /\ todo' \subseteq Key
        /\ crashes' \in Boots /\ boot' \in {"off", "scan", "audit", "mark", "up"}
    BY DEF Inv, TypeOK
  <2> QED BY <1>1, <2>1, <2>2 DEF TypeOK, Moved, Points, Active
<1>3. Footprint(c)
  <2>1. \A d \in Call \ {c} : flight[F(d)] = d => flight'[F(d)] = d
    BY DEF Moved
  <2>2. /\ \A d \in Call \ {c} : d \in effects' <=> d \in effects
        /\ c \in effects /\ c \in needs' => c \in needs
    OBVIOUS
  <2> QED BY <1>1, <2>1, <2>2 DEF Footprint
<1>4. OwnPlace(c)
  <2>2. reply'[c] # None /\ reply'[c].sure => Sure(c, reply[c].rcpt)'
    <3>1. a # None /\ a.sure => Sure(c, a.rcpt)'
      BY <1>3, SureStays
    <3> QED BY <3>1, <1>1 DEF Sure
  <2>3. pc'[c] \in Active => flight'[F(c)] = c
    BY <1>1 DEF Moved
  <2>4. pc'[c] # "wait"
    BY <1>1 DEF Early
  <2> QED BY <1>1, <2>2, <2>3, <2>4 DEF OwnPlace
<1> QED BY <1>2, <1>3, <1>4, Assemble

(* Where the records, the receipts and the effects stay, their facts do.   *)
LEMMA SameRecord ==
    ASSUME Inv, NEW c \in Call, UNCHANGED <<journal, receipts, effects>>,
           stolen \subseteq stolen', \A d \in Call \ {c} : pc'[d] = pc[d],
           c \in effects => pc'[c] \notin Unexecuted
    PROVE  OwnRecord(c)
<1>1. ASSUME NEW d \in effects', K(d) = K(c) PROVE EffectOK(d)'
  <2>1. EffectOK(d) /\ d \in Call /\ d \in effects
    BY <1>1 DEF Inv, Effects, TypeOK
  <2>2. pc'[d] \notin Unexecuted
    BY <2>1 DEF EffectOK
  <2> QED BY <2>1, <2>2 DEF EffectOK, Kept, K
<1>2. \A r \in receipts' : r \in receipts
  OBVIOUS
<1>3. journal'[K(c)] = journal[K(c)]
  OBVIOUS
<1>4. \A d \in effects' : K(d) = K(c) => EffectOK(d)'
  BY <1>1
<1> QED BY <1>2, <1>3, <1>4 DEF OwnRecord

(* Where no approval is given back, none is missed.                        *)
LEMMA SameApproval ==
    ASSUME Inv, NEW c \in Call, consumed \subseteq consumed', UNCHANGED <<needs, effects>>,
           pc'[c] \notin {"reserve", "create", "created", "prepare", "execute"},
           Spender(c)' => Spender(c)
    PROVE  OwnApproval(c)
<1>1. Alone(c) => Alone(c)'
  BY DEF Alone
<1>2. Spender(c) /\ c \in needs /\ auth[c] = "valid" => Alone(c)
  BY DEF Inv, Approvals
<1> QED BY <1>1, <1>2 DEF OwnApproval, Inv, EffectSpendsApproval

(* What an execution in its finalization knows.                            *)
LEMMA ExecutingOwns ==
    ASSUME Inv, NEW c \in Call, pc[c] \in {"intent", "receipt", "audit", "mark"}, Executing(c)
    PROVE  /\ plan[c] \in Receipt /\ plan[c].op = OpOf[c] /\ Spender(c)
           /\ plan[c].effect = "none" => c \notin effects
<1>0. AtIntent(c) /\ AtEvidence(c)
  BY DEF Inv, Stages
<1>1. CASE pc[c] = "intent"
  BY <1>0, <1>1 DEF AtIntent, Executing, Spender
<1>2. CASE pc[c] \in {"receipt", "audit", "mark"}
  BY <1>0, <1>2 DEF AtEvidence, Spender
<1> QED BY <1>1, <1>2

(* A finalization that stops settles what it executed, or gives up.        *)
LEMMA StopMoves ==
    ASSUME Inv, NEW c \in Call, pc[c] \in Active, Stop(c)
    PROVE  \E l \in {"unsettled", "done"}, a \in Reply \cup {None} :
              /\ Moved(c, l, a) /\ (l = "unsettled" => Executing(c))
              /\ a # None /\ a.sure => Sure(c, a.rcpt)
<1>1. CASE Executing(c)
  <2>1. Moved(c, "unsettled", reply[c])
    BY <1>1, GotoMoves DEF Stop
  <2> QED BY <1>1, <2>1 DEF Inv, TypeOK, Replies
<1>2. CASE ~Executing(c)
  BY <1>2, LeaveMoves, FailedShape DEF Stop, GiveUp
<1> QED BY <1>1, <1>2

(* A finalization that stops where it wrote at most to the audit log.      *)
LEMMA StopInv ==
    ASSUME Inv, NEW c \in Call, boot = "up",
           pc[c] \in {"intent", "receipt", "audit", "mark"}, Stop(c),
           UNCHANGED <<journal, receipts, consumed, needs, plan, effects, rest>>,
           audited \subseteq audited', audited' \subseteq Receipt, Fault \/ NoFault
    PROVE  Inv'
<1>0. pc[c] \in Active /\ {"unsettled", "done"} \subseteq Points \ Early
  BY DEF Active, Points, Early
<1>1. PICK l \in {"unsettled", "done"}, a \in Reply \cup {None} :
              /\ Moved(c, l, a) /\ (l = "unsettled" => Executing(c))
              /\ a # None /\ a.sure => Sure(c, a.rcpt)
  BY <1>0, StopMoves
<1>2. /\ pc'[c] = l /\ \A d \in Call \ {c} : pc'[d] = pc[d]
  BY <1>0, <1>1, MovedTypes
<1>3. AtAdmission(c)' /\ AtExecution(c)' /\ AtIntent(c)' /\ AtEvidence(c)'
  BY <1>2 DEF AtAdmission, AtExecution, AtIntent, AtEvidence
<1>4. AtSettle(c)'
  BY <1>1, <1>2, ExecutingOwns DEF AtSettle, Executing
<1>5. OwnRecord(c)
  BY <1>2, SameRecord DEF Early, Unexecuted, rest
<1>6. OwnApproval(c)
  <2>1. Spender(c)' => Spender(c)
    BY <1>2 DEF Spender, Executing
  <2> QED BY <1>2, <2>1, SameApproval
<1>7. faults' \in 0 .. MaxFaults
  BY FaultTypes
<1>8. /\ plan' \in [Call -> Receipt \cup {None}] /\ journal' \in [Key -> Reservation \cup {None}]
      /\ receipts' \subseteq Receipt /\ consumed' \subseteq Op
      /\ UNCHANGED <<needs, ended, lead, auth, stolen, boot, todo, crashes>> /\ stolen \subseteq Op
  BY DEF Inv, TypeOK, rest
<1> QED BY <1>0, <1>1, <1>3, <1>4, <1>5, <1>6, <1>7, <1>8, WriteStep

(* A call before its execution, and the marker it may have made.           *)
LEMMA Unmarked ==
    ASSUME Inv, NEW c \in Call, pc[c] \in {"create", "created", "discard", "prepare", "execute"}
    PROVE  /\ pc[c] \in Active /\ K(c) \in Key /\ c \notin effects /\ Unreceipted(c)
           /\ Marker(c) \in Reservation /\ Marker(c) # None /\ Marker(c).op = OpOf[c]
           /\ Marker(c).by = c /\ Marker(c).state = "pending"
           /\ journal \in [Key -> Reservation \cup {None}]
<1>1. c \notin effects
  BY DEF Inv, Effects, EffectOK, Unexecuted, Early
<1>2. Unreceipted(c)
  BY DEF Inv, Stages, AtAdmission
<1> QED BY <1>1, <1>2, Shapes, NoneAssumption DEF Active, Marker, Inv, TypeOK

(* Giving up before the execution: the record is kept, or it was the       *)
(* call's own marker or is stolen.                                         *)
LEMMA WithdrawInv ==
    ASSUME Inv, NEW c \in Call, boot = "up", GiveUp(c),
           pc[c] \in {"create", "created", "discard", "prepare"},
           UNCHANGED <<receipts, audited, needs, plan, effects, ended, lead, auth, boot, todo,
                       crashes>>,
           Fault \/ NoFault, stolen \subseteq stolen', stolen' \subseteq Op,
           consumed \subseteq consumed', consumed' \subseteq Op,
           \/ journal' = journal
           \/ /\ journal' = Withdrawn(K(c))
              /\ journal[K(c)] \in {None, Marker(c)} \/ stolen' # {}
    PROVE  Inv'
<1>0. /\ pc[c] \in Active /\ "done" \in Points \ Early /\ K(c) \in Key
      /\ c \notin effects
      /\ Marker(c) # None /\ Marker(c).op = OpOf[c] /\ Marker(c).by = c
      /\ journal \in [Key -> Reservation \cup {None}]
  BY Unmarked DEF Points, Early
<1>1. Moved(c, "done", Failed) /\ Failed \in Reply /\ ~Failed.sure
  BY LeaveMoves, FailedShape DEF GiveUp
<1>2. /\ pc'[c] = "done" /\ \A d \in Call \ {c} : pc'[d] = pc[d]
  BY <1>0, <1>1, MovedTypes
<1>3. AtAdmission(c)' /\ AtExecution(c)' /\ AtIntent(c)' /\ AtEvidence(c)' /\ AtSettle(c)'
  BY <1>2 DEF AtAdmission, AtExecution, AtIntent, AtEvidence, AtSettle
<1>4. /\ journal' \in [Key -> Reservation \cup {None}]
      /\ \A k \in Key \ {K(c)} : journal'[k] = journal[k]
      /\ \/ journal'[K(c)] = journal[K(c)]
         \/ /\ journal'[K(c)] = None /\ journal[K(c)] # None
            /\ journal[K(c)] = Marker(c) \/ stolen' # {}
  BY <1>0 DEF Withdrawn
<1>5. OwnRecord(c)
  <2>1. ASSUME NEW d \in effects', K(d) = K(c) PROVE EffectOK(d)'
    <3>1. d \in Call /\ d \in effects /\ d # c /\ EffectOK(d)
      BY <1>0, <2>1 DEF Inv, Effects, TypeOK
    <3>2. pc'[d] \notin Unexecuted
      BY <1>2, <3>1 DEF EffectOK
    <3>3. stolen' = {} => journal'[K(d)] = journal[K(d)]
      BY <1>0, <1>4, <2>1, <3>1 DEF EffectOK, Kept
    <3> QED BY <3>1, <3>2, <3>3 DEF EffectOK, Kept, K
  <2>2. \A r \in receipts' : r \in receipts
    OBVIOUS
  <2>3. journal'[K(c)] = journal[K(c)] \/ journal'[K(c)] = None
    BY <1>4
  <2>4. \A d \in effects' : K(d) = K(c) => EffectOK(d)'
    BY <2>1
  <2> QED BY <2>2, <2>3, <2>4 DEF OwnRecord
<1>6. OwnApproval(c)
  <2>1. ~Spender(c)'
    BY <1>2 DEF Spender
  <2> QED BY <1>2, <2>1, SameApproval
<1>7. faults' \in 0 .. MaxFaults
  BY FaultTypes
<1>8. /\ plan' \in [Call -> Receipt \cup {None}]
      /\ receipts' \subseteq Receipt /\ audited' \subseteq Receipt
  BY DEF Inv, TypeOK
<1> QED BY <1>0, <1>1, <1>3, <1>4, <1>5, <1>6, <1>7, <1>8, WriteStep

(* Going on before the execution, with the record as it is.                *)
LEMMA ProceedInv ==
    ASSUME Inv, NEW c \in Call, boot = "up", pc[c] \in {"create", "created", "prepare"},
           NEW l \in {"discard", "prepare", "execute"}, Goto(c, l),
           UNCHANGED <<journal, receipts, audited, needs, plan, effects, rest>>,
           Fault \/ NoFault, consumed \subseteq consumed', consumed' \subseteq Op,
           pc[c] = "create" => l = "discard",
           l = "execute" /\ c \in needs /\ c \notin ended => OpOf[c] \in consumed',
           l = "execute" /\ c \in needs /\ auth[c] = "valid" => OpOf[c] \notin consumed
    PROVE  Inv'
<1>0. /\ pc[c] \in Active /\ l \in Points \ Early /\ K(c) \in Key
      /\ c \notin effects /\ Unreceipted(c)
      /\ pc[c] = "create" => Unrecorded(c)
      /\ pc[c] # "create" => Gone(c) \/ journal[K(c)] = Marker(c)
      /\ c \in needs /\ c \notin ended => auth[c] = "valid"
  BY Unmarked DEF Active, Points, Early, Inv, Stages, AtAdmission, AtExecution, Approvals
<1>1. Moved(c, l, reply[c]) /\ reply[c] \in Reply \cup {None}
  BY <1>0, GotoMoves DEF Inv, TypeOK
<1>2. /\ pc'[c] = l /\ \A d \in Call \ {c} : pc'[d] = pc[d]
  BY <1>0, <1>1, MovedTypes
<1>3. AtAdmission(c)' /\ AtIntent(c)' /\ AtEvidence(c)' /\ AtSettle(c)'
  BY <1>0, <1>2 DEF AtAdmission, AtIntent, AtEvidence, AtSettle, Unreceipted
<1>4. AtExecution(c)'
  <2>1. /\ Gone(c) => Gone(c)' /\ Unrecorded(c)'
        /\ Unrecorded(c) => Unrecorded(c)'
        /\ journal[K(c)] = Marker(c) => journal'[K(c)] = Marker(c)
    BY DEF Gone, Unrecorded, rest, K
  <2> QED BY <1>0, <1>2, <2>1 DEF AtExecution, Marker, K
<1>5. OwnRecord(c)
  BY <1>0, <1>2, SameRecord DEF rest
<1>6. OwnApproval(c)
  <2>1. Spender(c)' => l = "execute"
    BY <1>2 DEF Spender
  <2>2. l = "execute" /\ c \in needs /\ auth[c] = "valid" => Alone(c)'
    BY DEF Alone, Inv, EffectSpendsApproval
  <2> QED BY <1>0, <1>2, <2>1, <2>2 DEF OwnApproval
<1>7. faults' \in 0 .. MaxFaults
  BY FaultTypes
<1>8. /\ plan' \in [Call -> Receipt \cup {None}] /\ journal' \in [Key -> Reservation \cup {None}]
      /\ receipts' \subseteq Receipt /\ audited' \subseteq Receipt
      /\ UNCHANGED <<needs, ended, lead, auth, stolen, boot, todo, crashes>> /\ stolen \subseteq Op
  BY DEF Inv, TypeOK, rest
<1>9. reply[c] # None /\ reply[c].sure => Sure(c, reply[c].rcpt)
  BY DEF Inv, Replies
<1> QED BY <1>0, <1>1, <1>3, <1>4, <1>5, <1>6, <1>7, <1>8, <1>9, WriteStep

(* writeReservationExclusive preserves it: the marker is made where the    *)
(* key is free, so that, but for a theft, no effect and no receipt of the  *)
(* operation precedes it.                                                  *)
LEMMA CreateInv == ASSUME Inv, NEW c \in Call, Create(c) PROVE Inv'
<1>0. /\ boot = "up" /\ pc[c] = "create" /\ pc[c] \in Active /\ K(c) \in Key
      /\ UNCHANGED <<receipts, audited, consumed, needs, plan, effects, rest>>
      /\ Fault \/ NoFault
      /\ journal \in [Key -> Reservation \cup {None}]
      /\ Marker(c) \in Reservation /\ Marker(c) # None
      /\ Marker(c).op = OpOf[c] /\ Marker(c).by = c /\ Marker(c).state = "pending"
      /\ Unreceipted(c) /\ c \notin effects /\ consumed \subseteq Op /\ stolen \subseteq Op
      /\ c \in needs /\ c \notin ended => auth[c] = "valid"
  BY Unmarked DEF Create, At, Inv, TypeOK, Approvals
<1>1. CASE GiveUp(c) /\ UNCHANGED journal
  BY <1>0, <1>1, WithdrawInv DEF rest
<1>2. CASE Goto(c, "discard") /\ UNCHANGED journal
  BY <1>0, <1>2, ProceedInv
<1>3. ASSUME journal[K(c)] = None, journal' = Replaced(K(c), Marker(c)),
             Goto(c, "created") \/ GiveUp(c)
      PROVE  Inv'
  <2>0. {"created", "done"} \subseteq Points \ Early
    BY DEF Active, Points, Early
  <2>1. PICK l \in {"created", "done"}, a \in Reply \cup {None} :
            Moved(c, l, a) /\ (a # None /\ a.sure => Sure(c, a.rcpt))
    <3>1. CASE Goto(c, "created")
      BY <1>0, <3>1, GotoMoves DEF Inv, TypeOK, Replies
    <3>2. CASE GiveUp(c)
      BY <3>2, LeaveMoves, FailedShape DEF GiveUp
    <3> QED BY <1>3, <3>1, <3>2
  <2>2. /\ pc'[c] = l /\ \A d \in Call \ {c} : pc'[d] = pc[d]
    BY <2>0, <2>1, MovedTypes
  <2>3. /\ journal' \in [Key -> Reservation \cup {None}] /\ journal'[K(c)] = Marker(c)
        /\ \A k \in Key \ {K(c)} : journal'[k] = journal[k]
    BY <1>0, <1>3 DEF Replaced
  <2>4. AtAdmission(c)' /\ AtIntent(c)' /\ AtEvidence(c)' /\ AtSettle(c)'
    BY <1>0, <2>2 DEF AtAdmission, AtIntent, AtEvidence, AtSettle, Unreceipted
  <2>5. AtExecution(c)'
    BY <2>2, <2>3 DEF AtExecution, Marker, K
  <2>6. OwnRecord(c)
    <3>1. RecordOK(K(c))'
      <4>1. KeyOf[OpOf[c]] = K(c)
        BY DEF K
      <4>2. pc'[c] \notin Early
        BY <2>2 DEF Early
      <4> QED BY <1>0, <2>3, <4>1, <4>2 DEF RecordOK, K
    <3>2. ASSUME NEW d \in effects', K(d) = K(c) PROVE EffectOK(d)'
      <4>1. d \in Call /\ d \in effects /\ d # c /\ EffectOK(d)
        BY <1>0, <3>2 DEF Inv, Effects, TypeOK
      <4>2. stolen' # {} /\ pc'[d] \notin Unexecuted
        BY <1>0, <1>3, <2>2, <3>2, <4>1 DEF EffectOK, Kept, rest
      <4> QED BY <4>2 DEF EffectOK
    <3>3. \A r \in receipts' : r \in receipts
      BY <1>0
    <3>4. \A r \in receipts' : Agrees(r, K(c))'
      BY <1>0, <2>3 DEF Unreceipted, Agrees, K
    <3> QED BY <1>0, <2>3, <3>1, <3>2, <3>3, <3>4 DEF OwnRecord
  <2>7. OwnApproval(c)
    <3>1. ~Spender(c)'
      BY <2>2 DEF Spender
    <3> QED BY <1>0, <2>2, <3>1 DEF OwnApproval
  <2>8. faults' \in 0 .. MaxFaults
    BY <1>0, FaultTypes
  <2>9. /\ plan' \in [Call -> Receipt \cup {None}] /\ consumed' \subseteq Op
        /\ receipts' \subseteq Receipt /\ audited' \subseteq Receipt
        /\ UNCHANGED <<needs, ended, lead, auth, stolen, boot, todo, crashes>>
    BY <1>0 DEF Inv, TypeOK, rest
  <2> QED BY <1>0, <1>3, <2>0, <2>1, <2>3, <2>4, <2>5, <2>6, <2>7, <2>8, <2>9, WriteStep
<1> QED BY <1>1, <1>2, <1>3 DEF Create

(* The sync of the reservation preserves it.                               *)
LEMMA SyncReservationInv == ASSUME Inv, NEW c \in Call, SyncReservation(c) PROVE Inv'
<1>0. /\ boot = "up" /\ pc[c] = "created" /\ (Fault \/ NoFault)
      /\ UNCHANGED <<journal, receipts, audited, consumed, needs, plan, effects, rest>>
      /\ consumed \subseteq Op /\ stolen \subseteq Op
  BY DEF SyncReservation, At, durable, Inv, TypeOK
<1>1. CASE GiveUp(c)
  BY <1>0, <1>1, WithdrawInv DEF rest
<1>2. CASE Goto(c, "discard")
  BY <1>0, <1>2, ProceedInv
<1>3. CASE Goto(c, "prepare")
  BY <1>0, <1>3, ProceedInv
<1> QED BY <1>1, <1>2, <1>3 DEF SyncReservation

(* removeCanceledReservation preserves it: what it removes is the call's   *)
(* marker, or is stolen.                                                   *)
LEMMA DiscardInv == ASSUME Inv, NEW c \in Call, Discard(c) PROVE Inv'
<1>0. /\ boot = "up" /\ pc[c] = "discard" /\ GiveUp(c) /\ (Fault \/ NoFault)
      /\ UNCHANGED <<receipts, audited, consumed, needs, plan, effects, ended, lead, auth, boot,
                     todo, crashes>>
      /\ consumed \subseteq Op /\ stolen \subseteq Op
      /\ Unrecorded(c) \/ journal[K(c)] = Marker(c)
      /\ journal[K(c)] # None => journal[K(c)].op \in Op
  BY Shapes DEF Discard, At, Inv, TypeOK, Stages, AtExecution
<1>1. CASE UNCHANGED <<journal, stolen>>
  BY <1>0, <1>1, WithdrawInv
<1>2. CASE /\ journal' = Withdrawn(K(c))
           /\ stolen' = IF Collides(c) THEN stolen \cup {journal[K(c)].op} ELSE stolen
  <2>1. stolen \subseteq stolen' /\ stolen' \subseteq Op
    BY <1>0, <1>2 DEF Collides
  <2>2. journal[K(c)] \in {None, Marker(c)} \/ stolen' # {}
    BY <1>0, <1>2 DEF Collides, Unrecorded
  <2> QED BY <1>0, <1>2, <2>1, <2>2, WithdrawInv
<1> QED BY <1>1, <1>2 DEF Discard

(* prepareAuditAndApproval preserves it: it goes on with the approval its  *)
(* class asks for consumed, or withdraws the marker it made.               *)
LEMMA PrepareInv == ASSUME Inv, NEW c \in Call, Prepare(c) PROVE Inv'
<1>0. /\ boot = "up" /\ pc[c] = "prepare" /\ OpOf[c] \in Op /\ consumed \subseteq Op
      /\ UNCHANGED <<receipts, audited, needs, plan, effects, rest>>
      /\ (Fault \/ NoFault) /\ stolen \subseteq Op
      /\ Gone(c) \/ journal[K(c)] = Marker(c)
      /\ c \in needs /\ c \notin ended => auth[c] = "valid"
  BY Shapes DEF Prepare, At, Inv, TypeOK, Stages, AtExecution, Approvals
<1>1. CASE GiveUp(c)
  <2>1. consumed \subseteq consumed' /\ consumed' \subseteq Op
    BY <1>0, <1>1 DEF Prepare, GiveUp, Leave, Goto
  <2>2. journal' = journal \/ journal' = Cancelled(c)
    BY DEF Prepare
  <2>3. \/ journal' = journal
        \/ journal' = Withdrawn(K(c)) /\ journal[K(c)] \in {None, Marker(c)}
    BY <1>0, <2>2 DEF Cancelled, Gone, Unrecorded
  <2> QED BY <1>0, <1>1, <2>1, <2>3, WithdrawInv DEF rest
<1>2. CASE /\ c \notin ended /\ Goto(c, "execute") /\ NoFault /\ UNCHANGED journal
           /\ c \in needs /\ auth[c] = "valid" => OpOf[c] \notin consumed
           /\ consumed' = IF c \in needs /\ auth[c] = "valid" THEN consumed \cup {OpOf[c]}
                          ELSE consumed
  <2>1. /\ consumed \subseteq consumed' /\ consumed' \subseteq Op
        /\ c \in needs /\ c \notin ended => OpOf[c] \in consumed'
    BY <1>0, <1>2
  <2> QED BY <1>0, <1>2, <2>1, ProceedInv
<1> QED BY <1>1, <1>2 DEF Prepare

(* What the session manager may report.                                    *)
LEMMA OutcomeShape ==
    /\ \A o \in Aborted : o.status = "aborted" /\ o.effect = "none"
    /\ \A op \in Op : \A o \in OutcomesOf(op) :
          o.status \in {"aborted", "success", "failed"} /\ o.effect \in {"applied", "none"}
<1>1. \A o \in Aborted : o.status = "aborted" /\ o.effect = "none"
  BY DEF Aborted, Outcomes
<1>2. \A o \in OpenOutcomes \cup WriteOutcomes \cup ControlOutcomes \cup CloseOutcomes :
          o.status \in {"aborted", "success", "failed"} /\ o.effect \in {"applied", "none"}
  BY DEF OpenOutcomes, WriteOutcomes, ControlOutcomes, CloseOutcomes, Aborted, Outcomes
<1>3. \A op \in Op : OutcomesOf(op) \subseteq
         OpenOutcomes \cup WriteOutcomes \cup ControlOutcomes \cup CloseOutcomes
  <2> SUFFICES ASSUME NEW op \in Op
               PROVE  OutcomesOf(op) \in {OpenOutcomes, WriteOutcomes, ControlOutcomes,
                                          CloseOutcomes}
    OBVIOUS
  <2>1. KindOf[op] \in {"open", "write", "control", "close"}
    BY SessionMutationAssumption
  <2> QED BY <2>1 DEF OutcomesOf
<1> QED BY <1>1, <1>2, <1>3

(* executeMutation preserves it: an effect is the first of its key, under  *)
(* the call's own marker and with its approval consumed.                   *)
LEMMA ExecuteInv == ASSUME Inv, NEW c \in Call, Execute(c) PROVE Inv'
<1>0. /\ boot = "up" /\ pc[c] = "execute" /\ pc[c] \in Active /\ K(c) \in Key
      /\ UNCHANGED <<durable, needs, rest, faults>> /\ UNCHANGED <<journal, receipts, consumed>>
      /\ journal \in [Key -> Reservation \cup {None}] /\ OpOf[c] \in Op
      /\ plan \in [Call -> Receipt \cup {None}]
      /\ c \notin effects /\ Unreceipted(c) /\ stolen \subseteq Op
      /\ Marker(c) # None /\ Marker(c).op = OpOf[c] /\ Marker(c).by = c
      /\ Marker(c).state = "pending"
      /\ c \in needs /\ c \notin ended => auth[c] = "valid" /\ OpOf[c] \in consumed
      /\ Goto(c, "intent") /\ "intent" \in Points \ Early
  BY Unmarked, Shapes DEF Execute, At, Active, Points, Inv, TypeOK, Early, Approvals, durable
<1>m. (Gone(c) \/ journal[K(c)] = Marker(c)) /\ stolen' = stolen
  BY <1>0 DEF Inv, Stages, AtExecution, rest
<1>1. PICK o \in IF c \in ended THEN Aborted ELSE OutcomesOf(OpOf[c]) :
         /\ effects' = IF o.effect = "applied" THEN effects \cup {c} ELSE effects
         /\ plan' = [plan EXCEPT ![c] = [by |-> c, op |-> OpOf[c],
                                        status |-> o.status, effect |-> o.effect]]
  BY DEF Execute
<1> DEFINE p == [by |-> c, op |-> OpOf[c], status |-> o.status, effect |-> o.effect]
<1>2. /\ o.status \in {"aborted", "success", "failed"} /\ o.effect \in {"applied", "none"}
      /\ o.effect = "applied" => c \notin ended
  BY <1>0, OutcomeShape
<1>3. /\ p \in Receipt /\ p.op = OpOf[c] /\ p.by = c /\ p.status # "denied"
      /\ p.effect = o.effect
  BY <1>0, <1>2 DEF Receipt, Status, Effect
<1>4. /\ plan' \in [Call -> Receipt \cup {None}] /\ plan'[c] = p
      /\ \A d \in Call \ {c} : plan'[d] = plan[d]
  BY <1>0, <1>1, <1>3
<1> HIDE DEF p
<1>5. Moved(c, "intent", reply[c]) /\ reply[c] \in Reply \cup {None}
  BY <1>0, GotoMoves DEF Inv, TypeOK
<1>6. /\ pc'[c] = "intent" /\ \A d \in Call \ {c} : pc'[d] = pc[d]
  BY <1>0, <1>5, MovedTypes
<1>7. AtAdmission(c)' /\ AtExecution(c)' /\ AtEvidence(c)' /\ AtSettle(c)'
  BY <1>0, <1>6 DEF AtAdmission, AtExecution, AtEvidence, AtSettle, Unreceipted
<1>8. AtIntent(c)'
  <2>1. c \in effects' <=> o.effect = "applied"
    BY <1>0, <1>1
  <2>2. journal'[K(c)] = Marker(c) \/ Gone(c)'
    BY <1>0, <1>m DEF Gone, Unrecorded, K
  <2> QED BY <1>0, <1>2, <1>3, <1>4, <2>1, <2>2 DEF AtIntent, Recorded, K
<1>9. OwnRecord(c)
  <2>1. ASSUME NEW d \in effects', K(d) = K(c) PROVE EffectOK(d)'
    <3>1. d = c \/ (d \in effects /\ d \in Call /\ EffectOK(d))
      BY <1>1, <2>1 DEF Inv, Effects, TypeOK
    <3>2. pc'[d] \notin Unexecuted
      BY <1>6, <3>1 DEF EffectOK, Early, Unexecuted
    <3>3. stolen = {} => journal[K(c)] = Marker(c) /\ d = c
      BY <1>0, <1>m, <2>1, <3>1 DEF EffectOK, Kept, Gone
    <3> QED BY <1>0, <1>m, <3>2, <3>3 DEF EffectOK, Kept, K
  <2>2. \A r \in receipts' : r \in receipts
    BY <1>0
  <2>3. journal'[K(c)] = journal[K(c)]
    BY <1>0
  <2>4. \A d \in effects' : K(d) = K(c) => EffectOK(d)'
    BY <2>1
  <2> QED BY <2>2, <2>3, <2>4 DEF OwnRecord
<1>10. OwnApproval(c)
  <2>1. c \in needs /\ auth[c] = "valid" => Alone(c)
    BY <1>0 DEF Inv, Approvals, Spender
  <2>2. c \in needs /\ auth[c] = "valid" => Alone(c)'
    BY <1>0, <1>1, <2>1 DEF Alone
  <2> QED BY <1>0, <1>1, <1>2, <1>6, <2>2 DEF OwnApproval
<1>11. /\ effects \subseteq effects' /\ effects' \subseteq effects \cup {c}
  BY <1>1
<1>12. /\ faults' \in 0 .. MaxFaults
       /\ consumed' \subseteq Op
       /\ journal' \in [Key -> Reservation \cup {None}]
       /\ receipts' \subseteq Receipt /\ audited' \subseteq Receipt /\ audited' = audited
       /\ UNCHANGED <<needs, ended, lead, auth, stolen, boot, todo, crashes>>
  BY <1>0 DEF Inv, TypeOK, rest, durable
<1>13. reply[c] # None /\ reply[c].sure => Sure(c, reply[c].rcpt)
  BY DEF Inv, Replies
<1> QED BY <1>0, <1>4, <1>5, <1>7, <1>8, <1>9, <1>10, <1>11, <1>12, <1>13, <1>m,
           WriteStep

(* RecordFinalizationIntentForRecordContext preserves it: the decision is  *)
(* taken once, by the author of the record or as unknown.                  *)
LEMMA RecordIntentInv == ASSUME Inv, NEW c \in Call, RecordIntent(c) PROVE Inv'
<1> DEFINE r == journal[K(c)]
           s == [r EXCEPT !.state = "finalizing", !.rcpt = plan[c]]
<1>0. /\ boot = "up" /\ pc[c] = "intent" /\ pc[c] \in Active /\ K(c) \in Key
      /\ UNCHANGED <<receipts, audited, consumed, needs, plan, effects, rest>>
      /\ Fault \/ NoFault
      /\ journal \in [Key -> Reservation \cup {None}] /\ audited \subseteq Receipt
      /\ AtIntent(c) /\ RecordOK(K(c)) /\ Unreceipted(c) /\ stolen \subseteq Op
  BY Shapes DEF RecordIntent, At, Active, Inv, TypeOK, Stages, Records, AtAdmission
<1>1. CASE Stop(c) /\ UNCHANGED journal
  <2>1. UNCHANGED audited /\ audited' \subseteq Receipt
    BY <1>0
  <2> QED BY <1>0, <1>1, <2>1, StopInv
<1>2. ASSUME r # None, ~Collides(c), r.state = "pending", journal' = Replaced(K(c), s),
             Goto(c, "receipt") \/ Stop(c)
      PROVE  Inv'
  <2>0. /\ {"receipt", "unsettled", "done"} \subseteq Points \ Early
        /\ r \in Reservation /\ r.by \in Call
        /\ plan[c] \in Receipt /\ plan[c].op = OpOf[c] /\ r.op = OpOf[c] /\ ~Gone(c)
        /\ plan[c].status # "denied"
        /\ plan[c].effect # "unknown" => /\ plan[c].by = c /\ r.by = c
                                         /\ plan[c].effect = "applied" <=> c \in effects
        /\ KeyOf[r.op] = K(c) /\ OpOf[r.by] = r.op /\ pc[r.by] \notin Early
    BY <1>0, <1>2, Shapes DEF Active, Points, Early, AtIntent, Recorded, RecordOK,
       Collides, Gone, Unrecorded
  <2>s. /\ s \in Reservation /\ s # None /\ s.op = r.op /\ s.by = r.by
        /\ s.state = "finalizing" /\ s.rcpt = plan[c]
    <3>1. r \in Reservation /\ plan[c] \in Receipt /\ plan[c].op = r.op
      BY <2>0
    <3> QED BY <3>1, DecideShape, Zenon
  <2> HIDE DEF s
  <2>1. PICK l \in {"receipt", "unsettled", "done"}, a \in Reply \cup {None} :
            /\ Moved(c, l, a) /\ (a # None /\ a.sure => Sure(c, a.rcpt))
            /\ l = "unsettled" => Executing(c)
    <3>1. CASE Goto(c, "receipt")
      BY <1>0, <3>1, GotoMoves DEF Inv, TypeOK, Replies
    <3>2. CASE Stop(c)
      BY <1>0, <3>2, StopMoves
    <3> QED BY <1>2, <3>1, <3>2
  <2>2. /\ pc'[c] = l /\ \A d \in Call \ {c} : pc'[d] = pc[d]
    BY <2>0, <2>1, MovedTypes
  <2>3. /\ journal' \in [Key -> Reservation \cup {None}] /\ journal'[K(c)] = s
        /\ \A k \in Key \ {K(c)} : journal'[k] = journal[k]
    BY <1>0, <1>2, <2>s DEF Replaced
  <2>4. AtAdmission(c)' /\ AtExecution(c)' /\ AtIntent(c)'
    BY <2>2 DEF AtAdmission, AtExecution, AtIntent
  <2>5. AtEvidence(c)'
    <3>1. Only(c, plan[c])'
      BY <1>0 DEF Only, Unreceipted
    <3>2. Executing(c)' => (plan[c].effect = "applied" <=> c \in effects)
      BY <1>0, <2>0 DEF Executing
    <3> QED BY <1>0, <2>0, <2>s, <2>2, <2>3, <3>1, <3>2 DEF AtEvidence, Recorded, K
  <2>6. AtSettle(c)'
    BY <1>0, <2>1, <2>2, ExecutingOwns DEF AtSettle, Executing
  <2>7. OwnRecord(c)
    <3>1. pc'[r.by] \notin Early
      BY <2>0, <2>2
    <3>2. RecordOK(K(c))'
      BY <1>0, <2>0, <2>s, <2>3, <3>1 DEF RecordOK, K
    <3>3. ASSUME NEW d \in effects', K(d) = K(c) PROVE EffectOK(d)'
      <4>1. d \in Call /\ EffectOK(d) /\ d \in effects
        BY <1>0, <3>3 DEF Inv, Effects, TypeOK
      <4>2. stolen = {} => plan[c].effect # "none"
        BY <2>0, <4>1, <3>3 DEF EffectOK, Kept
      <4>3. pc'[d] \notin Unexecuted /\ stolen' = stolen
        BY <1>0, <2>2, <4>1 DEF EffectOK, Unexecuted, Early, rest
      <4> QED BY <2>s, <2>3, <3>3, <4>1, <4>2, <4>3 DEF EffectOK, Kept, K
    <3>4. \A t \in receipts' : t \in receipts
      BY <1>0
    <3>5. \A t \in receipts' : Agrees(t, K(c))'
      BY <1>0, <2>0, <2>s, <2>3 DEF Unreceipted, Agrees, K
    <3> QED BY <2>s, <2>3, <3>2, <3>3, <3>4, <3>5 DEF OwnRecord
  <2>8. OwnApproval(c)
    <3>1. Spender(c)' => Spender(c)
      BY <1>0, <2>2 DEF Spender, Executing
    <3> QED BY <1>0, <2>2, <3>1, SameApproval
  <2>9. faults' \in 0 .. MaxFaults
    BY <1>0, FaultTypes
  <2>10. /\ plan' \in [Call -> Receipt \cup {None}] /\ consumed' \subseteq Op
         /\ receipts' \subseteq Receipt /\ audited' \subseteq Receipt
         /\ UNCHANGED <<needs, ended, lead, auth, stolen, boot, todo, crashes>>
    BY <1>0 DEF Inv, TypeOK, rest
  <2> QED BY <1>0, <1>2, <2>0, <2>s, <2>1, <2>3, <2>4, <2>5, <2>6, <2>7, <2>8, <2>9, <2>10,
             WriteStep
<1> QED BY <1>1, <1>2 DEF RecordIntent

(* receipt.Store.EnsureContext preserves it: it is the one receipt of its  *)
(* operation, and what the record says if there is one.                    *)
LEMMA EnsureReceiptInv == ASSUME Inv, NEW c \in Call, EnsureReceipt(c) PROVE Inv'
<1>0. /\ boot = "up" /\ pc[c] = "receipt" /\ pc[c] \in Active /\ K(c) \in Key
      /\ UNCHANGED <<journal, audited, consumed, needs, plan, effects, rest>>
      /\ Fault \/ NoFault
      /\ journal \in [Key -> Reservation \cup {None}] /\ audited \subseteq Receipt
      /\ receipts \subseteq Receipt
      /\ AtEvidence(c) /\ stolen \subseteq Op
  BY Shapes DEF EnsureReceipt, At, Active, Inv, TypeOK, Stages
<1>1. CASE Stop(c) /\ UNCHANGED receipts
  <2>1. UNCHANGED audited /\ audited' \subseteq Receipt
    BY <1>0
  <2> QED BY <1>0, <1>1, <2>1, StopInv
<1>2. ASSUME receipts' = receipts \cup {plan[c]}, Goto(c, "audit") \/ Stop(c)
      PROVE  Inv'
  <2>0. /\ {"audit", "unsettled", "done"} \subseteq Points \ Early
        /\ plan[c] \in Receipt /\ plan[c].op = OpOf[c]
        /\ Only(c, plan[c])
        /\ \/ Unrecorded(c)
           \/ journal[K(c)].state # "pending" /\ journal[K(c)].rcpt = plan[c]
    BY <1>0 DEF Active, Points, Early, AtEvidence, Gone
  <2>1. PICK l \in {"audit", "unsettled", "done"}, a \in Reply \cup {None} :
            /\ Moved(c, l, a) /\ (a # None /\ a.sure => Sure(c, a.rcpt))
            /\ l = "unsettled" => Executing(c)
    <3>1. CASE Goto(c, "audit")
      BY <1>0, <3>1, GotoMoves DEF Inv, TypeOK, Replies
    <3>2. CASE Stop(c)
      BY <1>0, <3>2, StopMoves
    <3> QED BY <1>2, <3>1, <3>2
  <2>2. /\ pc'[c] = l /\ \A d \in Call \ {c} : pc'[d] = pc[d]
    BY <2>0, <2>1, MovedTypes
  <2>4. AtAdmission(c)' /\ AtExecution(c)' /\ AtIntent(c)'
    BY <2>2 DEF AtAdmission, AtExecution, AtIntent
  <2>5. AtEvidence(c)'
    <3>1. Only(c, plan[c])'
      BY <1>0, <1>2, <2>0 DEF Only
    <3>2. /\ Executing(c)' <=> Executing(c)
          /\ Gone(c) => Gone(c)'
          /\ Unrecorded(c) => Unrecorded(c)'
      BY <1>0 DEF Executing, Gone, Unrecorded, K, rest
    <3> QED BY <1>0, <1>2, <2>0, <2>2, <3>1, <3>2 DEF AtEvidence, Recorded, K
  <2>6. AtSettle(c)'
    BY <1>0, <2>1, <2>2, ExecutingOwns DEF AtSettle, Executing
  <2>7. OwnRecord(c)
    <3>1. ASSUME NEW d \in effects', K(d) = K(c) PROVE EffectOK(d)'
      <4>1. EffectOK(d) /\ d \in Call
        BY <1>0, <3>1 DEF Inv, Effects, TypeOK
      <4>2. pc'[d] \notin Unexecuted /\ stolen' = stolen
        BY <1>0, <2>2, <4>1 DEF EffectOK, Unexecuted, Early, rest
      <4> QED BY <1>0, <4>1, <4>2 DEF EffectOK, Kept, K
    <3>2. \A t, u \in receipts' : t \notin receipts /\ t.op = u.op => t = u
      BY <1>2, <2>0 DEF Only
    <3>3. \A t \in receipts' \ receipts : Agrees(t, K(c))'
      <4>1. Agrees(plan[c], K(c))
        BY <2>0 DEF Agrees, Unrecorded
      <4>2. \A t \in receipts' \ receipts : t = plan[c]
        BY <1>2
      <4> QED BY <1>0, <4>1, <4>2 DEF Agrees, K
    <3>4. journal'[K(c)] = journal[K(c)]
      BY <1>0
    <3>5. \A d \in effects' : K(d) = K(c) => EffectOK(d)'
      BY <3>1
    <3> QED BY <3>2, <3>3, <3>4, <3>5 DEF OwnRecord
  <2>8. OwnApproval(c)
    <3>1. Spender(c)' => Spender(c)
      BY <1>0, <2>2 DEF Spender, Executing
    <3> QED BY <1>0, <2>2, <3>1, SameApproval
  <2>9. faults' \in 0 .. MaxFaults
    BY <1>0, FaultTypes
  <2>10. /\ plan' \in [Call -> Receipt \cup {None}] /\ consumed' \subseteq Op
         /\ receipts' \subseteq Receipt /\ receipts \subseteq receipts'
         /\ \A t \in receipts' : t \in receipts \/ t.op = OpOf[c]
         /\ audited' \subseteq Receipt /\ audited' = audited
         /\ UNCHANGED <<needs, ended, lead, auth, stolen, boot, todo, crashes>>
    BY <1>0, <1>2, <2>0 DEF Inv, TypeOK, rest
  <2> QED BY <1>0, <2>0, <2>1, <2>4, <2>5, <2>6, <2>7, <2>8, <2>9, <2>10, WriteStep
<1> QED BY <1>1, <1>2 DEF EnsureReceipt

(* audit.Store.EnsureTerminalOutcomeContext preserves it.                  *)
LEMMA EnsureAuditInv == ASSUME Inv, NEW c \in Call, EnsureAudit(c) PROVE Inv'
<1>0. /\ boot = "up" /\ pc[c] = "audit" /\ pc[c] \in Active /\ K(c) \in Key
      /\ UNCHANGED <<journal, receipts, consumed, needs, plan, effects, rest>>
      /\ Fault \/ NoFault
      /\ journal \in [Key -> Reservation \cup {None}] /\ audited \subseteq Receipt
      /\ receipts \subseteq Receipt
      /\ plan[c] \in Receipt /\ plan[c].op = OpOf[c] /\ plan[c] \in receipts
      /\ AtEvidence(c) /\ stolen \subseteq Op
      /\ {"mark", "done"} \subseteq Points \ Early
  BY Shapes DEF EnsureAudit, At, Active, Points, Early, Inv, TypeOK, Stages, AtEvidence
<1>1. audited \subseteq audited' /\ audited' \subseteq Receipt
  BY <1>0 DEF EnsureAudit
<1>2. CASE Stop(c)
  BY <1>0, <1>1, <1>2, StopInv
<1>3. ASSUME NEW l \in {"mark", "done"}, NEW a \in Reply \cup {None}, Moved(c, l, a),
             a # None /\ a.sure => Sure(c, a.rcpt),
             l = "mark" => plan[c].status # "denied" /\ audited' = audited \cup {plan[c]}
      PROVE  Inv'
  <2>2. /\ pc'[c] = l /\ \A d \in Call \ {c} : pc'[d] = pc[d]
    BY <1>0, <1>3, MovedTypes
  <2>4. AtAdmission(c)' /\ AtExecution(c)' /\ AtIntent(c)' /\ AtSettle(c)'
    BY <2>2 DEF AtAdmission, AtExecution, AtIntent, AtSettle
  <2>5. AtEvidence(c)'
    <3>1. /\ Executing(c)' <=> Executing(c)
          /\ Gone(c) => Gone(c)'
          /\ Only(c, plan[c]) => Only(c, plan[c])'
      BY <1>0 DEF Executing, Gone, Unrecorded, Only, K, rest
    <3> QED BY <1>0, <1>3, <2>2, <3>1 DEF AtEvidence, Recorded, K
  <2>7. OwnRecord(c)
    BY <1>0, <2>2, SameRecord DEF Early, Unexecuted, rest
  <2>8. OwnApproval(c)
    <3>1. Spender(c)' => Spender(c)
      BY <1>0, <2>2 DEF Spender, Executing
    <3> QED BY <1>0, <2>2, <3>1, SameApproval
  <2>9. faults' \in 0 .. MaxFaults
    BY <1>0, FaultTypes
  <2>10. /\ plan' \in [Call -> Receipt \cup {None}] /\ consumed' \subseteq Op
         /\ receipts' \subseteq Receipt
         /\ UNCHANGED <<needs, ended, lead, auth, stolen, boot, todo, crashes>>
    BY <1>0 DEF Inv, TypeOK, rest
  <2> QED BY <1>0, <1>1, <1>3, <2>4, <2>5, <2>7, <2>8, <2>9, <2>10, WriteStep
<1>4. CASE plan[c].status = "denied" /\ Leave(c, [rcpt |-> plan[c], sure |-> TRUE])
  <2> DEFINE a == [rcpt |-> plan[c], sure |-> TRUE]
  <2>1. a \in Reply /\ a.rcpt = plan[c]
    BY <1>0 DEF Reply
  <2>2. Moved(c, "done", a)
    BY <1>4, LeaveMoves
  <2>3. Sure(c, a.rcpt)
    BY <1>0, <1>4, <2>1 DEF Sure
  <2> HIDE DEF a
  <2> QED BY <2>1, <2>2, <2>3, <1>3
<1>5. CASE /\ plan[c].status # "denied" /\ Goto(c, "mark")
           /\ audited' = audited \cup {plan[c]}
  BY <1>0, <1>5, <1>3, GotoMoves DEF Inv, TypeOK, Replies
<1> QED BY <1>2, <1>4, <1>5 DEF EnsureAudit

(* MarkFinalizedRecordContext preserves it: what it marks has its receipt  *)
(* and its audit.                                                          *)
LEMMA MarkFinalizedInv == ASSUME Inv, NEW c \in Call, MarkFinalized(c) PROVE Inv'
<1> DEFINE r == journal[K(c)]
           s == [r EXCEPT !.state = "finalized"]
<1>0. /\ boot = "up" /\ pc[c] = "mark" /\ pc[c] \in Active /\ K(c) \in Key
      /\ UNCHANGED <<receipts, audited, consumed, needs, plan, effects, rest>>
      /\ Fault \/ NoFault
      /\ journal \in [Key -> Reservation \cup {None}] /\ audited \subseteq Receipt
      /\ AtEvidence(c) /\ RecordOK(K(c)) /\ stolen \subseteq Op
  BY Shapes DEF MarkFinalized, At, Active, Inv, TypeOK, Stages, Records
<1>1. CASE Stop(c) /\ UNCHANGED journal
  <2>1. UNCHANGED audited /\ audited' \subseteq Receipt
    BY <1>0
  <2> QED BY <1>0, <1>1, <2>1, StopInv
<1>2. ASSUME r # None, ~Collides(c), r.state # "pending", journal' = Replaced(K(c), s),
             \/ Goto(c, IF Executing(c) THEN "settle" ELSE "load")
             \/ Stop(c)
      PROVE  Inv'
  <2>0. /\ {"load", "settle", "unsettled", "done"} \subseteq Points \ Early
        /\ r \in Reservation /\ r.by \in Call
        /\ plan[c] \in Receipt /\ plan[c].op = OpOf[c] /\ r.op = OpOf[c] /\ r.rcpt = plan[c]
        /\ plan[c] \in receipts /\ plan[c] \in audited
        /\ pc[r.by] \notin Early
    BY <1>0, <1>2, Shapes DEF Active, Points, Early, AtEvidence, Recorded, RecordOK,
       Collides, Gone, Unrecorded
  <2>s. /\ s \in Reservation /\ s # None /\ s.op = r.op /\ s.by = r.by
        /\ s.state = "finalized" /\ s.rcpt = r.rcpt
    BY <1>2, <2>0, MarkShape
  <2> HIDE DEF s
  <2>1. PICK l \in {"load", "settle", "unsettled", "done"}, a \in Reply \cup {None} :
            /\ Moved(c, l, a) /\ (a # None /\ a.sure => Sure(c, a.rcpt))
            /\ l \in {"settle", "unsettled"} => Executing(c)
    <3>1. CASE Goto(c, "load")
      BY <1>0, <3>1, GotoMoves DEF Inv, TypeOK, Replies
    <3>2. CASE Executing(c) /\ Goto(c, "settle")
      BY <1>0, <3>2, GotoMoves DEF Inv, TypeOK, Replies
    <3>3. CASE Stop(c)
      BY <1>0, <3>3, StopMoves
    <3> QED BY <1>2, <3>1, <3>2, <3>3
  <2>2. /\ pc'[c] = l /\ \A d \in Call \ {c} : pc'[d] = pc[d]
    BY <2>0, <2>1, MovedTypes
  <2>3. /\ journal' \in [Key -> Reservation \cup {None}] /\ journal'[K(c)] = s
        /\ \A k \in Key \ {K(c)} : journal'[k] = journal[k]
    BY <1>0, <1>2, <2>s DEF Replaced
  <2>4. AtAdmission(c)' /\ AtExecution(c)' /\ AtIntent(c)' /\ AtEvidence(c)'
    BY <2>2 DEF AtAdmission, AtExecution, AtIntent, AtEvidence
  <2>6. AtSettle(c)'
    BY <1>0, <2>0, <2>1, <2>2, ExecutingOwns DEF AtSettle, Executing
  <2>7. OwnRecord(c)
    <3>1. pc'[r.by] \notin Early
      BY <2>0, <2>2
    <3>2. RecordOK(K(c))'
      BY <1>0, <1>2, <2>0, <2>s, <2>3, <3>1 DEF RecordOK, K
    <3>3. ASSUME NEW d \in effects', K(d) = K(c) PROVE EffectOK(d)'
      <4>1. d \in Call /\ EffectOK(d) /\ d \in effects
        BY <1>0, <3>3 DEF Inv, Effects, TypeOK
      <4>3. pc'[d] \notin Unexecuted /\ stolen' = stolen
        BY <1>0, <2>2, <4>1 DEF EffectOK, Unexecuted, Early, rest
      <4> QED BY <1>2, <2>s, <2>3, <3>3, <4>1, <4>3 DEF EffectOK, Kept, K
    <3>4. \A t \in receipts' : t \in receipts
      BY <1>0
    <3>5. \A t \in receipts' : Agrees(t, K(c))'
      <4>1. \A t \in receipts : Agrees(t, K(c))
        BY <1>0 DEF Inv, Receipted
      <4> QED BY <1>0, <1>2, <2>s, <2>3, <4>1 DEF Agrees, K
    <3>6. s.rcpt \in receipts' \cap audited'
      BY <1>0, <2>0, <2>s
    <3> QED BY <2>s, <2>3, <3>2, <3>3, <3>4, <3>5, <3>6 DEF OwnRecord
  <2>8. OwnApproval(c)
    <3>1. Spender(c)' => Spender(c)
      BY <1>0, <2>2 DEF Spender, Executing
    <3> QED BY <1>0, <2>2, <3>1, SameApproval
  <2>9. faults' \in 0 .. MaxFaults
    BY <1>0, FaultTypes
  <2>10. /\ plan' \in [Call -> Receipt \cup {None}] /\ consumed' \subseteq Op
         /\ receipts' \subseteq Receipt /\ audited' \subseteq Receipt
         /\ UNCHANGED <<needs, ended, lead, auth, stolen, boot, todo, crashes>>
    BY <1>0 DEF Inv, TypeOK, rest
  <2> QED BY <1>0, <1>2, <2>0, <2>s, <2>1, <2>3, <2>4, <2>6, <2>7, <2>8, <2>9, <2>10, WriteStep
<1> QED BY <1>1, <1>2 DEF MarkFinalized

(* The end of an execution preserves it: an approval is given back only    *)
(* where no effect has spent it.                                           *)
LEMMA SettleInv == ASSUME Inv, NEW c \in Call, Settle(c) PROVE Inv'
<1> DEFINE a == [rcpt |-> plan[c], sure |-> pc[c] = "settle"]
<1>0. /\ boot = "up" /\ pc[c] \in {"settle", "unsettled"} /\ pc[c] \in Active
      /\ UNCHANGED <<journal, receipts, audited, needs, plan, effects, rest>>
      /\ Fault \/ NoFault
      /\ journal \in [Key -> Reservation \cup {None}]
      /\ AtSettle(c) /\ "done" \in Points \ Early /\ stolen \subseteq Op
  BY DEF Settle, At, Active, Points, Early, Inv, TypeOK, Stages
<1>1. /\ plan[c] \in Receipt /\ plan[c].op = OpOf[c] /\ Spender(c)
      /\ plan[c].effect = "none" => c \notin effects
      /\ pc[c] = "settle" => plan[c] \in receipts
  BY <1>0 DEF AtSettle, Spender
<1>2. /\ a \in Reply /\ a.rcpt = plan[c] /\ (a.sure => pc[c] = "settle")
  BY <1>1 DEF Reply
<1>3. Moved(c, "done", a)
  BY LeaveMoves DEF Settle
<1>4. a.sure => Sure(c, a.rcpt)
  BY <1>1, <1>2 DEF Sure
<1> HIDE DEF a
<1>5. /\ pc'[c] = "done" /\ \A d \in Call \ {c} : pc'[d] = pc[d]
  BY <1>0, <1>2, <1>3, MovedTypes
<1>6. AtAdmission(c)' /\ AtExecution(c)' /\ AtIntent(c)' /\ AtEvidence(c)' /\ AtSettle(c)'
  BY <1>5 DEF AtAdmission, AtExecution, AtIntent, AtEvidence, AtSettle
<1>7. OwnRecord(c)
  BY <1>0, <1>5, SameRecord DEF Early, Unexecuted, rest
<1>8. /\ consumed' \subseteq Op
      /\ \A o \in consumed : o \in consumed' \/ (o = OpOf[c] /\ Releases(c))
  BY DEF Settle, Inv, TypeOK
<1>9. OwnApproval(c)
  <2>1. Releases(c) => \A d \in effects : d \in needs => OpOf[d] # OpOf[c]
    BY <1>1 DEF Inv, Approvals, Alone, Releases
  <2>2. c \in effects /\ c \in needs => auth[c] = "valid" /\ OpOf[c] \in consumed'
    BY <1>8, <2>1 DEF Inv, EffectSpendsApproval
  <2>3. ~Spender(c)'
    BY <1>5 DEF Spender
  <2> QED BY <1>0, <1>5, <1>8, <2>1, <2>2, <2>3 DEF OwnApproval
<1>10. faults' \in 0 .. MaxFaults
  BY <1>0, FaultTypes
<1>11. /\ plan' \in [Call -> Receipt \cup {None}]
       /\ receipts' \subseteq Receipt /\ audited' \subseteq Receipt
       /\ UNCHANGED <<needs, ended, lead, auth, stolen, boot, todo, crashes>>
  BY <1>0 DEF Inv, TypeOK, rest
<1> QED BY <1>0, <1>2, <1>3, <1>4, <1>6, <1>7, <1>8, <1>9, <1>10, <1>11, WriteStep

-----------------------------------------------------------------------------
(* The first daemon on an empty state directory satisfies the invariant.   *)
LEMMA InitInv == Init => Inv
<1> SUFFICES ASSUME Init PROVE Inv
  OBVIOUS
<1> USE SessionMutationAssumption DEF Init
<1>1. TypeOK
  BY DEF TypeOK, Boots
<1>2. Leading /\ Stages
  BY DEF Leading, Stages, Active, AtAdmission, AtExecution, AtIntent, AtEvidence, AtSettle
<1>3. Records /\ Effects /\ Receipted /\ Replies /\ Approvals
  BY DEF Records, RecordOK, Effects, Receipted, Replies, Approvals, Spender
<1>4. EffectSpendsApproval /\ Reconciled /\ FinalizedHasEvidence
  BY DEF EffectSpendsApproval, Reconciled, FinalizedHasEvidence
<1> QED BY <1>1, <1>2, <1>3, <1>4 DEF Inv

(* A context that ends changes nothing but what its call may do next.      *)
LEMMA EndContextInv == ASSUME Inv, NEW c \in Call, EndContext(c) PROVE Inv'
<1> USE DEF EndContext, durable, Inv
<1>1. TypeOK'
  BY DEF TypeOK
<1>2. Leading' /\ Records' /\ Effects'
  BY DEF Leading, Records, RecordOK, Effects, EffectOK, Kept, F, K
<1>3. Stages'
  BY DEF Stages, AtAdmission, AtExecution, AtIntent, AtEvidence, AtSettle, Recorded, Unrecorded,
         Unreceipted, Gone, Only, Executing, Marker, K
<1>4. Receipted' /\ Replies' /\ Approvals'
  BY DEF Receipted, Agrees, Replies, Sure, Approvals, Spender, Executing, Alone
<1>5. EffectSpendsApproval' /\ Reconciled' /\ FinalizedHasEvidence'
  BY DEF EffectSpendsApproval, Reconciled, FinalizedHasEvidence
<1> QED BY <1>1, <1>2, <1>3, <1>4, <1>5

(* Nor does a crash: the calls under way are lost, the files stay.         *)
LEMMA CrashInv == ASSUME Inv, Crash PROVE Inv'
<1> USE SessionMutationAssumption DEF Crash, durable, Inv
<1>0. /\ pc \in [Call -> Points]
      /\ \A c \in Call : pc'[c] = IF pc[c] \in {"idle", "done"} THEN pc[c] ELSE "lost"
  BY DEF TypeOK, Points, Active
<1>1. TypeOK'
  BY DEF TypeOK, Boots
<1>2. Leading' /\ Stages'
  BY <1>0 DEF Leading, Stages, Active, AtAdmission, AtExecution, AtIntent, AtEvidence, AtSettle
<1>3. Records'
  <2>1. \A k \in Key : journal[k] # None => journal[k].by \in Call
    BY Shapes DEF TypeOK
  <2> QED BY <1>0, <2>1 DEF Records, RecordOK, Early
<1>4. Effects'
  BY <1>0 DEF TypeOK, Effects, EffectOK, Kept, Unexecuted, Early, K
<1>5. Receipted' /\ Replies' /\ Approvals'
  BY <1>0 DEF Receipted, Agrees, Replies, Sure, Approvals, Spender
<1>6. EffectSpendsApproval' /\ Reconciled' /\ FinalizedHasEvidence'
  BY DEF EffectSpendsApproval, Reconciled, FinalizedHasEvidence
<1> QED BY <1>1, <1>2, <1>3, <1>4, <1>5, <1>6

(* What the startup may do to a record: decide a pending one as unknown,   *)
(* mark a decided one.                                                     *)
Settles(k) ==
    \/ journal'[k] = journal[k]
    \/ /\ journal[k] # None /\ journal'[k] # None
       /\ journal'[k].op = journal[k].op /\ journal'[k].by = journal[k].by
       /\ journal'[k].state # "pending"
       /\ journal[k].state = "finalized" => journal'[k].state = "finalized"
       /\ IF journal[k].state = "pending"
            THEN journal'[k].rcpt.effect = "unknown" /\ journal'[k].rcpt.status = "failed"
            ELSE journal'[k].rcpt = journal[k].rcpt

(* A step of the startup disturbs no call: none acts before the daemon is  *)
(* up.                                                                     *)
LEMMA BootStep ==
    ASSUME Inv, boot # "up", UNCHANGED <<consumed, calls>>, TypeOK', Reconciled',
           FinalizedHasEvidence', \A k \in Key : Settles(k), Receipted',
           receipts \subseteq receipts', audited \subseteq audited'
    PROVE  Inv'
<1> USE DEF calls, Inv
<1>0. \A c \in Call : pc[c] \notin Active /\ pc'[c] = pc[c] /\ K(c) \in Key
  BY Shapes DEF Leading
<1>1. Leading' /\ Stages'
  BY <1>0 DEF Leading, Stages, Active, AtAdmission, AtExecution, AtIntent, AtEvidence, AtSettle,
              F
<1>2. Records'
  <2> SUFFICES ASSUME NEW k \in Key PROVE RecordOK(k)'
    BY DEF Records
  <2> QED BY DEF Records, RecordOK, Settles
<1>3. Effects'
  <2> SUFFICES ASSUME NEW c \in effects PROVE EffectOK(c)'
    BY DEF Effects
  <2>1. EffectOK(c) /\ K(c) \in Key /\ Settles(K(c))
    BY <1>0 DEF Effects, TypeOK
  <2> QED BY <1>0, <2>1 DEF EffectOK, Kept, Settles, K
<1>5. Replies'
  <2> SUFFICES ASSUME NEW c \in Call, reply[c] # None, reply[c].sure
               PROVE  Sure(c, reply[c].rcpt)'
    BY DEF Replies
  <2>1. Sure(c, reply[c].rcpt)
    BY DEF Replies
  <2> QED BY <2>1 DEF Sure
<1>6. Approvals'
  BY <1>0 DEF Approvals, Spender, Active
<1>7. EffectSpendsApproval'
  BY DEF EffectSpendsApproval
<1> QED BY <1>1, <1>2, <1>3, <1>5, <1>6, <1>7

(* Where no receipt is written and no pending record decided, the receipts *)
(* and the records agree as before.                                        *)
LEMMA SameReceipts ==
    ASSUME Inv, UNCHANGED receipts,
           \A k \in Key : \/ journal'[k] = journal[k]
                          \/ /\ journal[k] # None /\ journal'[k].op = journal[k].op
                             /\ journal[k].state # "pending" /\ journal'[k].state # "pending"
                             /\ journal'[k].rcpt = journal[k].rcpt
    PROVE  Receipted'
<1>1. ASSUME NEW r \in receipts, NEW k \in Key PROVE Agrees(r, k)'
  <2>1. Agrees(r, k)
    BY DEF Inv, Receipted
  <2> QED BY <2>1 DEF Agrees
<1> QED BY <1>1 DEF Inv, Receipted

(* ReconcileMutationFinalizations preserves the invariant, step by step.   *)
LEMMA BootingInv == ASSUME Inv, Booting PROVE Inv'
<1> USE SessionMutationAssumption
<1>0. /\ TypeOK /\ Reconciled /\ FinalizedHasEvidence /\ Inv
      /\ journal \in [Key -> Reservation \cup {None}]
      /\ faults \in 0 .. MaxFaults /\ crashes \in Boots /\ todo \subseteq Key
  BY DEF Inv, TypeOK
<1>1. CASE BootStart
  <2>1. TypeOK'
    BY <1>0, <1>1 DEF BootStart, TypeOK, durable, calls
  <2>2. Reconciled' /\ FinalizedHasEvidence'
    BY <1>0, <1>1 DEF BootStart, Reconciled, FinalizedHasEvidence, durable
  <2>3. Receipted'
    BY <1>1, SameReceipts DEF BootStart, durable
  <2> QED BY <1>0, <1>1, <2>1, <2>2, <2>3, BootStep DEF BootStart, durable, Settles
<1>2. ASSUME NEW k \in Key, BootRecord(k) PROVE Inv'
  <2> DEFINE r == journal[k]
             p == IF r.state = "pending" THEN Interrupted(crashes, r.op) ELSE r.rcpt
             s == IF r.state = "pending" THEN [r EXCEPT !.state = "finalizing", !.rcpt = p]
                  ELSE r
  <2>0. /\ boot = "scan" /\ k \in todo /\ r # None /\ r \in Reservation
        /\ UNCHANGED <<audited, consumed, calls, crashes>>
    BY <1>0, <1>2 DEF BootRecord, Reconciled
  <2>1. /\ p \in Receipt /\ p.op = r.op
        /\ r.state = "pending" => p.effect = "unknown" /\ p.status = "failed"
        /\ r.state # "pending" => p = r.rcpt /\ p.status # "denied"
    <3>1. r.op \in Op /\ (r.state # "pending" => r.rcpt \in Receipt /\ r.rcpt.op = r.op)
      BY <2>0, Shapes
    <3>2. Interrupted(crashes, r.op) \in Receipt /\ Interrupted(crashes, r.op).op = r.op
      BY <1>0, <3>1, Shapes
    <3>3. /\ Interrupted(crashes, r.op).effect = "unknown"
          /\ Interrupted(crashes, r.op).status = "failed"
      BY DEF Interrupted
    <3>4. r.state # "pending" => r.rcpt.status # "denied"
      BY <2>0 DEF Inv, Records, RecordOK
    <3> HIDE DEF r
    <3> QED BY <3>1, <3>2, <3>3, <3>4
  <2> HIDE DEF p
  <2>2. /\ s \in Reservation /\ s # None /\ s.op = r.op /\ s.by = r.by
        /\ s.state # "pending" /\ s.rcpt = p
        /\ r.state # "pending" => s = r
    <3>1. CASE r.state = "pending"
      <4>1. s = [r EXCEPT !.state = "finalizing", !.rcpt = p]
        BY <3>1
      <4>2. LET t == [r EXCEPT !.state = "finalizing", !.rcpt = p] IN
              /\ t \in Reservation /\ t # None
              /\ t.op = r.op /\ t.by = r.by /\ t.state = "finalizing" /\ t.rcpt = p
        BY <2>0, <2>1, DecideShape, Zenon
      <4> QED BY <3>1, <4>1, <4>2
    <3>2. CASE r.state # "pending"
      BY <2>0, <2>1, <3>2
    <3> QED BY <3>1, <3>2
  <2>3. /\ journal' = journal \/ journal' = Replaced(k, s)
        /\ receipts' = receipts \/ receipts' = receipts \cup {p}
        /\ Fault \/ NoFault
    BY <1>2 DEF BootRecord, p
  <2>4. \/ /\ journal' = Replaced(k, s) /\ receipts' = receipts \cup {p}
           /\ todo' = todo \ {k} /\ boot' = "scan"
        \/ boot' = "off" /\ todo' = {}
    BY <1>2, <2>0 DEF BootRecord, p
  <2> HIDE DEF s
  <2>5. /\ journal' \in [Key -> Reservation \cup {None}]
        /\ \A j \in Key \ {k} : journal'[j] = journal[j]
        /\ journal'[k] = r \/ journal'[k] = s
        /\ journal' = Replaced(k, s) => journal'[k] = s
    BY <1>0, <2>2, <2>3 DEF Replaced
  <2>6. TypeOK'
    <3>1. faults' \in 0 .. MaxFaults
      BY <1>0, <2>3, FaultTypes
    <3>2. receipts' \subseteq Receipt
      BY <1>0, <2>1, <2>3 DEF TypeOK
    <3>3. boot' \in {"scan", "off"} /\ todo' \subseteq Key
      BY <1>0, <2>4
    <3> QED BY <1>0, <2>0, <2>5, <3>1, <3>2, <3>3 DEF TypeOK, calls
  <2>7. Reconciled'
    BY <1>0, <2>0, <2>2, <2>4, <2>5 DEF Reconciled
  <2>8. \A j \in Key : Settles(j)
    BY <2>0, <2>1, <2>2, <2>5 DEF Settles
  <2>9. FinalizedHasEvidence'
    <3>1. \A j \in Key : journal'[j] # None /\ journal'[j].state = "finalized" =>
             journal'[j] = journal[j]
      <4>1. r.state = "pending" => s.state # "finalized"
        <5>1. r.state = "pending" => s = [r EXCEPT !.state = "finalizing", !.rcpt = p]
          BY DEF s
        <5>2. [r EXCEPT !.state = "finalizing", !.rcpt = p].state = "finalizing"
          BY <2>0, <2>1, DecideShape, Zenon
        <5> QED BY <5>1, <5>2
      <4> QED BY <2>2, <2>5, <4>1
    <3> QED BY <1>0, <2>0, <2>3, <3>1 DEF FinalizedHasEvidence
  <2>10. /\ receipts \subseteq receipts' /\ audited \subseteq audited'
    BY <2>0, <2>3
  <2>11. Receipted'
    <3>1. \A t \in receipts, j \in Key : Agrees(t, j)
      BY DEF Inv, Receipted
    <3>2. /\ r.state = "pending" => \A t \in receipts : t.op # r.op
          /\ r.state # "pending" => \A t \in receipts : t.op = r.op => t = p
      BY <2>0, <2>1, <3>1 DEF Agrees
    <3>3. KeyOf[r.op] = k /\ \A j \in Key : journal[j] # None => KeyOf[journal[j].op] = j
      BY <2>0 DEF Inv, Records, RecordOK
    <3>4. ASSUME NEW t \in receipts', NEW u \in receipts', t.op = u.op PROVE t = u
      <4>1. CASE t \in receipts /\ u \in receipts
        BY <3>4, <4>1 DEF Inv, Receipted
      <4>2. CASE t = p \/ u = p
        BY <2>1, <2>3, <3>2, <3>4, <4>2
      <4> QED BY <2>3, <4>1, <4>2
    <3>5. receipts' # receipts => journal'[k] = s
      BY <1>2, <2>0, <2>3, <2>4, <2>5 DEF BootRecord
    <3>6. ASSUME NEW t \in receipts', NEW j \in Key PROVE Agrees(t, j)'
      <4>1. CASE j # k /\ t \in receipts
        BY <2>5, <3>1, <4>1 DEF Agrees
      <4>2. CASE j # k /\ t \notin receipts
        BY <2>1, <2>3, <2>5, <3>3, <4>2 DEF Agrees
      <4>3. CASE j = k /\ t \in receipts
        BY <2>0, <2>1, <2>2, <2>5, <3>1, <3>2, <4>3 DEF Agrees
      <4>4. CASE j = k /\ t \notin receipts
        BY <2>2, <2>3, <3>5, <4>4 DEF Agrees
      <4> QED BY <4>1, <4>2, <4>3, <4>4
    <3> QED BY <3>4, <3>6 DEF Receipted
  <2> QED BY <1>0, <2>0, <2>6, <2>7, <2>8, <2>9, <2>10, <2>11, BootStep
<1>3. CASE BootAudit
  <2>0. /\ boot = "scan" /\ todo = {} /\ UNCHANGED <<journal, receipts, consumed, calls, crashes>>
        /\ Fault \/ NoFault
        /\ \A k \in Key : journal[k] # None =>
              journal[k].state # "pending" /\ journal[k].rcpt \in receipts
    BY <1>0, <1>3 DEF BootAudit, Reconciled
  <2>1. /\ audited \subseteq audited' /\ audited' \subseteq Receipt
        /\ boot' \in {"mark", "off"} /\ todo' \subseteq Key
        /\ boot' = "mark" => todo' = {k \in Key : journal[k] # None}
        /\ boot' = "mark" => \A k \in Key : journal[k] # None => journal[k].rcpt \in audited'
    BY <1>0, <1>3, <2>0 DEF BootAudit, TypeOK
  <2>2. TypeOK'
    BY <1>0, <2>0, <2>1, FaultTypes DEF TypeOK, calls
  <2>3. Reconciled' /\ FinalizedHasEvidence'
    BY <1>0, <2>0, <2>1 DEF Reconciled, FinalizedHasEvidence
  <2>4. \A k \in Key : Settles(k)
    BY <2>0 DEF Settles
  <2>5. Receipted'
    BY <2>0, SameReceipts
  <2> QED BY <1>0, <2>0, <2>1, <2>2, <2>3, <2>4, <2>5, BootStep
<1>4. ASSUME NEW k \in Key, BootMark(k) PROVE Inv'
  <2> DEFINE r == journal[k]
             s == [r EXCEPT !.state = "finalized"]
  <2>0. /\ boot = "mark" /\ k \in todo /\ UNCHANGED <<receipts, audited, consumed, calls, crashes>>
        /\ (Fault \/ NoFault) /\ r # None /\ r \in Reservation /\ r.state # "pending"
        /\ \A j \in Key : journal[j] # None =>
              journal[j].state # "pending" /\ journal[j].rcpt \in receipts \cap audited
    BY <1>0, <1>4 DEF BootMark, Reconciled
  <2>1. /\ s \in Reservation /\ s # None /\ s.op = r.op /\ s.by = r.by
        /\ s.state = "finalized" /\ s.rcpt = r.rcpt
    BY <2>0, MarkShape
  <2>2. /\ journal' = journal \/ journal' = [journal EXCEPT ![k] = s]
        /\ boot' \in {"mark", "off"} /\ todo' \subseteq todo
    BY <1>0, <1>4, <2>0 DEF BootMark
  <2> HIDE DEF s
  <2>3. /\ journal' \in [Key -> Reservation \cup {None}]
        /\ \A j \in Key \ {k} : journal'[j] = journal[j]
        /\ journal'[k] = r \/ journal'[k] = s
    BY <1>0, <2>1, <2>2
  <2>4. TypeOK'
    BY <1>0, <2>0, <2>2, <2>3, FaultTypes DEF TypeOK, calls
  <2>5. Reconciled' /\ FinalizedHasEvidence'
    BY <1>0, <2>0, <2>1, <2>2, <2>3 DEF Reconciled, FinalizedHasEvidence
  <2>6. \A j \in Key : Settles(j)
    BY <2>0, <2>1, <2>3 DEF Settles
  <2>7. Receipted'
    BY <2>0, <2>1, <2>3, SameReceipts
  <2> QED BY <1>0, <2>0, <2>4, <2>5, <2>6, <2>7, BootStep
<1>5. CASE BootServe
  <2>1. TypeOK'
    BY <1>0, <1>5 DEF BootServe, TypeOK, durable, calls
  <2>2. Reconciled' /\ FinalizedHasEvidence'
    BY <1>0, <1>5 DEF BootServe, Reconciled, FinalizedHasEvidence, durable
  <2>3. Receipted'
    BY <1>5, SameReceipts DEF BootServe, durable
  <2> QED BY <1>0, <1>5, <2>1, <2>2, <2>3, BootStep DEF BootServe, durable, Settles
<1> QED BY <1>1, <1>2, <1>3, <1>4, <1>5 DEF Booting

(* Every step preserves the invariant.                                     *)
LEMMA StepInv == ASSUME Inv, Next PROVE Inv'
<1>1. ASSUME NEW c \in Call, Step(c) PROVE Inv'
  BY <1>1, ArriveInv, WaitInv, LookupInv, CachedReceiptInv, ResolveApprovalInv, AcquireLeaseInv,
     AdmitInv, ReserveInv, CreateInv, SyncReservationInv, DiscardInv, PrepareInv, ExecuteInv,
     RecordIntentInv, EnsureReceiptInv, EnsureAuditInv, MarkFinalizedInv, ReplayInv, SettleInv
     DEF Step
<1> QED BY <1>1, BootingInv, CrashInv, EndContextInv DEF Next

(* The inductive invariant of session mutations: who leads a flight, whose *)
(* record a key holds, what a call may rely on at each of its places.      *)
THEOREM SessionMutationInvariant == Spec => []Inv
<1>1. Inv /\ UNCHANGED vars => Inv'
  <2> SUFFICES ASSUME Inv, UNCHANGED vars PROVE Inv'
    OBVIOUS
  <2> USE DEF vars, Inv
  <2>1. TypeOK' /\ Leading' /\ Records' /\ Effects'
    BY DEF TypeOK, Leading, Records, RecordOK, Effects, EffectOK, Kept, F, K
  <2>2. Stages'
    BY DEF Stages, AtAdmission, AtExecution, AtIntent, AtEvidence, AtSettle, Recorded,
           Unrecorded, Unreceipted, Gone, Only, Executing, Marker, K
  <2>3. Receipted' /\ Replies' /\ Approvals'
    BY DEF Receipted, Agrees, Replies, Sure, Approvals, Spender, Executing, Alone
  <2>4. EffectSpendsApproval' /\ Reconciled' /\ FinalizedHasEvidence'
    BY DEF EffectSpendsApproval, Reconciled, FinalizedHasEvidence
  <2> QED BY <2>1, <2>2, <2>3, <2>4
<1> QED BY <1>1, StepInv, InitInv, PTL DEF Spec

(* An effect of a class that requires approval leaves it consumed, and a   *)
(* finalized record has its receipt and its audit, whatever crashes, fails *)
(* or is retried (session_coordination.go, mutation_finalization.go).      *)
THEOREM SessionEffectIsRecorded == Spec => []EffectIsRecorded
<1>1. Inv => EffectIsRecorded
  BY DEF Inv, EffectIsRecorded
<1> QED BY <1>1, SessionMutationInvariant, PTL

(* session_retry.go: callers of one operation that are told its outcome    *)
(* without a doubt about durability are told the same one.                 *)
THEOREM SessionOneAnswer == Spec => []OneAnswer
<1>1. Inv => OneAnswer
  <2> SUFFICES ASSUME Inv, NEW c \in Call, NEW d \in Call, reply[c] # None, reply[d] # None,
                      OpOf[c] = OpOf[d], reply[c].sure, reply[d].sure
               PROVE  reply[c].rcpt = reply[d].rcpt
    BY DEF OneAnswer
  <2>1. Sure(c, reply[c].rcpt) /\ Sure(d, reply[d].rcpt)
    BY DEF Inv, Replies
  <2> QED BY <2>1 DEF Sure, Inv, Receipted
<1> QED BY <1>1, SessionMutationInvariant, PTL

-----------------------------------------------------------------------------
(* The refinement of JournaledMutation, first for the initial states.      *)
LEMMA JournalInit == Init => Journal!Init
BY DEF Init, Journal!Init, K

(* What the mapping shows of a key.                                        *)
PhaseOf(k) == IF journal[k] = None THEN "free"
              ELSE IF journal[k].state = "pending" THEN "reserved" ELSE "decided"
AppliedOf(k) == {c \in effects : K(c) = k}
OutcomeOf(k) == IF journal[k] = None \/ journal[k].state = "pending" THEN "open"
                ELSE journal[k].rcpt.effect

(* A step that changes what is shown of no key is a stutter.               *)
LEMMA JournalStutter ==
    ASSUME \A k \in Key : /\ PhaseOf(k)' = PhaseOf(k) /\ AppliedOf(k)' = AppliedOf(k)
                          /\ OutcomeOf(k)' = OutcomeOf(k)
    PROVE  UNCHANGED Journal!vars
BY DEF Journal!vars, PhaseOf, AppliedOf, OutcomeOf, K

(* A change of what is shown of one key, in one of the journal's ways, is  *)
(* a step of the journal.                                                  *)
LEMMA JournalKeyStep ==
    ASSUME NEW k \in Key,
           \A j \in Key \ {k} : /\ PhaseOf(j)' = PhaseOf(j) /\ AppliedOf(j)' = AppliedOf(j)
                                /\ OutcomeOf(j)' = OutcomeOf(j),
           \/ /\ PhaseOf(k) = "free" /\ PhaseOf(k)' = "reserved"
              /\ AppliedOf(k)' = AppliedOf(k) /\ OutcomeOf(k)' = OutcomeOf(k)
           \/ /\ PhaseOf(k) = "reserved" /\ PhaseOf(k)' = "free" /\ AppliedOf(k) = {}
              /\ AppliedOf(k)' = AppliedOf(k) /\ OutcomeOf(k)' = OutcomeOf(k)
           \/ /\ PhaseOf(k) = "reserved" /\ PhaseOf(k)' = "reserved" /\ AppliedOf(k) = {}
              /\ \E c \in Call : AppliedOf(k)' = {c}
              /\ OutcomeOf(k)' = OutcomeOf(k)
           \/ /\ PhaseOf(k) = "reserved" /\ PhaseOf(k)' = "decided"
              /\ AppliedOf(k)' = AppliedOf(k)
              /\ OutcomeOf(k)' \in {"unknown", IF AppliedOf(k) = {} THEN "none" ELSE "applied"}
    PROVE  Journal!Next
<1>1. CASE /\ PhaseOf(k) = "free" /\ PhaseOf(k)' = "reserved"
           /\ AppliedOf(k)' = AppliedOf(k) /\ OutcomeOf(k)' = OutcomeOf(k)
  <2>1. Journal!Reserve(k)
    <3>1. /\ [j \in Key |-> PhaseOf(j)][k] = "free"
          /\ [j \in Key |-> PhaseOf(j)]' = [[j \in Key |-> PhaseOf(j)] EXCEPT ![k] = "reserved"]
          /\ [j \in Key |-> AppliedOf(j)]' = [j \in Key |-> AppliedOf(j)]
          /\ [j \in Key |-> OutcomeOf(j)]' = [j \in Key |-> OutcomeOf(j)]
      BY <1>1
    <3> QED BY <3>1 DEF Journal!Reserve, PhaseOf, AppliedOf, OutcomeOf, K
  <2> QED BY <2>1 DEF Journal!Next
<1>2. CASE /\ PhaseOf(k) = "reserved" /\ PhaseOf(k)' = "free" /\ AppliedOf(k) = {}
           /\ AppliedOf(k)' = AppliedOf(k) /\ OutcomeOf(k)' = OutcomeOf(k)
  <2>1. Journal!Cancel(k)
    <3>1. /\ [j \in Key |-> PhaseOf(j)][k] = "reserved"
          /\ [j \in Key |-> AppliedOf(j)][k] = {}
          /\ [j \in Key |-> PhaseOf(j)]' = [[j \in Key |-> PhaseOf(j)] EXCEPT ![k] = "free"]
          /\ [j \in Key |-> AppliedOf(j)]' = [j \in Key |-> AppliedOf(j)]
          /\ [j \in Key |-> OutcomeOf(j)]' = [j \in Key |-> OutcomeOf(j)]
      BY <1>2
    <3> QED BY <3>1 DEF Journal!Cancel, PhaseOf, AppliedOf, OutcomeOf, K
  <2> QED BY <2>1 DEF Journal!Next
<1>3. CASE /\ PhaseOf(k) = "reserved" /\ PhaseOf(k)' = "reserved" /\ AppliedOf(k) = {}
           /\ \E c \in Call : AppliedOf(k)' = {c}
           /\ OutcomeOf(k)' = OutcomeOf(k)
  <2>1. PICK c \in Call : AppliedOf(k)' = {c}
    BY <1>3
  <2>2. Journal!Apply(k, c)
    <3>1. /\ [j \in Key |-> PhaseOf(j)][k] = "reserved"
          /\ [j \in Key |-> AppliedOf(j)][k] = {}
          /\ [j \in Key |-> PhaseOf(j)]' = [j \in Key |-> PhaseOf(j)]
          /\ [j \in Key |-> AppliedOf(j)]' = [[j \in Key |-> AppliedOf(j)] EXCEPT ![k] = {c}]
          /\ [j \in Key |-> OutcomeOf(j)]' = [j \in Key |-> OutcomeOf(j)]
      BY <1>3, <2>1
    <3> QED BY <3>1 DEF Journal!Apply, PhaseOf, AppliedOf, OutcomeOf, K
  <2> QED BY <2>2 DEF Journal!Next
<1>4. CASE /\ PhaseOf(k) = "reserved" /\ PhaseOf(k)' = "decided"
           /\ AppliedOf(k)' = AppliedOf(k)
           /\ OutcomeOf(k)' \in {"unknown", IF AppliedOf(k) = {} THEN "none" ELSE "applied"}
  <2>1. OutcomeOf(k)' \in {"unknown", Journal!Truth(k)}
    BY <1>4 DEF Journal!Truth, AppliedOf
  <2>2. Journal!Decide(k)
    <3>1. /\ [j \in Key |-> PhaseOf(j)][k] = "reserved"
          /\ [j \in Key |-> PhaseOf(j)]' = [[j \in Key |-> PhaseOf(j)] EXCEPT ![k] = "decided"]
          /\ [j \in Key |-> AppliedOf(j)]' = [j \in Key |-> AppliedOf(j)]
      BY <1>4
    <3>2. [j \in Key |-> OutcomeOf(j)]' = [[j \in Key |-> OutcomeOf(j)] EXCEPT ![k] = OutcomeOf(k)']
      BY <1>4
    <3> QED BY <2>1, <3>1, <3>2 DEF Journal!Decide, PhaseOf, AppliedOf, OutcomeOf, K
  <2> QED BY <2>2 DEF Journal!Next
<1> QED BY <1>1, <1>2, <1>3, <1>4

(* A key whose record is neither made, withdrawn nor decided shows the     *)
(* same, unless its effect happens.                                        *)
LEMMA SameShown ==
    ASSUME NEW k \in Key, UNCHANGED effects,
           \/ journal'[k] = journal[k]
           \/ /\ journal[k] # None /\ journal'[k] # None
              /\ journal[k].state # "pending" /\ journal'[k].state # "pending"
              /\ journal'[k].rcpt = journal[k].rcpt
    PROVE  /\ PhaseOf(k)' = PhaseOf(k) /\ AppliedOf(k)' = AppliedOf(k)
           /\ OutcomeOf(k)' = OutcomeOf(k)
BY DEF PhaseOf, AppliedOf, OutcomeOf, K

(* The step of a call, where it touches the journal or the guest.          *)
LEMMA CallRefines ==
    ASSUME Inv, NEW c \in Call, Step(c), stolen' = {}
    PROVE  Journal!Next \/ UNCHANGED Journal!vars
<1>s. stolen = {}
  BY DEF Step, Arrive, Wait, Lookup, CachedReceipt, ResolveApproval, AcquireLease, Admit, Reserve,
         Create, SyncReservation, Discard, Prepare, Execute, RecordIntent, EnsureReceipt,
         EnsureAudit, MarkFinalized, Replay, Settle, rest
<1>0. /\ journal \in [Key -> Reservation \cup {None}] /\ K(c) \in Key
      /\ RecordOK(K(c)) /\ \A d \in effects : pc[d] \notin Unexecuted /\ Kept(d)
      /\ effects \subseteq Call /\ AtExecution(c) /\ AtIntent(c) /\ AtEvidence(c)
  BY <1>s, Shapes DEF Inv, TypeOK, Records, Effects, EffectOK, Stages
<1>u. ASSUME UNCHANGED <<journal, effects>> PROVE UNCHANGED Journal!vars
  BY <1>u, SameShown, JournalStutter
<1>k. ASSUME UNCHANGED effects, \A k \in Key \ {K(c)} : journal'[k] = journal[k]
      PROVE  \A j \in Key \ {K(c)} :
                /\ PhaseOf(j)' = PhaseOf(j) /\ AppliedOf(j)' = AppliedOf(j)
                /\ OutcomeOf(j)' = OutcomeOf(j)
  BY <1>k, SameShown
<1>1. CASE Arrive(c) \/ Wait(c) \/ Lookup(c) \/ CachedReceipt(c) \/ ResolveApproval(c)
           \/ AcquireLease(c)
  BY <1>1, <1>u DEF Arrive, Wait, Lookup, CachedReceipt, ResolveApproval, AcquireLease, durable
<1>2. CASE Admit(c) \/ EnsureReceipt(c) \/ EnsureAudit(c) \/ Replay(c) \/ Settle(c)
  BY <1>2, <1>u DEF Admit, EnsureReceipt, EnsureAudit, Replay, Settle, durable
<1>r. CASE Reserve(c) \/ SyncReservation(c)
  BY <1>r, <1>u DEF Reserve, SyncReservation, durable
<1>w. ASSUME UNCHANGED effects, journal' = Withdrawn(K(c)), c \notin effects,
             journal[K(c)] \in {None, Marker(c)}
      PROVE  Journal!Next \/ UNCHANGED Journal!vars
  <2>1. /\ \A k \in Key \ {K(c)} : journal'[k] = journal[k]
        /\ journal'[K(c)] = None
    BY <1>0, <1>w DEF Withdrawn
  <2>2. CASE journal[K(c)] = None
    <3>1. \A k \in Key : journal'[k] = journal[k]
      BY <2>1, <2>2
    <3> QED BY <1>w, <3>1, SameShown, JournalStutter
  <2>3. CASE journal[K(c)] = Marker(c)
    <3>2. Marker(c) # None /\ Marker(c).state = "pending" /\ Marker(c).by = c
      BY Shapes, NoneAssumption DEF Marker
    <3>3. AppliedOf(K(c)) = {}
      BY <1>0, <1>w, <2>3, <3>2 DEF AppliedOf, Kept
    <3>4. /\ PhaseOf(K(c)) = "reserved" /\ PhaseOf(K(c))' = "free"
          /\ AppliedOf(K(c))' = AppliedOf(K(c)) /\ OutcomeOf(K(c))' = OutcomeOf(K(c))
      BY <1>w, <2>1, <2>3, <3>2 DEF PhaseOf, AppliedOf, OutcomeOf, K
    <3> QED BY <1>0, <1>k, <1>w, <2>1, <3>3, <3>4, JournalKeyStep
  <2> QED BY <1>w, <2>2, <2>3
<1>3. CASE Create(c)
  <2>1. CASE UNCHANGED journal
    BY <1>3, <2>1, <1>u DEF Create
  <2>2. CASE journal[K(c)] = None /\ journal' = [journal EXCEPT ![K(c)] = Marker(c)]
    <3>1. UNCHANGED effects /\ \A k \in Key \ {K(c)} : journal'[k] = journal[k]
      BY <1>0, <1>3, <2>2 DEF Create
    <3>2. journal'[K(c)] = Marker(c) /\ Marker(c) # None /\ Marker(c).state = "pending"
      BY <1>0, <2>2, Shapes, NoneAssumption DEF Marker
    <3>3. /\ PhaseOf(K(c)) = "free" /\ PhaseOf(K(c))' = "reserved"
          /\ AppliedOf(K(c))' = AppliedOf(K(c)) /\ OutcomeOf(K(c))' = OutcomeOf(K(c))
      BY <2>2, <3>1, <3>2 DEF PhaseOf, AppliedOf, OutcomeOf, K
    <3> QED BY <1>0, <1>k, <3>1, <3>3, JournalKeyStep
  <2> QED BY <1>3, <2>1, <2>2 DEF Create, Replaced
<1>d. CASE Discard(c)
  <2>0. UNCHANGED effects /\ pc[c] = "discard" /\ pc[c] \in Unexecuted
    BY <1>d DEF Discard, At, Unexecuted
  <2>1. CASE UNCHANGED journal
    BY <2>0, <2>1, <1>u
  <2>2. CASE /\ journal' = Withdrawn(K(c))
             /\ stolen' = IF Collides(c) THEN stolen \cup {journal[K(c)].op} ELSE stolen
    <3>1. ~Collides(c)
      BY <2>2
    <3>2. journal[K(c)] \in {None, Marker(c)}
      BY <1>0, <2>0, <3>1 DEF AtExecution, Collides, Unrecorded
    <3> QED BY <1>0, <1>w, <2>0, <2>2, <3>2
  <2> QED BY <1>d, <2>1, <2>2 DEF Discard
<1>4. CASE Prepare(c)
  <2>0. /\ UNCHANGED effects /\ pc[c] = "prepare" /\ pc[c] \in Unexecuted
        /\ journal' = journal \/ journal' = Cancelled(c)
    BY <1>4 DEF Prepare, At, Unexecuted
  <2>1. journal[K(c)] = Marker(c)
    BY <1>0, <1>s, <2>0 DEF AtExecution, Gone
  <2>2. CASE journal' = journal
    BY <2>0, <2>2, <1>u
  <2>3. CASE journal' = Withdrawn(K(c))
    BY <1>0, <1>w, <2>0, <2>1, <2>3
  <2> QED BY <2>0, <2>2, <2>3 DEF Cancelled
<1>5. CASE Execute(c)
  <2>0. UNCHANGED journal /\ effects' \in {effects, effects \cup {c}} /\ pc[c] = "execute"
    BY <1>5 DEF Execute, durable, At
  <2>1. CASE UNCHANGED effects
    BY <2>0, <2>1, <1>u
  <2>2. CASE effects' = effects \cup {c}
    <3>1. /\ journal[K(c)] = Marker(c) /\ Marker(c) # None
          /\ Marker(c).state = "pending" /\ Marker(c).by = c
      BY <1>0, <1>s, <2>0, Shapes, NoneAssumption DEF Marker, AtExecution, Gone
    <3>2. AppliedOf(K(c)) = {}
      BY <1>0, <2>0, <3>1 DEF AppliedOf, Kept, Unexecuted
    <3>3. AppliedOf(K(c))' = {c}
      BY <2>2, <3>2 DEF AppliedOf, K
    <3>4. PhaseOf(K(c)) = "reserved" /\ PhaseOf(K(c))' = "reserved"
          /\ OutcomeOf(K(c))' = OutcomeOf(K(c))
      BY <2>0, <3>1 DEF PhaseOf, OutcomeOf, K
    <3>5. \A j \in Key \ {K(c)} :
                /\ PhaseOf(j)' = PhaseOf(j) /\ AppliedOf(j)' = AppliedOf(j)
                /\ OutcomeOf(j)' = OutcomeOf(j)
      BY <2>0, <2>2 DEF PhaseOf, AppliedOf, OutcomeOf, K
    <3> QED BY <1>0, <3>2, <3>3, <3>4, <3>5, JournalKeyStep
  <2> QED BY <2>0, <2>1, <2>2
<1>6. CASE RecordIntent(c)
  <2> DEFINE r == journal[K(c)]
             s == [r EXCEPT !.state = "finalizing", !.rcpt = plan[c]]
  <2>1. CASE UNCHANGED journal
    BY <1>6, <2>1, <1>u DEF RecordIntent
  <2>2. CASE r # None /\ r.state = "pending" /\ journal' = Replaced(K(c), s)
    <3>0. /\ r \in Reservation /\ plan[c] \in Receipt /\ plan[c].op = r.op
          /\ plan[c].effect # "unknown" =>
                r.by = c /\ (plan[c].effect = "applied" <=> c \in effects)
          /\ plan[c].effect \in {"applied", "none", "unknown"}
      BY <1>0, <1>s, <1>6, <2>2 DEF RecordIntent, At, AtIntent, Recorded, Gone, Receipt, Effect
    <3>1. s # None /\ s.state = "finalizing" /\ s.rcpt = plan[c]
      BY <3>0, DecideShape, Zenon
    <3> HIDE DEF s
    <3>2. /\ UNCHANGED effects /\ \A k \in Key \ {K(c)} : journal'[k] = journal[k]
          /\ journal'[K(c)] = s
      BY <1>0, <1>6, <2>2 DEF RecordIntent, Replaced
    <3>3. /\ PhaseOf(K(c)) = "reserved" /\ PhaseOf(K(c))' = "decided"
          /\ AppliedOf(K(c))' = AppliedOf(K(c)) /\ OutcomeOf(K(c))' = plan[c].effect
      BY <2>2, <3>1, <3>2 DEF PhaseOf, AppliedOf, OutcomeOf, K
    <3>4. plan[c].effect = "none" => AppliedOf(K(c)) = {}
      BY <1>0, <3>0 DEF AppliedOf, Kept
    <3>5. plan[c].effect = "applied" => AppliedOf(K(c)) # {}
      BY <3>0 DEF AppliedOf
    <3>6. OutcomeOf(K(c))' \in {"unknown", IF AppliedOf(K(c)) = {} THEN "none" ELSE "applied"}
      BY <3>0, <3>3, <3>4, <3>5
    <3> QED BY <1>0, <1>k, <3>2, <3>3, <3>6, JournalKeyStep
  <2> QED BY <1>6, <2>1, <2>2 DEF RecordIntent
<1>7. CASE MarkFinalized(c)
  <2> DEFINE r == journal[K(c)]
             s == [r EXCEPT !.state = "finalized"]
  <2>1. CASE UNCHANGED journal
    BY <1>7, <2>1, <1>u DEF MarkFinalized
  <2>2. CASE r # None /\ r.state # "pending" /\ journal' = Replaced(K(c), s)
    <3>1. s # None /\ s.state = "finalized" /\ s.rcpt = r.rcpt
      BY <1>0, <2>2, MarkShape
    <3> HIDE DEF s
    <3>2. /\ UNCHANGED effects /\ \A k \in Key \ {K(c)} : journal'[k] = journal[k]
          /\ journal'[K(c)] = s
      BY <1>0, <1>7, <2>2 DEF MarkFinalized, Replaced
    <3> QED BY <2>2, <3>1, <3>2, SameShown, JournalStutter
  <2> QED BY <1>7, <2>1, <2>2 DEF MarkFinalized
<1> QED BY <1>1, <1>2, <1>r, <1>3, <1>d, <1>4, <1>5, <1>6, <1>7 DEF Step

(* The steps of the startup reconciliation: it decides as unknown.         *)
LEMMA BootRefines ==
    ASSUME Inv, Booting
    PROVE  Journal!Next \/ UNCHANGED Journal!vars
<1>0. journal \in [Key -> Reservation \cup {None}] /\ Reconciled
  BY DEF Inv, TypeOK
<1>1. CASE BootStart \/ BootAudit \/ BootServe
  <2>1. UNCHANGED <<journal, effects>>
    BY <1>1 DEF BootStart, BootAudit, BootServe, durable, calls
  <2> QED BY <2>1, SameShown, JournalStutter
<1>2. ASSUME NEW k \in Key, BootRecord(k) PROVE Journal!Next \/ UNCHANGED Journal!vars
  <2> DEFINE r == journal[k]
             p == Interrupted(crashes, r.op)
             s == [r EXCEPT !.state = "finalizing", !.rcpt = p]
  <2>0. UNCHANGED effects /\ r # None /\ r \in Reservation
    BY <1>0, <1>2 DEF BootRecord, calls, Reconciled
  <2>1. CASE UNCHANGED journal
    BY <2>0, <2>1, SameShown, JournalStutter
  <2>2. CASE r.state # "pending" /\ journal' = Replaced(k, r)
    <3>1. \A j \in Key : journal'[j] = journal[j]
      BY <1>0, <2>2 DEF Replaced
    <3> QED BY <2>0, <3>1, SameShown, JournalStutter
  <2>3. CASE r.state = "pending" /\ journal' = Replaced(k, s)
    <3>1. p \in Receipt /\ p.op = r.op /\ p.effect = "unknown"
      BY <2>0, Shapes DEF Inv, TypeOK, Interrupted
    <3>2. s # None /\ s.state = "finalizing" /\ s.rcpt = p
      BY <2>0, <3>1, DecideShape, Zenon
    <3> HIDE DEF s, p
    <3>3. /\ \A j \in Key \ {k} : journal'[j] = journal[j]
          /\ journal'[k] = s
      BY <1>0, <2>3 DEF Replaced
    <3>4. /\ PhaseOf(k) = "reserved" /\ PhaseOf(k)' = "decided"
          /\ AppliedOf(k)' = AppliedOf(k) /\ OutcomeOf(k)' = "unknown"
      BY <2>0, <2>3, <3>1, <3>2, <3>3 DEF PhaseOf, AppliedOf, OutcomeOf, K
    <3>5. \A j \in Key \ {k} : /\ PhaseOf(j)' = PhaseOf(j) /\ AppliedOf(j)' = AppliedOf(j)
                               /\ OutcomeOf(j)' = OutcomeOf(j)
      BY <2>0, <3>3, SameShown
    <3> QED BY <3>4, <3>5, JournalKeyStep
  <2> QED BY <1>2, <2>1, <2>2, <2>3 DEF BootRecord
<1>3. ASSUME NEW k \in Key, BootMark(k) PROVE Journal!Next \/ UNCHANGED Journal!vars
  <2> DEFINE r == journal[k]
             s == [r EXCEPT !.state = "finalized"]
  <2>0. UNCHANGED effects /\ r # None /\ r \in Reservation /\ r.state # "pending"
    BY <1>0, <1>3 DEF BootMark, calls, Reconciled
  <2>1. CASE UNCHANGED journal
    BY <2>0, <2>1, SameShown, JournalStutter
  <2>2. CASE journal' = [journal EXCEPT ![k] = s]
    <3>1. s # None /\ s.state = "finalized" /\ s.rcpt = r.rcpt
      BY <2>0, MarkShape
    <3> HIDE DEF s
    <3>2. /\ \A j \in Key \ {k} : journal'[j] = journal[j]
          /\ journal'[k] = s
      BY <1>0, <2>2
    <3> QED BY <2>0, <3>1, <3>2, SameShown, JournalStutter
  <2> QED BY <1>3, <2>1, <2>2 DEF BootMark
<1> QED BY <1>1, <1>2, <1>3 DEF Booting

(* The session journal implements JournaledMutation: under one idempotency *)
(* key the guest sees at most one effect, under a reservation, and the     *)
(* verdict of the record is taken once and is true or unknown, through     *)
(* any retries, crashes and failed writes, as long as no call has removed  *)
(* the record of another operation (mutation_journal.go:280-283).          *)
THEOREM SessionRefinesJournal == Spec => JournalRefined
<1>1. Inv /\ [Next]_vars => [stolen' = {} => Journal!Next]_(Journal!vars)
  <2> SUFFICES ASSUME Inv, [Next]_vars, stolen' = {}
               PROVE  Journal!Next \/ UNCHANGED Journal!vars
    OBVIOUS
  <2>1. CASE \E c \in Call : Step(c)
    BY <2>1, CallRefines
  <2>2. CASE Booting
    BY <2>2, BootRefines
  <2>3. CASE Crash \/ (\E c \in Call : EndContext(c)) \/ UNCHANGED vars
    <3>1. UNCHANGED <<journal, effects>>
      BY <2>3 DEF Crash, EndContext, durable, vars
    <3> QED BY <3>1, SameShown, JournalStutter
  <2> QED BY <2>1, <2>2, <2>3 DEF Next
<1> QED BY <1>1, JournalInit, SessionMutationInvariant, PTL DEF Spec, JournalRefined
=============================================================================
