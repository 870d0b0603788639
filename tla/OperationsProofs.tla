-------------------------- MODULE OperationsProofs --------------------------
(***************************************************************************)
(* Proofs about Operations for any submissions, keys, cancellations and    *)
(* crashes, any capacity and any windows, with and without failing writes. *)
(***************************************************************************)
EXTENDS Operations, TLAPS, FiniteSetTheorems, SequenceTheorems, WellFoundedInduction

Recs == Op \X {"own", "real", "synthetic"}
In(x, s) == \E i \in 1 .. Len(s) : s[i] = x
Insert(s, i, r) == SubSeq(s, 1, i) \o <<r>> \o SubSeq(s, i + 1, Len(s))
Recorded(o) == In(<<o, "own">>, born)

(* The goroutines are counted, and a stopped daemon has none.              *)
Running == {o \in Op : pc[o] \in Live}
Counted == IsFiniteSet(Running) /\ used = Cardinality(Running)
Quiet == /\ ~Up => \A o \in Op : pc[o] \in {"new", "done", "gone"}
         /\ daemon = "drained" => \A o \in Op : pc[o] \notin Live

(* liveCancels and inFlight are the goroutines that have not unregistered. *)
Tracked == /\ \A o \in Op : o \in cancels <=> pc[o] \in Executing
           /\ \A o \in Op : pc[o] \in Executing <=> inFlight[KeyOf[o]] = o
           /\ \A k \in Key : inFlight[k] # None => KeyOf[inFlight[k]] = k

(* Whatever has a state, a receipt or a goroutine has its record among     *)
(* those listed; a submission not yet decided has none of them.            *)
OnRecord == /\ \A o \in Op : disk[o] # "none" <=> Recorded(o)
            /\ \A o \in Op : real[o] # "none" \/ o \in synth => Recorded(o)
            /\ \A o \in Op : pc[o] \in Live \/ scan = o => disk[o] # "none"
            /\ \A o \in Op : pc[o] \in {"new", "submitting"} => ~Recorded(o)
            /\ \A c \in Canceller : cpc[c] \in {"read", "receipt", "save"} =>
                   disk[CancelOf[c]] # "none"

Inv == TypeOK /\ Counted /\ Quiet /\ Tracked /\ OnRecord /\ SweepReachesAll

(* An unfinished record has its goroutine, which saves before it leaves.   *)
Remembered == Up /\ ~faulty => \A o \in Op :
    /\ disk[o] \in States \ Terminal => pc[o] \in Executing
    /\ pc[o] \in {"saved", "published", "leaving"} => disk[o] \in Terminal

(* Submit has told its caller of the operation: until the save of its      *)
(* terminal record it runs.                                                *)
Promised == \A o \in Op : answer[o] = <<o, "none">> =>
    /\ disk[o] # "none"
    /\ Up => \/ pc[o] \in {"start", "admitted", "running", "provider", "returned"}
             \/ disk[o] \in Terminal
             \/ o \in finErrs

Kept == Remembered /\ Promised

(* A receipt under the key, or the record a reconciliation has to settle,  *)
(* is left of every dispatch.                                              *)
Receipt(o) == real[o] # "none" \/ o \in synth
Traced == /\ \A o \in dispatched : Recorded(o)
          /\ ~faulty => \A o \in dispatched :
                 Receipt(o) \/ (disk[o] \notin Terminal /\ (Up => pc[o] = "provider"))
          /\ \A o \in Op : pc[o] \in {"start", "admitted", "running"} /\ disk[o] \in Terminal
                 => o \in synth
          /\ \A c \in Canceller : cpc[c] = "save" => CancelOf[c] \in synth
          /\ \A o \in Op : scan = o => o \in synth

(* The operation of a key that may still dispatch, or has.  A second one   *)
(* of the key is admitted only when the first is over, has lost its        *)
(* receipt and is older than the window of Submit.                         *)
Active(o) == pc[o] \in {"start", "admitted", "running"} \/ o \in dispatched
Lost(o) == faulty /\ o \in dispatched /\ pc[o] \notin Executing /\ real[o] = "none"
Unique == \A o, q \in Op : \A i, j \in 1 .. Len(born) :
    /\ i < j /\ o # q /\ born[i] = <<o, "own">> /\ born[j] = <<q, "own">>
    /\ Active(o) /\ Active(q) /\ KeyOf[o] = KeyOf[q]
    => Lost(o) /\ j - i > ListLimit

(* Records of t that operations own stand in t as far apart as in s, or    *)
(* farther.                                                                *)
Spread(s, t) == \A o, q \in Op : \A i, j \in 1 .. Len(t) :
    i < j /\ t[i] = <<o, "own">> /\ t[j] = <<q, "own">> =>
        \E h, k \in 1 .. Len(s) :
            h < k /\ s[h] = <<o, "own">> /\ s[k] = <<q, "own">> /\ k - h <= j - i

(* The newest records the reconciliation reads are all there are.          *)
Covered == Len(born) <= ScanLimit

----------------------------------------------------------------------------
(* Lemmas about the list of records.                                       *)

(* store.go: a record dated between two others takes its place in the list *)
(* and displaces nothing.                                                  *)
LEMMA Inserted ==
    ASSUME NEW S, NEW s \in Seq(S), NEW r \in S, NEW i \in 0 .. Len(s)
    PROVE  /\ Insert(s, i, r) \in Seq(S)
           /\ \A x : In(x, Insert(s, i, r)) <=> In(x, s) \/ x = r
           /\ Len(Insert(s, i, r)) = Len(s) + 1
           /\ \A j \in 1 .. Len(s) + 1 : Insert(s, i, r)[j] =
                  IF j <= i THEN s[j] ELSE IF j = i + 1 THEN r ELSE s[j - 1]
<1> DEFINE t == Insert(s, i, r)
           a == SubSeq(s, 1, i)
           b == SubSeq(s, i + 1, Len(s))
<1>1. /\ a \in Seq(S) /\ Len(a) = i /\ \A j \in 1 .. i : a[j] = s[j]
      /\ b \in Seq(S) /\ Len(b) = Len(s) - i /\ \A j \in 1 .. Len(s) - i : b[j] = s[i + j]
  <2>1. Len(s) \in Nat /\ \A j \in 1 .. Len(s) : s[j] \in S
    OBVIOUS
  <2>2. /\ a \in Seq(S) /\ Len(a) = (IF 1 <= i THEN i - 1 + 1 ELSE 0)
        /\ \A j \in 1 .. i - 1 + 1 : a[j] = s[1 + j - 1]
    BY <2>1, SubSeqProperties
  <2>3. /\ b \in Seq(S)
        /\ Len(b) = (IF i + 1 <= Len(s) THEN Len(s) - (i + 1) + 1 ELSE 0)
        /\ \A j \in 1 .. Len(s) - (i + 1) + 1 : b[j] = s[i + 1 + j - 1]
    BY <2>1, SubSeqProperties
  <2> HIDE DEF a, b
  <2> QED BY <2>1, <2>2, <2>3
<1>2. <<r>> \in Seq(S) /\ Len(<<r>>) = 1 /\ <<r>>[1] = r
  OBVIOUS
<1> HIDE DEF a, b
<1>3. t = a \o <<r>> \o b
  BY DEF a, b, Insert
<1> HIDE DEF t
<1> DEFINE ar == a \o <<r>>
<1>9. /\ ar \in Seq(S) /\ Len(ar) = i + 1
      /\ \A j \in 1 .. i + 1 : ar[j] = IF j <= i THEN s[j] ELSE r
  <2>1. /\ ar \in Seq(S) /\ Len(ar) = Len(a) + Len(<<r>>)
        /\ \A j \in 1 .. Len(a) + Len(<<r>>) : ar[j] = IF j <= Len(a) THEN a[j] ELSE <<r>>[j - Len(a)]
    BY <1>1, <1>2, ConcatProperties
  <2> HIDE DEF ar
  <2> QED BY <1>1, <1>2, <2>1
<1>10. /\ t \in Seq(S) /\ Len(t) = Len(ar) + Len(b)
       /\ \A j \in 1 .. Len(ar) + Len(b) : t[j] = IF j <= Len(ar) THEN ar[j] ELSE b[j - Len(ar)]
  BY <1>1, <1>3, <1>9, ConcatProperties
<1> HIDE DEF ar
<1>4. t \in Seq(S) /\ Len(t) = Len(s) + 1
  BY <1>1, <1>9, <1>10
<1>5. \A j \in 1 .. Len(t) : t[j] = IF j <= i THEN s[j] ELSE IF j = i + 1 THEN r ELSE s[j - 1]
  <2> SUFFICES ASSUME NEW j \in 1 .. Len(t)
               PROVE  t[j] = IF j <= i THEN s[j] ELSE IF j = i + 1 THEN r ELSE s[j - 1]
    OBVIOUS
  <2>1. t[j] = IF j <= i + 1 THEN ar[j] ELSE b[j - (i + 1)] BY <1>1, <1>4, <1>9, <1>10
  <2>2. CASE j <= i + 1 BY <1>4, <1>9, <2>1, <2>2
  <2>3. CASE j > i + 1
    <3>1. j - (i + 1) \in 1 .. Len(s) - i /\ i + (j - (i + 1)) = j - 1 BY <1>4, <2>3
    <3>2. b[j - (i + 1)] = s[j - 1] BY <1>1, <3>1
    <3> QED BY <2>1, <2>3, <3>2
  <2> QED BY <1>4, <2>2, <2>3
<1>6. ASSUME NEW x, In(x, s) PROVE In(x, t)
  <2>1. PICK j \in 1 .. Len(s) : s[j] = x BY <1>6 DEF In
  <2>2. CASE j <= i BY <2>1, <2>2, <1>4, <1>5 DEF In
  <2>3. CASE j > i
    <3>1. j + 1 \in 1 .. Len(t) /\ t[j + 1] = x BY <2>1, <2>3, <1>4, <1>5
    <3> QED BY <3>1 DEF In
  <2> QED BY <2>2, <2>3
<1>7. In(r, t)
  <2>1. i + 1 \in 1 .. Len(t) /\ t[i + 1] = r BY <1>4, <1>5
  <2> QED BY <2>1 DEF In
<1>8. ASSUME NEW x, In(x, t) PROVE In(x, s) \/ x = r
  <2>1. PICK j \in 1 .. Len(t) : t[j] = x BY <1>8 DEF In
  <2>2. CASE j <= i BY <2>1, <2>2, <1>4, <1>5 DEF In
  <2>3. CASE j = i + 1 BY <2>1, <2>3, <1>4, <1>5
  <2>4. CASE j > i + 1
    <3>1. j - 1 \in 1 .. Len(s) /\ s[j - 1] = x BY <2>1, <2>4, <1>4, <1>5
    <3> QED BY <3>1 DEF In
  <2> QED BY <2>2, <2>3, <2>4
<1> QED BY <1>4, <1>5, <1>6, <1>7, <1>8 DEF t

(* manager.go, initializeNewRecord: a new record is added to the list.     *)
LEMMA Appended ==
    ASSUME NEW S, NEW s \in Seq(S), NEW r \in S
    PROVE  /\ Append(s, r) \in Seq(S)
           /\ \A x : In(x, Append(s, r)) <=> In(x, s) \/ x = r
<1> DEFINE t == Append(s, r)
<1>1. t \in Seq(S) /\ Len(t) = Len(s) + 1 /\ t[Len(s) + 1] = r
      /\ \A j \in 1 .. Len(s) : t[j] = s[j]
  OBVIOUS
<1> HIDE DEF t
<1>2. ASSUME NEW x, In(x, s) \/ x = r PROVE In(x, t)
  <2>1. Len(s) + 1 \in 1 .. Len(t) BY <1>1
  <2> QED BY <1>1, <1>2, <2>1 DEF In
<1>3. ASSUME NEW x, In(x, t) PROVE In(x, s) \/ x = r
  <2>1. PICK j \in 1 .. Len(t) : t[j] = x BY <1>3 DEF In
  <2>2. CASE j = Len(s) + 1 BY <1>1, <2>1, <2>2
  <2>3. CASE j \in 1 .. Len(s) BY <1>1, <2>1, <2>3 DEF In
  <2> QED BY <1>1, <2>2, <2>3
<1> QED BY <1>1, <1>2, <1>3 DEF t

(* manager_cached.go, saveReconstructedRecord: the record rebuilt of the   *)
(* receipt of a recorded operation is the only one it adds.                *)
LEMMA RebuiltGrows ==
    ASSUME born \in Seq(Recs), NEW o \in Op, Recorded(o),
           NEW l \in {"real", "synthetic"}, NEW b \in Rebuilt(<<o, l>>)
    PROVE  /\ b \in Seq(Recs)
           /\ \A x : In(x, born) => In(x, b)
           /\ \A q \in Op : In(<<q, "own">>, b) => Recorded(q)
           /\ Spread(born, b)
<1> DEFINE own == CHOOSE i \in 1 .. Len(born) : born[i] = <<o, "own">>
<1>1. own \in 1 .. Len(born)
  BY DEF Recorded, In
<1>2. <<o, l>> \in Recs
  BY DEF Recs
<1> HIDE DEF own
<1>3. b = born \/ \E i \in 0 .. Len(born) :
          b = Insert(born, i, <<o, l>>)
  <2> DEFINE after == IF l = "synthetic" THEN {own - 1, own} ELSE own .. Len(born)
  <2>1. after \subseteq 0 .. Len(born) BY <1>1
  <2>2. b \in (IF \E i \in 1 .. Len(born) : born[i] = <<o, l>> THEN {born}
               ELSE {Insert(born, i, <<o, l>>) : i \in after})
    BY DEF Rebuilt, own, Insert
  <2> HIDE DEF after
  <2> QED BY <2>1, <2>2
<1>4. CASE b = born
  <2>1. Spread(born, born) BY DEF Spread
  <2> QED BY <1>4, <2>1 DEF Recorded
<1>5. ASSUME NEW i \in 0 .. Len(born),
             b = Insert(born, i, <<o, l>>)
      PROVE  /\ b \in Seq(Recs)
             /\ \A x : In(x, b) <=> In(x, born) \/ x = <<o, l>>
             /\ Spread(born, b)
  <2>1. /\ b \in Seq(Recs) /\ Len(b) = Len(born) + 1
        /\ \A x : In(x, b) <=> In(x, born) \/ x = <<o, l>>
        /\ \A j \in 1 .. Len(born) + 1 :
               b[j] = IF j <= i THEN born[j] ELSE IF j = i + 1 THEN <<o, l>> ELSE born[j - 1]
    <3>1. PICK r \in Recs : r = <<o, l>> BY <1>2
    <3>2. b = Insert(born, i, r) BY <1>5, <3>1
    <3>3. /\ b \in Seq(Recs) /\ Len(b) = Len(born) + 1
          /\ \A x : In(x, b) <=> In(x, born) \/ x = r
      BY <3>2, Inserted
    <3>4. \A j \in 1 .. Len(born) + 1 : Insert(born, i, r)[j] =
              IF j <= i THEN born[j] ELSE IF j = i + 1 THEN r ELSE born[j - 1]
      BY Inserted
    <3> QED BY <3>1, <3>2, <3>3, <3>4
  <2>2. Len(born) \in Nat OBVIOUS
  <2>3. Spread(born, b)
    <3> SUFFICES ASSUME NEW p \in Op, NEW q \in Op, NEW m \in 1 .. Len(b), NEW n \in 1 .. Len(b),
                        m < n, b[m] = <<p, "own">>, b[n] = <<q, "own">>
                 PROVE  \E h, k \in 1 .. Len(born) :
                           /\ h < k /\ born[h] = <<p, "own">> /\ born[k] = <<q, "own">>
                           /\ k - h <= n - m
      BY DEF Spread
    <3> DEFINE h == IF m <= i THEN m ELSE m - 1
               k == IF n <= i THEN n ELSE n - 1
    <3>6. l # "own" OBVIOUS
    <3>1. <<o, l>> # <<p, "own">> /\ <<o, l>> # <<q, "own">> BY <3>6
    <3>7. b[i + 1] = <<o, l>> BY <2>1, <2>2
    <3>2. m # i + 1 /\ n # i + 1 BY <3>1, <3>7
    <3>3. h \in 1 .. Len(born) /\ k \in 1 .. Len(born) /\ h < k /\ k - h <= n - m
      BY <2>1, <2>2, <3>2
    <3>4. born[h] = <<p, "own">> BY <2>1, <2>2, <3>2
    <3>5. born[k] = <<q, "own">> BY <2>1, <2>2, <3>2
    <3> HIDE DEF h, k
    <3> QED BY <3>3, <3>4, <3>5
  <2> QED BY <2>1, <2>3
<1> QED BY <1>3, <1>4, <1>5 DEF Recorded

----------------------------------------------------------------------------
(* The bookkeeping of the manager.                                         *)

(* A manager that has seen no submission.                                  *)
LEMMA InitInv == Init => Inv
<1> SUFFICES ASSUME Init PROVE Inv
  OBVIOUS
<1> USE OperationsAssumption DEF Init
<1>1. TypeOK BY DEF TypeOK, States, Terminal, PCs, Links
<1>2. Running = {} BY DEF Running, Live, Executing
<1>3. Counted BY <1>2, FS_EmptySet DEF Counted
<1>4. Quiet /\ SweepReachesAll BY DEF Quiet, SweepReachesAll, Up
<1>5. Tracked BY DEF Tracked, Executing
<1>6. OnRecord BY DEF OnRecord, Recorded, In, Live, Executing
<1> QED BY <1>1, <1>3, <1>4, <1>5, <1>6 DEF Inv

(* reserveCapacity and the deferred release: a slot is taken for a         *)
(* goroutine that starts and freed by the one that leaves.                 *)
LEMMA CountedStep ==
    ASSUME TypeOK, Counted, NEW o \in Op, NEW l \in PCs, pc' = [pc EXCEPT ![o] = l]
    PROVE  /\ (pc[o] \in Live <=> l \in Live) /\ used' = used => Counted'
           /\ pc[o] \notin Live /\ l \in Live /\ used' = used + 1 => Counted'
           /\ pc[o] \in Live /\ l \notin Live /\ used' = used - 1 => Counted'
           /\ pc[o] \in Live => used > 0
<1>0. pc \in [Op -> PCs] BY DEF TypeOK
<1>4. ASSUME pc[o] \in Live PROVE used > 0
  <2>1. o \in Running BY <1>4 DEF Running
  <2> QED BY <2>1, FS_EmptySet DEF Counted, TypeOK
<1>1. CASE pc[o] \in Live <=> l \in Live
  <2>1. Running' = Running BY <1>0, <1>1 DEF Running
  <2> QED BY <1>1, <1>4, <2>1 DEF Counted
<1>2. CASE pc[o] \notin Live /\ l \in Live
  <2>1. Running' = Running \cup {o} /\ o \notin Running BY <1>0, <1>2 DEF Running
  <2> QED BY <1>2, <1>4, <2>1, FS_AddElement DEF Counted
<1>3. CASE pc[o] \in Live /\ l \notin Live
  <2>1. Running' = Running \ {o} /\ o \in Running BY <1>0, <1>3 DEF Running
  <2> QED BY <1>3, <1>4, <2>1, FS_RemoveElement DEF Counted
<1> QED BY <1>1, <1>2, <1>3, <1>4

(* executeOperation and its mutation keep the invariant.                   *)
LEMMA ExecuteInv ==
    ASSUME Inv, NEW o \in Op, Execute(o) \/ ProviderReturns(o) \/ Deadline(o)
    PROVE  Inv'
<1>a. /\ KeyOf \in [Op -> Key] /\ CancelOf \in [Canceller -> Op]
      /\ Capacity \in Nat /\ MaxCrashes \in Nat /\ None \notin Op
  BY OperationsAssumption
<1> USE <1>a DEF Inv, At, Goto, SaveRecord, memory, others, records, Execute
<1>1. CASE Hook(o, "start", "admitted") \/ Hook(o, "admitted", "running")
  <2>1. TypeOK'
    BY <1>1 DEF Hook, TypeOK, PCs, Live, Executing, States, Terminal, Links, Up
  <2>2. Counted'
    BY <1>1, CountedStep DEF Hook, PCs, Live, Executing
  <2>3. Quiet'
    BY <1>1 DEF Hook, Quiet, TypeOK, Up, Live, Executing
  <2>4. Tracked'
    <3>1. pc[o] \in Executing /\ \E l \in Executing : pc' = [pc EXCEPT ![o] = l]
      BY <1>1 DEF Hook, Executing
    <3>2. UNCHANGED <<cancels, inFlight>> BY <1>1 DEF Hook
    <3> QED BY <3>1, <3>2 DEF Tracked, TypeOK
  <2>5. OnRecord'
    BY <1>1 DEF Hook, OnRecord, TypeOK, Recorded, Live, Executing
  <2>6. SweepReachesAll'
    BY <1>1 DEF Hook, SweepReachesAll, TypeOK, Up, Executing, Tracked
  <2> QED BY <2>1, <2>2, <2>3, <2>4, <2>5, <2>6
<1>2. CASE FailEarly(o)
  <2>1. TypeOK'
    BY <1>2 DEF FailEarly, TypeOK, PCs, Live, Executing, States, Terminal, Links, Up
  <2>2. Counted'
    BY <1>2, CountedStep DEF FailEarly, PCs, Live, Executing
  <2>3. Quiet'
    BY <1>2 DEF FailEarly, Quiet, TypeOK, Up, Live, Executing
  <2>4. Tracked'
    BY <1>2 DEF FailEarly, Tracked, TypeOK, Executing
  <2>5. OnRecord'
    BY <1>2 DEF FailEarly, OnRecord, TypeOK, Recorded, Live, Executing
  <2>6. SweepReachesAll'
    BY <1>2 DEF FailEarly, SweepReachesAll, TypeOK, Up, Executing, Tracked
  <2> QED BY <2>1, <2>2, <2>3, <2>4, <2>5, <2>6
<1>3. CASE Dispatch(o)
  <2>1. TypeOK'
    BY <1>3 DEF Dispatch, TypeOK, PCs, Live, Executing, States, Terminal, Links, Up
  <2>2. Counted'
    BY <1>3, CountedStep DEF Dispatch, PCs, Live, Executing
  <2>3. Quiet'
    BY <1>3 DEF Dispatch, Quiet, TypeOK, Up, Live, Executing
  <2>4. Tracked'
    BY <1>3 DEF Dispatch, Tracked, TypeOK, Executing
  <2>5. OnRecord'
    BY <1>3 DEF Dispatch, OnRecord, TypeOK, Recorded, Live, Executing
  <2>6. SweepReachesAll'
    BY <1>3 DEF Dispatch, SweepReachesAll, TypeOK, Up, Executing, Tracked
  <2> QED BY <2>1, <2>2, <2>3, <2>4, <2>5, <2>6
<1>4. CASE ProviderReturns(o)
  <2>1. TypeOK'
    <3>1. real' \in [Op -> {"none", "success", "failed", "aborted", "denied"}]
      BY <1>4 DEF ProviderReturns, TypeOK
    <3>2. result' \in [Op -> {"none", "ok", "error", "bare"}]
      BY <1>4 DEF ProviderReturns, TypeOK
    <3> QED BY <1>4, <3>1, <3>2 DEF ProviderReturns, TypeOK, PCs, Live, Executing
  <2>2. Counted'
    BY <1>4, CountedStep DEF ProviderReturns, PCs, Live, Executing
  <2>3. Quiet'
    BY <1>4 DEF ProviderReturns, Quiet, TypeOK, Up, Live, Executing
  <2>4. Tracked'
    BY <1>4 DEF ProviderReturns, Tracked, TypeOK, Executing
  <2>5. OnRecord'
    BY <1>4 DEF ProviderReturns, OnRecord, TypeOK, Recorded, Live, Executing
  <2>6. SweepReachesAll'
    BY <1>4 DEF ProviderReturns, SweepReachesAll, TypeOK, Up, Executing, Tracked
  <2> QED BY <2>1, <2>2, <2>3, <2>4, <2>5, <2>6
<1>5. CASE SaveFinal(o)
  <2>1. TypeOK'
    <3>1. disk' \in [Op -> States \cup {"none"}]
      BY <1>5 DEF SaveFinal, FinalState, TypeOK, States, Terminal
    <3>2. link' \in [Op -> Links] BY <1>5 DEF SaveFinal, TypeOK, Links
    <3>3. finErrs' \subseteq Op BY <1>5 DEF SaveFinal, TypeOK
    <3>4. pc' \in [Op -> PCs] BY <1>5 DEF SaveFinal, TypeOK, PCs, Live, Executing
    <3> QED BY <1>5, <3>1, <3>2, <3>3, <3>4 DEF SaveFinal, TypeOK
  <2>2. Counted'
    BY <1>5, CountedStep DEF SaveFinal, FinalState, PCs, Live, Executing
  <2>3. Quiet'
    BY <1>5 DEF SaveFinal, FinalState, Quiet, TypeOK, Up, Live, Executing
  <2>4. Tracked'
    BY <1>5 DEF SaveFinal, FinalState, Tracked, TypeOK, Executing
  <2>5. OnRecord'
    BY <1>5 DEF SaveFinal, FinalState, OnRecord, TypeOK, Recorded, Live, Executing
  <2>6. SweepReachesAll'
    BY <1>5 DEF SaveFinal, FinalState, SweepReachesAll, TypeOK, Up, Executing, Tracked
  <2> QED BY <2>1, <2>2, <2>3, <2>4, <2>5, <2>6
<1>6. CASE PublishFinal(o)
  <2>1. TypeOK'
    BY <1>6 DEF PublishFinal, TypeOK, PCs, Live, Executing, States, Terminal, Links, Up
  <2>2. Counted'
    BY <1>6, CountedStep DEF PublishFinal, PCs, Live, Executing
  <2>3. Quiet'
    BY <1>6 DEF PublishFinal, Quiet, TypeOK, Up, Live, Executing
  <2>4. Tracked'
    BY <1>6 DEF PublishFinal, Tracked, TypeOK, Executing
  <2>5. OnRecord'
    BY <1>6 DEF PublishFinal, OnRecord, TypeOK, Recorded, Live, Executing
  <2>6. SweepReachesAll'
    BY <1>6 DEF PublishFinal, SweepReachesAll, TypeOK, Up, Executing, Tracked
  <2> QED BY <2>1, <2>2, <2>3, <2>4, <2>5, <2>6
<1>7. CASE Unregister(o)
  <2>1. TypeOK'
    BY <1>7 DEF Unregister, TypeOK, PCs, Live, Executing, States, Terminal, Links, Up
  <2>2. Counted'
    BY <1>7, CountedStep DEF Unregister, PCs, Live, Executing
  <2>3. Quiet'
    BY <1>7 DEF Unregister, Quiet, TypeOK, Up, Live, Executing
  <2>4. Tracked'
    BY <1>7 DEF Unregister, Tracked, TypeOK, Executing
  <2>5. OnRecord'
    BY <1>7 DEF Unregister, OnRecord, TypeOK, Recorded, Live, Executing
  <2>6. SweepReachesAll'
    BY <1>7 DEF Unregister, SweepReachesAll, TypeOK, Up, Executing, Tracked
  <2> QED BY <2>1, <2>2, <2>3, <2>4, <2>5, <2>6
<1>8. CASE Leave(o)
  <2>1. TypeOK'
    <3>1. used > 0 BY <1>8, CountedStep DEF Leave, Live, PCs
    <3> QED BY <1>8, <3>1 DEF Leave, TypeOK, PCs
  <2>2. Counted'
    <3>1. pc[o] \in Live /\ "gone" \in PCs \ Live BY <1>8 DEF Leave, PCs, Live, Executing
    <3>2. pc' = [pc EXCEPT ![o] = "gone"] /\ used' = used - 1 BY <1>8 DEF Leave
    <3> QED BY <3>1, <3>2, CountedStep
  <2>3. Quiet'
    BY <1>8 DEF Leave, Quiet, TypeOK, Up, Live, Executing
  <2>4. Tracked'
    BY <1>8 DEF Leave, Tracked, TypeOK, Executing
  <2>5. OnRecord'
    BY <1>8 DEF Leave, OnRecord, TypeOK, Recorded, Live, Executing
  <2>6. SweepReachesAll'
    BY <1>8 DEF Leave, SweepReachesAll, TypeOK, Up, Executing, Tracked
  <2> QED BY <2>1, <2>2, <2>3, <2>4, <2>5, <2>6
<1>9. CASE Deadline(o)
  <2>1. TypeOK'
    BY <1>9 DEF Deadline, TypeOK, PCs, Live, Executing, States, Terminal, Links, Up
  <2>2. Counted'
    BY <1>9 DEF Deadline, Counted, Running
  <2>3. Quiet'
    BY <1>9 DEF Deadline, Quiet, TypeOK, Up, Live, Executing
  <2>4. Tracked'
    BY <1>9 DEF Deadline, Tracked, TypeOK, Executing
  <2>5. OnRecord'
    BY <1>9 DEF Deadline, OnRecord, TypeOK, Recorded, Live, Executing
  <2>6. SweepReachesAll'
    BY <1>9 DEF Deadline, SweepReachesAll, TypeOK, Up, Executing, Tracked
  <2> QED BY <2>1, <2>2, <2>3, <2>4, <2>5, <2>6
<1> QED BY <1>1, <1>2, <1>3, <1>4, <1>5, <1>6, <1>7, <1>8, <1>9

(* manager.go: a saved record of the submission is its own.                *)
LEMMA RecordAdded ==
    ASSUME born \in Seq(Recs), NEW o \in Op, born' = Append(born, <<o, "own">>)
    PROVE  /\ born' \in Seq(Recs)
           /\ Recorded(o)'
           /\ \A q \in Op : q # o => (Recorded(q)' <=> Recorded(q))
<1>1. <<o, "own">> \in Recs BY DEF Recs
<1>2. /\ born' \in Seq(Recs)
      /\ \A x : In(x, born') <=> In(x, born) \/ x = <<o, "own">>
  BY <1>1, Appended
<1> QED BY <1>2 DEF Recorded

(* manager_cached.go: what a retry finds is of recorded operations, so an  *)
(* answered retry adds at most the rebuilt record of a receipt.            *)
LEMMA AttachBorn ==
    ASSUME Inv, NEW o \in Op, Attach(o)
    PROVE  /\ born' \in Seq(Recs)
           /\ \A q \in Op : Recorded(q) <=> Recorded(q)'
           /\ Spread(born, born')
           /\ answer' \in [Op -> (Op \X Links) \cup {None}]
           /\ answer' = answer \/ \E r \in Op \X Links :
                  answer' = [answer EXCEPT ![o] = r] /\ r # <<o, "none">>
<1>0. TypeOK /\ OnRecord /\ Tracked /\ born \in Seq(Recs) /\ pc[o] = "submitting"
  BY DEF Inv, TypeOK, Recs, Attach, At
<1>7. Spread(born, born) BY DEF Spread
<1>1. ASSUME NEW r \in Known(o), UNCHANGED born,
             answer' = [answer EXCEPT ![o] = <<r[1], IF r[2] = "own" THEN link[r[1]] ELSE r[2]>>]
      PROVE  \E a \in Op \X Links : answer' = [answer EXCEPT ![o] = a] /\ a # <<o, "none">>
  <2>1. r \in Recs /\ r # <<o, "own">>
    <3>1. CASE inFlight[KeyOf[o]] # None
      <4>1. r = <<inFlight[KeyOf[o]], "own">> BY <1>1, <3>1 DEF Known
      <4>2. inFlight[KeyOf[o]] \in Op /\ inFlight[KeyOf[o]] # o
        BY <1>0, <3>1, OperationsAssumption DEF TypeOK, Tracked, Executing
      <4> QED BY <4>1, <4>2 DEF Recs
    <3>2. CASE inFlight[KeyOf[o]] = None
      <4>1. PICK i \in 1 .. Len(born) : r = born[i]
        BY <1>1, <3>2 DEF Known, Newest
      <4>2. r \in Recs BY <1>0, <4>1
      <4>3. ~Recorded(o) BY <1>0 DEF OnRecord
      <4> QED BY <4>1, <4>2, <4>3 DEF Recorded, In
    <3> QED BY <3>1, <3>2
  <2>2. r[1] \in Op /\ r[2] \in {"own", "real", "synthetic"} /\ r = <<r[1], r[2]>>
    BY <2>1 DEF Recs
  <2> DEFINE l == IF r[2] = "own" THEN link[r[1]] ELSE r[2]
  <2>3. l \in Links BY <1>0, <2>2 DEF TypeOK, Links
  <2>4. <<r[1], l>> \in Op \X Links BY <2>2, <2>3
  <2>5. <<r[1], l>> # <<o, "none">>
    <3>1. CASE r[2] = "own" BY <2>1, <2>2, <3>1
    <3>2. CASE r[2] # "own" BY <2>2, <3>2
    <3> QED BY <3>1, <3>2
  <2> QED BY <1>1, <2>4, <2>5
<1>2. ASSUME NEW r \in Receipted(KeyOf[o])
      PROVE  \E q \in Op, l \in {"real", "synthetic"} : r = <<q, l>> /\ Recorded(q)
  <2>1. CASE \E q \in Op : r = <<q, "real">> /\ real[q] # "none"
    BY <1>0, <2>1 DEF OnRecord
  <2>2. CASE \E q \in synth : r = <<q, "synthetic">>
    BY <1>0, <2>2 DEF OnRecord, TypeOK
  <2> QED BY <1>2, <2>1, <2>2 DEF Receipted
<1>3. ASSUME NEW r \in Receipted(KeyOf[o]),
             born' \in Rebuilt(r) \cup {born},
             answer' \in {answer, [answer EXCEPT ![o] = r]}
      PROVE  /\ born' \in Seq(Recs)
             /\ \A q \in Op : Recorded(q) <=> Recorded(q)'
             /\ Spread(born, born')
             /\ answer' = answer \/ \E a \in Op \X Links :
                    answer' = [answer EXCEPT ![o] = a] /\ a # <<o, "none">>
  <2>1. PICK q \in Op, l \in {"real", "synthetic"} : r = <<q, l>> /\ Recorded(q)
    BY <1>2
  <2>2. /\ born' \in Seq(Recs) /\ Spread(born, born')
        /\ \A p \in Op : Recorded(p) <=> Recorded(p)'
    <3>1. CASE born' = born BY <1>0, <1>7, <3>1 DEF Recorded
    <3>2. CASE born' \in Rebuilt(<<q, l>>) BY <1>0, <2>1, <3>2, RebuiltGrows DEF Recorded
    <3> QED BY <1>3, <2>1, <3>1, <3>2
  <2>3. r \in Op \X Links /\ r # <<o, "none">> BY <2>1 DEF Links
  <2> QED BY <1>3, <2>2, <2>3
<1>4. \/ \E r \in Known(o) : /\ UNCHANGED born
                           /\ answer' = [answer EXCEPT ![o] = <<r[1], IF r[2] = "own" THEN link[r[1]] ELSE r[2]>>]
      \/ \E r \in Receipted(KeyOf[o]) : /\ born' \in Rebuilt(r) \cup {born}
                                       /\ answer' \in {answer, [answer EXCEPT ![o] = r]}
  BY DEF Attach
<1>5. CASE \E r \in Known(o) : /\ UNCHANGED born
                             /\ answer' = [answer EXCEPT ![o] = <<r[1], IF r[2] = "own" THEN link[r[1]] ELSE r[2]>>]
  <2>1. PICK r \in Known(o) :
              /\ UNCHANGED born
              /\ answer' = [answer EXCEPT ![o] = <<r[1], IF r[2] = "own" THEN link[r[1]] ELSE r[2]>>]
    BY <1>5
  <2>2. PICK a \in Op \X Links : answer' = [answer EXCEPT ![o] = a] /\ a # <<o, "none">>
    BY <1>1, <2>1
  <2>3. answer' \in [Op -> (Op \X Links) \cup {None}] BY <1>0, <2>2 DEF TypeOK
  <2>4. /\ born' \in Seq(Recs) /\ Spread(born, born')
        /\ \A q \in Op : Recorded(q) <=> Recorded(q)'
    BY <1>0, <1>7, <2>1 DEF Recorded
  <2> QED BY <2>2, <2>3, <2>4
<1>6. CASE \E r \in Receipted(KeyOf[o]) : /\ born' \in Rebuilt(r) \cup {born}
                                       /\ answer' \in {answer, [answer EXCEPT ![o] = r]}
  <2>1. /\ born' \in Seq(Recs) /\ Spread(born, born')
        /\ \A q \in Op : Recorded(q) <=> Recorded(q)'
        /\ answer' = answer \/ \E a \in Op \X Links :
               answer' = [answer EXCEPT ![o] = a] /\ a # <<o, "none">>
    BY <1>3, <1>6
  <2>2. answer' \in [Op -> (Op \X Links) \cup {None}]
    BY <1>0, <2>1 DEF TypeOK
  <2> QED BY <2>1, <2>2
<1> QED BY <1>4, <1>5, <1>6

(* A submission keeps the invariant.                                       *)
LEMMA SubmitInv ==
    ASSUME Inv, NEW o \in Op, SubmitEnter(o) \/ Submit(o)
    PROVE  Inv'
<1>a. /\ KeyOf \in [Op -> Key] /\ CancelOf \in [Canceller -> Op]
      /\ Capacity \in Nat /\ MaxCrashes \in Nat /\ None \notin Op
  BY OperationsAssumption
<1> USE <1>a DEF Inv, At, Goto, SaveRecord, memory, others, records, Submit
<1>1. CASE SubmitEnter(o)
  <2>1. TypeOK'
    BY <1>1 DEF SubmitEnter, TypeOK, PCs, Live, Executing, States, Terminal, Links, Up
  <2>2. Counted'
    <3>1. \E l \in {"submitting", "done"} : pc' = [pc EXCEPT ![o] = l] BY <1>1 DEF SubmitEnter
    <3>2. pc[o] \notin Live /\ used' = used BY <1>1 DEF SubmitEnter, Live, Executing
    <3> QED BY <3>1, <3>2, CountedStep DEF PCs, Live, Executing
  <2>3. Quiet'
    BY <1>1 DEF SubmitEnter, Quiet, TypeOK, Up, Live, Executing
  <2>4. Tracked'
    BY <1>1 DEF SubmitEnter, Tracked, TypeOK, Executing
  <2>5. OnRecord'
    BY <1>1 DEF SubmitEnter, OnRecord, TypeOK, Recorded, Live, Executing
  <2>6. SweepReachesAll'
    BY <1>1 DEF SubmitEnter, SweepReachesAll, TypeOK, Up, Executing, Tracked
  <2> QED BY <2>1, <2>2, <2>3, <2>4, <2>5, <2>6
<1>2. CASE Attach(o)
  <2>0. /\ born' \in Seq(Recs)
        /\ \A q \in Op : Recorded(q) <=> Recorded(q)'
        /\ answer' \in [Op -> (Op \X Links) \cup {None}]
    BY <1>2, AttachBorn
  <2>1. TypeOK'
    BY <1>2, <2>0 DEF Attach, TypeOK, Recs, PCs
  <2>2. Counted'
    <3>1. pc' = [pc EXCEPT ![o] = "done"] /\ pc[o] = "submitting" /\ used' = used BY <1>2 DEF Attach
    <3>2. "done" \in PCs /\ "done" \notin Live /\ "submitting" \notin Live BY DEF PCs, Live,
                                                                               Executing
    <3> QED BY <3>1, <3>2, CountedStep
  <2>3. Quiet'
    BY <1>2 DEF Attach, Quiet, TypeOK, Up, Live, Executing
  <2>4. Tracked'
    BY <1>2 DEF Attach, Tracked, TypeOK, Executing
  <2>5. OnRecord'
    BY <1>2, <2>0 DEF Attach, OnRecord, TypeOK, Live, Executing
  <2>6. SweepReachesAll'
    BY <1>2 DEF Attach, SweepReachesAll, TypeOK, Up, Executing, Tracked
  <2> QED BY <2>1, <2>2, <2>3, <2>4, <2>5, <2>6
<1>3. CASE Reject(o)
  <2>0. \/ UNCHANGED <<disk, born>>
        \/ disk' = [disk EXCEPT ![o] = "pending"] /\ born' = Append(born, <<o, "own">>)
    BY <1>3 DEF Reject
  <2>7. pc[o] = "submitting" /\ pc' = [pc EXCEPT ![o] = "done"]
    BY <1>3 DEF Reject
  <2>8. /\ born' \in Seq(Recs)
        /\ \A q \in Op : q # o => (Recorded(q)' <=> Recorded(q))
        /\ UNCHANGED <<disk, born>> \/ (disk' = [disk EXCEPT ![o] = "pending"] /\ Recorded(o)')
    <3>1. CASE UNCHANGED <<disk, born>> BY <3>1 DEF Recorded, TypeOK, Recs
    <3>2. CASE disk' = [disk EXCEPT ![o] = "pending"] /\ born' = Append(born, <<o, "own">>)
      BY <3>2, RecordAdded DEF TypeOK, Recs
    <3> QED BY <2>0, <3>1, <3>2
  <2>1. TypeOK'
    <3>1. disk' \in [Op -> States \cup {"none"}] BY <2>8 DEF TypeOK, States
    <3>2. pc' \in [Op -> PCs] BY <2>7 DEF TypeOK, PCs
    <3>3. UNCHANGED <<link, real, synth, memory, ctx, result, answer, others, dispatched>>
      BY <1>3 DEF Reject
    <3> QED BY <2>8, <3>1, <3>2, <3>3 DEF TypeOK, Recs
  <2>2. Counted'
    <3>1. pc' = [pc EXCEPT ![o] = "done"] /\ pc[o] = "submitting" /\ used' = used BY <1>3 DEF Reject
    <3>2. "done" \in PCs /\ "done" \notin Live /\ "submitting" \notin Live BY DEF PCs, Live,
                                                                               Executing
    <3> QED BY <3>1, <3>2, CountedStep
  <2>3. Quiet'
    BY <1>3 DEF Reject, Quiet, TypeOK, Up, Live, Executing
  <2>4. Tracked'
    BY <1>3 DEF Reject, Tracked, TypeOK, Executing
  <2>5. OnRecord'
    <3>1. UNCHANGED <<real, synth, scan, cpc>> BY <1>3 DEF Reject
    <3> QED BY <3>1, <2>7, <2>8 DEF OnRecord, TypeOK, Live, Executing, Recorded
  <2>6. SweepReachesAll'
    BY <1>3 DEF Reject, SweepReachesAll, TypeOK, Up, Executing, Tracked
  <2> QED BY <2>1, <2>2, <2>3, <2>4, <2>5, <2>6
<1>4. CASE Admit(o)
  <2>0. \/ UNCHANGED <<disk, born>>
        \/ disk' = [disk EXCEPT ![o] = "pending"] /\ born' = Append(born, <<o, "own">>)
    BY <1>4 DEF Admit
  <2>7. pc[o] = "submitting" /\ pc' = [pc EXCEPT ![o] = "start"]
    BY <1>4 DEF Admit
  <2>8. /\ born' \in Seq(Recs)
        /\ \A q \in Op : q # o => (Recorded(q)' <=> Recorded(q))
        /\ UNCHANGED <<disk, born>> \/ (disk' = [disk EXCEPT ![o] = "pending"] /\ Recorded(o)')
    <3>1. CASE UNCHANGED <<disk, born>> BY <3>1 DEF Recorded, TypeOK, Recs
    <3>2. CASE disk' = [disk EXCEPT ![o] = "pending"] /\ born' = Append(born, <<o, "own">>)
      BY <3>2, RecordAdded DEF TypeOK, Recs
    <3> QED BY <2>0, <3>1, <3>2
  <2>1. TypeOK'
    BY <1>4, <2>7, <2>8 DEF Admit, CapacityLeft, TypeOK, Recs, PCs, States, Live, Executing, Links
  <2>2. Counted'
    BY <1>4, CountedStep DEF Admit, PCs, Live, Executing
  <2>3. Quiet'
    BY <1>4 DEF Admit, Quiet, TypeOK, Up, Live, Executing
  <2>4. Tracked'
    <3>1. inFlight[KeyOf[o]] = None BY <1>4 DEF Admit, Fresh, Known
    <3>2. /\ cancels' = cancels \cup {o}
          /\ inFlight' = [inFlight EXCEPT ![KeyOf[o]] = o]
      BY <1>4 DEF Admit
    <3>3. KeyOf[o] \in Key OBVIOUS
    <3> QED BY <2>7, <3>1, <3>2, <3>3 DEF Tracked, TypeOK, Executing
  <2>5. OnRecord'
    <3>1. UNCHANGED <<real, synth, scan, cpc>> /\ disk' = [disk EXCEPT ![o] = "pending"]
      BY <1>4 DEF Admit
    <3>2. Recorded(o)' BY <1>4, RecordAdded DEF Admit, TypeOK, Recs
    <3> QED BY <3>1, <3>2, <2>7, <2>8 DEF OnRecord, TypeOK, Live, Executing
  <2>6. SweepReachesAll'
    BY <1>4 DEF Admit, SweepReachesAll, TypeOK, Up, Executing, Tracked
  <2> QED BY <2>1, <2>2, <2>3, <2>4, <2>5, <2>6
<1> QED BY <1>1, <1>2, <1>3, <1>4

(* A cancellation keeps the invariant.                                     *)
LEMMA CancelInv ==
    ASSUME Inv, NEW c \in Canceller, CancelRead(c) \/ CancelStep(c)
    PROVE  Inv'
<1>a. /\ KeyOf \in [Op -> Key] /\ CancelOf \in [Canceller -> Op]
      /\ Capacity \in Nat /\ MaxCrashes \in Nat /\ None \notin Op
  BY OperationsAssumption
<1> USE <1>a DEF Inv, At, Goto, SaveRecord, memory, others, records, CancelStep, CancelAt, CancelGoto
<1>1. CASE CancelRead(c)
  <2>1. TypeOK'
    BY <1>1 DEF CancelRead, TypeOK, PCs, Live, Executing, States, Terminal, Links, Up
  <2>2. Counted'
    BY <1>1 DEF CancelRead, Counted, Running
  <2>3. Quiet'
    BY <1>1 DEF CancelRead, Quiet, TypeOK, Up, Live, Executing
  <2>4. Tracked'
    BY <1>1 DEF CancelRead, Tracked, TypeOK, Executing
  <2>5. OnRecord'
    BY <1>1 DEF CancelRead, OnRecord, TypeOK, Recorded, Live, Executing
  <2>6. SweepReachesAll'
    BY <1>1 DEF CancelRead, SweepReachesAll, TypeOK, Up, Executing, Tracked
  <2> QED BY <2>1, <2>2, <2>3, <2>4, <2>5, <2>6
<1>2. CASE CancelLive(c)
  <2>1. TypeOK'
    <3>1. ctx' \in [Op -> {"live", "cancelled", "late"}] BY <1>2 DEF CancelLive, TypeOK
    <3>2. cpc' \in [Canceller -> {"new", "read", "receipt", "save", "done"}] BY <1>2
                                                                                 DEF CancelLive,
                                                                                 TypeOK
    <3> QED BY <1>2, <3>1, <3>2 DEF CancelLive, TypeOK
  <2>2. Counted'
    BY <1>2 DEF CancelLive, Counted, Running
  <2>3. Quiet'
    BY <1>2 DEF CancelLive, Quiet, TypeOK, Up, Live, Executing
  <2>4. Tracked'
    BY <1>2 DEF CancelLive, Tracked, TypeOK, Executing
  <2>5. OnRecord'
    BY <1>2 DEF CancelLive, OnRecord, TypeOK, Recorded, Live, Executing
  <2>6. SweepReachesAll'
    BY <1>2 DEF CancelLive, SweepReachesAll, TypeOK, Up, Executing, Tracked
  <2> QED BY <2>1, <2>2, <2>3, <2>4, <2>5, <2>6
<1>3. CASE CancelReceipt(c)
  <2>1. TypeOK'
    BY <1>3 DEF CancelReceipt, TypeOK, PCs, Live, Executing, States, Terminal, Links, Up
  <2>2. Counted'
    BY <1>3 DEF CancelReceipt, Counted, Running
  <2>3. Quiet'
    BY <1>3 DEF CancelReceipt, Quiet, TypeOK, Up, Live, Executing
  <2>4. Tracked'
    BY <1>3 DEF CancelReceipt, Tracked, TypeOK, Executing
  <2>5. OnRecord'
    BY <1>3 DEF CancelReceipt, OnRecord, TypeOK, Recorded, Live, Executing
  <2>6. SweepReachesAll'
    BY <1>3 DEF CancelReceipt, SweepReachesAll, TypeOK, Up, Executing, Tracked
  <2> QED BY <2>1, <2>2, <2>3, <2>4, <2>5, <2>6
<1>4. CASE CancelSave(c)
  <2>1. TypeOK'
    <3>1. disk' \in [Op -> States \cup {"none"}] BY <1>4 DEF CancelSave, TypeOK, States, Terminal
    <3>2. link' \in [Op -> Links] BY <1>4 DEF CancelSave, TypeOK, Links
    <3> QED BY <1>4, <3>1, <3>2 DEF CancelSave, TypeOK
  <2>2. Counted'
    BY <1>4 DEF CancelSave, Counted, Running
  <2>3. Quiet'
    BY <1>4 DEF CancelSave, Quiet, TypeOK, Up, Live, Executing
  <2>4. Tracked'
    BY <1>4 DEF CancelSave, Tracked, TypeOK, Executing
  <2>5. OnRecord'
    BY <1>4 DEF CancelSave, OnRecord, TypeOK, Recorded, Live, Executing
  <2>6. SweepReachesAll'
    BY <1>4 DEF CancelSave, SweepReachesAll, TypeOK, Up, Executing, Tracked
  <2> QED BY <2>1, <2>2, <2>3, <2>4, <2>5, <2>6
<1> QED BY <1>1, <1>2, <1>3, <1>4

(* Shutdown, a crash and the reconciliation keep the invariant.            *)
LEMMA ManagerInv ==
    ASSUME Inv, Close \/ Sweep \/ Drain \/ Crash \/ Recover
    PROVE  Inv'
<1>a. /\ KeyOf \in [Op -> Key] /\ CancelOf \in [Canceller -> Op]
      /\ Capacity \in Nat /\ MaxCrashes \in Nat /\ None \notin Op
  BY OperationsAssumption
<1> USE <1>a DEF Inv, At, Goto, SaveRecord, memory, others, records, Recover
<1>1. CASE Close
  <2>1. TypeOK'
    BY <1>1 DEF Close, TypeOK, PCs, Live, Executing, States, Terminal, Links, Up
  <2>2. Counted'
    BY <1>1 DEF Close, Counted, Running
  <2>3. Quiet'
    BY <1>1 DEF Close, Quiet, TypeOK, Up, Live, Executing
  <2>4. Tracked'
    BY <1>1 DEF Close, Tracked, TypeOK, Executing
  <2>5. OnRecord'
    BY <1>1 DEF Close, OnRecord, TypeOK, Recorded, Live, Executing
  <2>6. SweepReachesAll'
    BY <1>1 DEF Close, SweepReachesAll, TypeOK, Up, Executing, Tracked
  <2> QED BY <2>1, <2>2, <2>3, <2>4, <2>5, <2>6
<1>2. CASE Sweep
  <2>1. TypeOK'
    BY <1>2 DEF Sweep, TypeOK, PCs, Live, Executing, States, Terminal, Links, Up
  <2>2. Counted'
    BY <1>2 DEF Sweep, Counted, Running
  <2>3. Quiet'
    BY <1>2 DEF Sweep, Quiet, TypeOK, Up, Live, Executing
  <2>4. Tracked'
    BY <1>2 DEF Sweep, Tracked, TypeOK, Executing
  <2>5. OnRecord'
    BY <1>2 DEF Sweep, OnRecord, TypeOK, Recorded, Live, Executing
  <2>6. SweepReachesAll'
    BY <1>2 DEF Sweep, SweepReachesAll, TypeOK, Up, Executing, Tracked
  <2> QED BY <2>1, <2>2, <2>3, <2>4, <2>5, <2>6
<1>3. CASE Drain
  <2>1. TypeOK'
    BY <1>3 DEF Drain, TypeOK, PCs, Live, Executing, States, Terminal, Links, Up
  <2>2. Counted'
    BY <1>3 DEF Drain, Counted, Running
  <2>3. Quiet'
    BY <1>3 DEF Drain, Quiet, TypeOK, Up, Live, Executing
  <2>4. Tracked'
    BY <1>3 DEF Drain, Tracked, TypeOK, Executing
  <2>5. OnRecord'
    BY <1>3 DEF Drain, OnRecord, TypeOK, Recorded, Live, Executing
  <2>6. SweepReachesAll'
    BY <1>3 DEF Drain, SweepReachesAll, TypeOK, Up, Executing, Tracked
  <2> QED BY <2>1, <2>2, <2>3, <2>4, <2>5, <2>6
<1>4. CASE Crash
  <2>1. TypeOK'
    BY <1>4 DEF Crash, TypeOK, PCs, Live, Executing, States, Terminal, Links, Up
  <2>2. Counted'
    <3>1. Running' = {} BY <1>4 DEF Crash, Running, Live, Executing, TypeOK
    <3> QED BY <1>4, <3>1, FS_EmptySet DEF Crash, Counted
  <2>3. Quiet'
    BY <1>4 DEF Crash, Quiet, TypeOK, Up, Live, Executing
  <2>4. Tracked'
    BY <1>4 DEF Crash, Tracked, TypeOK, Executing
  <2>5. OnRecord'
    BY <1>4 DEF Crash, OnRecord, TypeOK, Recorded, Live, Executing
  <2>6. SweepReachesAll'
    BY <1>4 DEF Crash, SweepReachesAll, TypeOK, Up, Executing, Tracked
  <2> QED BY <2>1, <2>2, <2>3, <2>4, <2>5, <2>6
<1>5. CASE Restart
  <2>1. TypeOK'
    BY <1>5 DEF Restart, TypeOK, PCs, Live, Executing, States, Terminal, Links, Up
  <2>2. Counted'
    BY <1>5 DEF Restart, Counted, Running
  <2>3. Quiet'
    BY <1>5 DEF Restart, Quiet, TypeOK, Up, Live, Executing
  <2>4. Tracked'
    BY <1>5 DEF Restart, Tracked, TypeOK, Executing
  <2>5. OnRecord'
    BY <1>5 DEF Restart, OnRecord, TypeOK, Recorded, Live, Executing
  <2>6. SweepReachesAll'
    BY <1>5 DEF Restart, SweepReachesAll, TypeOK, Up, Executing, Tracked
  <2> QED BY <2>1, <2>2, <2>3, <2>4, <2>5, <2>6
<1>6. CASE Serve
  <2>1. TypeOK'
    BY <1>6 DEF Serve, TypeOK, PCs, Live, Executing, States, Terminal, Links, Up
  <2>2. Counted'
    BY <1>6 DEF Serve, Counted, Running
  <2>3. Quiet'
    BY <1>6 DEF Serve, Quiet, TypeOK, Up, Live, Executing
  <2>4. Tracked'
    BY <1>6 DEF Serve, Tracked, TypeOK, Executing
  <2>5. OnRecord'
    BY <1>6 DEF Serve, OnRecord, TypeOK, Recorded, Live, Executing
  <2>6. SweepReachesAll'
    BY <1>6 DEF Serve, SweepReachesAll, TypeOK, Up, Executing, Tracked
  <2> QED BY <2>1, <2>2, <2>3, <2>4, <2>5, <2>6
<1>7. CASE \E o \in Op : ReconcileReceipt(o)
  <2>1. TypeOK'
    BY <1>7 DEF ReconcileReceipt, TypeOK, PCs, Live, Executing, States, Terminal, Links, Up
  <2>2. Counted'
    BY <1>7 DEF ReconcileReceipt, Counted, Running
  <2>3. Quiet'
    BY <1>7 DEF ReconcileReceipt, Quiet, TypeOK, Up, Live, Executing
  <2>4. Tracked'
    BY <1>7 DEF ReconcileReceipt, Tracked, TypeOK, Executing
  <2>5. OnRecord'
    <3>1. PICK o \in Op : ReconcileReceipt(o) BY <1>7
    <3>2. Recorded(o) BY <3>1 DEF ReconcileReceipt, Unsettled, Scanned, Newest, Recorded, In
    <3>3. disk[o] # "none" BY <3>2 DEF OnRecord
    <3> QED BY <3>1, <3>2, <3>3 DEF ReconcileReceipt, OnRecord, TypeOK, Recorded
  <2>6. SweepReachesAll'
    BY <1>7 DEF ReconcileReceipt, SweepReachesAll, TypeOK, Up, Executing, Tracked
  <2> QED BY <2>1, <2>2, <2>3, <2>4, <2>5, <2>6
<1>8. CASE \E o \in Op : ReconcileSave(o)
  <2>1. TypeOK'
    BY <1>8 DEF ReconcileSave, TypeOK, PCs, Live, Executing, States, Terminal, Links, Up
  <2>2. Counted'
    BY <1>8 DEF ReconcileSave, Counted, Running
  <2>3. Quiet'
    BY <1>8 DEF ReconcileSave, Quiet, TypeOK, Up, Live, Executing
  <2>4. Tracked'
    BY <1>8 DEF ReconcileSave, Tracked, TypeOK, Executing
  <2>5. OnRecord'
    BY <1>8 DEF ReconcileSave, OnRecord, TypeOK, Recorded, Live, Executing
  <2>6. SweepReachesAll'
    BY <1>8 DEF ReconcileSave, SweepReachesAll, TypeOK, Up, Executing, Tracked
  <2> QED BY <2>1, <2>2, <2>3, <2>4, <2>5, <2>6
<1> QED BY <1>1, <1>2, <1>3, <1>4, <1>5, <1>6, <1>7, <1>8

(* Every step of the manager keeps the invariant.                          *)
LEMMA NextInv == Inv /\ [Next]_vars => Inv'
<1>1. ASSUME Inv, UNCHANGED vars PROVE Inv'
  BY <1>1 DEF vars, Inv, TypeOK, Counted, Running, Quiet, Tracked, OnRecord, Recorded,
              SweepReachesAll, Up
<1> QED BY <1>1, SubmitInv, ExecuteInv, CancelInv, ManagerInv DEF Next

(* internal/operations: what every reachable state satisfies, whatever the *)
(* windows; the theorems below rest on it.                                 *)
LEMMA OperationsInvariant == Spec => []Inv
  BY InitInv, NextInv, PTL DEF Spec

(* manager.go:195-282, manager_exec.go:15-26: whatever the windows, the    *)
(* operations in m.inFlight and m.liveCancels and the slots taken are the  *)
(* goroutines that run, and none runs with a live context after the sweep. *)
THEOREM OperationsBookkeeping == Spec => [](TypeOK /\ InFlightIsLive /\ SweepReachesAll)
<1>1. Inv => TypeOK /\ InFlightIsLive /\ SweepReachesAll
  BY DEF Inv, InFlightIsLive, Counted, Running, Tracked
<1> QED BY <1>1, OperationsInvariant, PTL

----------------------------------------------------------------------------
(* The windows of the two scans.                                           *)

(* A nonempty set of numbers has a least one, a bounded one a greatest:    *)
(* the newest record of a key exists as soon as the key has a record.      *)
LEMMA LeastElement ==
    ASSUME NEW T \in SUBSET Nat, T # {}
    PROVE  \E x \in T : \A y \in T : x <= y
<1> DEFINE R == OpToRel(<, Nat)
<1>1. IsWellFoundedOn(R, Nat) BY NatLessThanWellFounded
<1>2. \A x, y \in Nat : <<x, y>> \in R <=> x < y BY DEF OpToRel
<1> HIDE DEF R
<1>3. PICK x \in T : \A y \in T : ~ (<<y, x>> \in R) BY <1>1, WFMin
<1>4. ASSUME NEW y \in T PROVE x <= y
  <2>1. x \in Nat /\ y \in Nat OBVIOUS
  <2>2. ~(y < x) BY <1>2, <1>3, <2>1
  <2> QED BY <2>1, <2>2
<1> QED BY <1>4

(* manager.go, checkInFlightAndDisk: the newest record is the greatest     *)
(* position.                                                               *)
LEMMA GreatestElement ==
    ASSUME NEW n \in Nat, NEW T \in SUBSET (1 .. n), T # {}
    PROVE  \E x \in T : \A y \in T : y <= x
<1> DEFINE U == {n - x : x \in T}
<1>1. U \in SUBSET Nat
  <2> SUFFICES ASSUME NEW x \in T PROVE n - x \in Nat
    OBVIOUS
  <2> QED OBVIOUS
<1>2. U # {} OBVIOUS
<1> HIDE DEF U
<1>3. PICK u \in U : \A v \in U : u <= v BY <1>1, <1>2, LeastElement
<1> USE DEF U
<1>4. PICK x \in T : u = n - x OBVIOUS
<1>5. ASSUME NEW y \in T PROVE y <= x
  <2>1. n - x <= n - y BY <1>3, <1>4
  <2> QED BY <2>1
<1> QED BY <1>5

(* store.go, ListRecords: when the records are no more than the window,    *)
(* the reconciliation reads all of them; Submit misses a record of the key *)
(* only when it is older than its own window.                              *)
LEMMA WindowCovers ==
    ASSUME Inv
    PROVE  /\ Covered => \A o \in Op : disk[o] # "none" => o \in Scanned
           /\ \A o \in Op : Known(o) = {} =>
                  \A i \in 1 .. Len(born) : KeyOf[born[i][1]] = KeyOf[o] =>
                      Len(born) + 1 - i > ListLimit
<1>0. born \in Seq(Recs) /\ Len(born) \in Nat /\ ListLimit \in Nat
  BY OperationsAssumption DEF Inv, TypeOK, Recs
<1>2. ASSUME Covered, NEW o \in Op, disk[o] # "none" PROVE o \in Scanned
  <2>1. Recorded(o) BY <1>2 DEF Inv, OnRecord
  <2>2. Newest(ScanLimit) = 1 .. Len(born)
    BY <1>0, <1>2, OperationsAssumption DEF Covered, Newest
  <2> QED BY <2>1, <2>2 DEF Scanned, Recorded, In
<1>3. ASSUME NEW o \in Op, Known(o) = {}, NEW i \in 1 .. Len(born),
             KeyOf[born[i][1]] = KeyOf[o], Len(born) + 1 - i <= ListLimit
      PROVE  FALSE
  <2> DEFINE same == {h \in Newest(ListLimit) : KeyOf[born[h][1]] = KeyOf[o]}
  <2>1. same \in SUBSET (1 .. Len(born)) BY DEF Newest
  <2>3. i \in same BY <1>0, <1>3 DEF Newest
  <2>4. PICK j \in same : \A h \in same : h <= j
    <3> HIDE DEF same
    <3> QED BY <1>0, <2>1, <2>3, GreatestElement
  <2>5. inFlight[KeyOf[o]] = None BY <1>3 DEF Known
  <2>6. Known(o) = {born[h] : h \in {g \in same : \A f \in same : f <= g}}
    BY <2>5 DEF Known
  <2> HIDE DEF same
  <2> QED BY <1>3, <2>4, <2>6
<1> QED BY <1>0, <1>2, <1>3

(* manager_exec.go and reconcile.go: every step keeps the promise.         *)
LEMMA KeptStep ==
    ASSUME Inv, Inv', Kept, Covered, [Next]_vars
    PROVE  Kept'
<1> USE DEF At, Goto, SaveRecord, memory, others, records, CancelAt, CancelGoto
<1>0. /\ TypeOK /\ TypeOK' /\ OnRecord /\ Quiet
      /\ KeyOf \in [Op -> Key] /\ CancelOf \in [Canceller -> Op] /\ None \notin Op
  BY OperationsAssumption DEF Inv
<1>1. ASSUME NEW o \in Op, Attach(o) PROVE Kept'
  <2>1. Remembered'
    BY <1>0, <1>1 DEF Attach, Kept, Remembered, Up, TypeOK, States, Terminal, Executing
  <2>2. Promised'
    <3>1. answer' = answer \/ \E r \in Op \X Links :
              answer' = [answer EXCEPT ![o] = r] /\ r # <<o, "none">>
      BY <1>1, AttachBorn
    <3>2. /\ UNCHANGED <<disk, finErrs, daemon>>
          /\ pc[o] = "submitting" /\ pc' = [pc EXCEPT ![o] = "done"]
      BY <1>1 DEF Attach
    <3>3. answer[o] # <<o, "none">> BY <1>0, <3>2 DEF Kept, Promised, OnRecord
    <3>4. answer'[o] # <<o, "none">> BY <1>0, <3>1, <3>3 DEF TypeOK
    <3>5. \A q \in Op : q # o => answer'[q] = answer[q] BY <1>0, <3>1 DEF TypeOK
    <3>6. \A q \in Op : q # o => pc'[q] = pc[q] BY <1>0, <3>2 DEF TypeOK
    <3> QED BY <3>2, <3>4, <3>5, <3>6 DEF Kept, Promised, Up
  <2> QED BY <2>1, <2>2 DEF Kept
<1>2. ASSUME NEW o \in Op, Reject(o) PROVE Kept'
  <2>1. Remembered'
    BY <1>0, <1>2 DEF Reject, Kept, Remembered, Up, TypeOK, States, Terminal, Executing
  <2>2. Promised'
    <3>1. /\ UNCHANGED <<answer, finErrs, daemon>>
          /\ pc[o] = "submitting" /\ pc' = [pc EXCEPT ![o] = "done"]
          /\ disk' = disk \/ disk' = [disk EXCEPT ![o] = "pending"]
      BY <1>2 DEF Reject
    <3>2. answer[o] # <<o, "none">> BY <1>0, <3>1 DEF Kept, Promised, OnRecord
    <3> QED BY <1>0, <3>1, <3>2 DEF Kept, Promised, Up, TypeOK
  <2> QED BY <2>1, <2>2 DEF Kept
<1>3. ASSUME NEW o \in Op, Admit(o) PROVE Kept'
  <2>1. Remembered'
    BY <1>0, <1>3 DEF Admit, Kept, Remembered, Up, TypeOK, States, Terminal, Executing
  <2>2. Promised'
    <3>1. /\ UNCHANGED <<finErrs, daemon>>
          /\ pc' = [pc EXCEPT ![o] = "start"] /\ disk' = [disk EXCEPT ![o] = "pending"]
          /\ answer' = [answer EXCEPT ![o] = <<o, "none">>]
      BY <1>3 DEF Admit
    <3> QED BY <1>0, <3>1 DEF Kept, Promised, Up, TypeOK
  <2> QED BY <2>1, <2>2 DEF Kept
<1>4. ASSUME NEW o \in Op, Hook(o, "start", "admitted") \/ Hook(o, "admitted", "running")
      PROVE  Kept'
  <2>1. Remembered'
    BY <1>0, <1>4 DEF Hook, Kept, Remembered, Up, TypeOK, States, Terminal, Executing
  <2>2. Promised'
    <3>1. /\ UNCHANGED <<answer, finErrs, daemon>>
          /\ \E l \in {"admitted", "running", "returned"} : pc' = [pc EXCEPT ![o] = l]
          /\ disk' = disk \/ \E s \in {"admitted", "running"} : disk' = [disk EXCEPT ![o] = s]
      BY <1>4 DEF Hook
    <3>2. pc[o] \in {"start", "admitted"} BY <1>4 DEF Hook
    <3> QED BY <1>0, <3>1, <3>2 DEF Kept, Promised, Up, TypeOK
  <2> QED BY <2>1, <2>2 DEF Kept
<1>5. ASSUME Serve PROVE Kept'
  <2>1. Remembered'
    <3>1. \A o \in Op : disk[o] # "none" => disk[o] \in Terminal
      BY <1>0, <1>5, WindowCovers DEF Serve, Unsettled
    <3> QED BY <1>0, <1>5, <3>1 DEF Serve, Remembered, Up, TypeOK, States, Quiet
  <2>2. Promised'
    <3>1. \A o \in Op : disk[o] # "none" => disk[o] \in Terminal
      BY <1>0, <1>5, WindowCovers DEF Serve, Unsettled
    <3> QED BY <1>0, <1>5, <3>1 DEF Serve, Kept, Promised, Up, TypeOK
  <2> QED BY <2>1, <2>2 DEF Kept
<1> USE <1>0 DEF Kept, Remembered, Up, TypeOK, States, Terminal, Executing,
        Promised, OnRecord
<1>6. ASSUME NEW o \in Op, SubmitEnter(o) PROVE Kept'
  BY <1>6 DEF SubmitEnter
<1>7. ASSUME NEW o \in Op, FailEarly(o) PROVE Kept'
  BY <1>7 DEF FailEarly
<1>8. ASSUME NEW o \in Op, Dispatch(o) PROVE Kept'
  BY <1>8 DEF Dispatch
<1>9. ASSUME NEW o \in Op, ProviderReturns(o) PROVE Kept'
  BY <1>9 DEF ProviderReturns
<1>10. ASSUME NEW o \in Op, SaveFinal(o) PROVE Kept'
  BY <1>10 DEF SaveFinal, FinalState
<1>11. ASSUME NEW o \in Op, PublishFinal(o) PROVE Kept'
  BY <1>11 DEF PublishFinal
<1>12. ASSUME NEW o \in Op, Unregister(o) PROVE Kept'
  BY <1>12 DEF Unregister
<1>13. ASSUME NEW o \in Op, Leave(o) PROVE Kept'
  BY <1>13 DEF Leave
<1>14. ASSUME NEW o \in Op, Deadline(o) PROVE Kept'
  BY <1>14 DEF Deadline
<1>15. ASSUME NEW c \in Canceller, CancelRead(c) PROVE Kept'
  BY <1>15 DEF CancelRead
<1>16. ASSUME NEW c \in Canceller, CancelLive(c) PROVE Kept'
  BY <1>16 DEF CancelLive
<1>17. ASSUME NEW c \in Canceller, CancelReceipt(c) PROVE Kept'
  BY <1>17 DEF CancelReceipt
<1>18. ASSUME NEW c \in Canceller, CancelSave(c) PROVE Kept'
  BY <1>18 DEF CancelSave
<1>19. ASSUME Close PROVE Kept'
  BY <1>19 DEF Close
<1>20. ASSUME Sweep PROVE Kept'
  BY <1>20 DEF Sweep
<1>21. ASSUME Drain PROVE Kept'
  BY <1>21 DEF Drain
<1>22. ASSUME Crash PROVE Kept'
  BY <1>22 DEF Crash
<1>23. ASSUME Restart PROVE Kept'
  BY <1>23 DEF Restart
<1>24. ASSUME NEW o \in Op, ReconcileReceipt(o) PROVE Kept'
  BY <1>24 DEF ReconcileReceipt
<1>25. ASSUME NEW o \in Op, ReconcileSave(o) PROVE Kept'
  BY <1>25 DEF ReconcileSave
<1>26. ASSUME UNCHANGED vars PROVE Kept'
  BY <1>26 DEF vars
<1> QED BY <1>1, <1>2, <1>3, <1>4, <1>5, <1>6, <1>7, <1>8, <1>9, <1>10,
           <1>11, <1>12, <1>13, <1>14, <1>15, <1>16, <1>17, <1>18, <1>19,
           <1>20, <1>21, <1>22, <1>23, <1>24, <1>25, <1>26
           DEF Next, Submit, Execute, CancelStep, Recover

(* manager_exec.go, reconcile.go: with at most as many records as the      *)
(* reconciliation reads, every reachable state keeps the promise.          *)
LEMMA OperationsKept == Spec /\ []Covered => []Kept
<1>1. Init => Kept
  BY OperationsAssumption DEF Init, Kept, Remembered, Promised, States, Terminal, Executing
<1>2. Inv /\ Inv' /\ Kept /\ Covered /\ [Next]_vars => Kept'
  BY KeptStep
<1> QED BY <1>1, <1>2, OperationsInvariant, PTL DEF Spec

(* manager_exec.go:14-168, reconcile.go:18-73: the bookkeeping in memory   *)
(* is the goroutines that run, none slips past the sweep of Shutdown,      *)
(* and no unfinished record is without one.                                *)
THEOREM OperationsCorrect == Spec /\ []Covered => []OperationsHold
<1>1. Inv /\ Kept => OperationsHold
  BY DEF Inv, Kept, Remembered, OperationsHold, InFlightIsLive, Counted, Running, Tracked,
         NobodyForgotten
<1> QED BY <1>1, OperationsInvariant, OperationsKept, PTL

(* manager.go:273-311, Shutdown: after the drain every operation whose     *)
(* caller was told of it is settled on disk or reported.                   *)
THEOREM OperationsDrained == Spec /\ []Covered => []DrainedIsSettled
<1>1. Inv /\ Kept => DrainedIsSettled
  BY DEF Inv, Quiet, Kept, Promised, DrainedIsSettled, Up, Live, Executing
<1> QED BY <1>1, OperationsInvariant, OperationsKept, PTL

(* A step that admits nothing: it activates no operation, revives none     *)
(* that is over and brings no two records closer.                          *)
LEMMA UniqueKept ==
    ASSUME Unique, Spread(born, born'), born' \in Seq(Recs), born \in Seq(Recs),
           ListLimit \in Nat, UNCHANGED faulty,
           \A o \in Op : Active(o)' => Active(o),
           \A o \in Op : Lost(o) => Lost(o)'
    PROVE  Unique'
<1> SUFFICES ASSUME NEW o \in Op, NEW q \in Op, NEW i \in 1 .. Len(born'), NEW j \in 1 .. Len(born'),
                    i < j, o # q, born'[i] = <<o, "own">>, born'[j] = <<q, "own">>,
                    Active(o)', Active(q)', KeyOf[o] = KeyOf[q]
             PROVE  Lost(o)' /\ j - i > ListLimit
  BY DEF Unique
<1>1. PICK h \in 1 .. Len(born), k \in 1 .. Len(born) :
          h < k /\ born[h] = <<o, "own">> /\ born[k] = <<q, "own">> /\ k - h <= j - i
  BY DEF Spread
<1>2. Lost(o) /\ k - h > ListLimit BY <1>1 DEF Unique
<1> QED BY <1>1, <1>2

(* manager.go: a submission that adds its record is the youngest.          *)
LEMMA UniqueAdded ==
    ASSUME Unique, born \in Seq(Recs), NEW o \in Op, born' = Append(born, <<o, "own">>),
           ~Recorded(o), UNCHANGED faulty,
           \A q \in Op : q # o /\ Active(q)' => Active(q),
           \A q \in Op : Lost(q) => Lost(q)',
           Active(o)' => \A q \in Op : \A i \in 1 .. Len(born) :
               born[i] = <<q, "own">> /\ Active(q) /\ KeyOf[q] = KeyOf[o]
               => Lost(q) /\ Len(born) + 1 - i > ListLimit
    PROVE  Unique'
<1>0. /\ Len(born) \in Nat /\ Len(born') = Len(born) + 1 /\ born'[Len(born) + 1] = <<o, "own">>
      /\ \A i \in 1 .. Len(born) : born'[i] = born[i]
  OBVIOUS
<1> SUFFICES ASSUME NEW p \in Op, NEW q \in Op, NEW i \in 1 .. Len(born'), NEW j \in 1 .. Len(born'),
                    i < j, p # q, born'[i] = <<p, "own">>, born'[j] = <<q, "own">>,
                    Active(p)', Active(q)', KeyOf[p] = KeyOf[q]
             PROVE  Lost(p)' /\ j - i > ListLimit
  BY DEF Unique
<1>1. i \in 1 .. Len(born) /\ born[i] = <<p, "own">> BY <1>0
<1>2. p # o BY <1>1 DEF Recorded, In
<1>3. Active(p) BY <1>2
<1>4. CASE j = Len(born) + 1
  <2>1. q = o BY <1>0, <1>4
  <2>2. Lost(p) /\ Len(born) + 1 - i > ListLimit BY <1>1, <1>3, <2>1
  <2> QED BY <1>4, <2>2
<1>5. CASE j # Len(born) + 1
  <2>1. j \in 1 .. Len(born) /\ born[j] = <<q, "own">> BY <1>0, <1>5
  <2>2. q # o BY <2>1 DEF Recorded, In
  <2>3. Active(q) BY <2>2
  <2>4. Lost(p) /\ j - i > ListLimit BY <1>1, <1>3, <2>1, <2>3 DEF Unique
  <2> QED BY <2>4
<1> QED BY <1>4, <1>5

(* Every step leaves a trace of each dispatch, and one operation per key.  *)
LEMMA TracedStep ==
    ASSUME Inv, Inv', Traced, Unique, Covered, [Next]_vars
    PROVE  Traced' /\ Unique'
<1> USE DEF At, Goto, SaveRecord, memory, others, records, CancelAt, CancelGoto
<1>0. /\ TypeOK /\ TypeOK' /\ OnRecord /\ Quiet
      /\ KeyOf \in [Op -> Key] /\ CancelOf \in [Canceller -> Op] /\ None \notin Op
  BY OperationsAssumption DEF Inv
<1>b. /\ born \in Seq(Recs) /\ born' \in Seq(Recs) /\ ListLimit \in Nat
      /\ Unique /\ Spread(born, born)
  <2>1. born \in Seq(Recs) /\ born' \in Seq(Recs) BY <1>0 DEF TypeOK, Recs
  <2>2. Spread(born, born) BY DEF Spread
  <2> QED BY <2>1, <2>2, OperationsAssumption
<1>c. ASSUME UNCHANGED <<born, faulty>>,
             \A o \in Op : Active(o)' => Active(o),
             \A o \in Op : Lost(o) => Lost(o)'
      PROVE  Unique'
  BY <1>b, <1>c, UniqueKept
<1>1. ASSUME NEW o \in Op, Attach(o) PROVE Traced' /\ Unique'
  <2>0. (\A q \in Op : Recorded(q) <=> Recorded(q)') /\ Spread(born, born') BY <1>1, AttachBorn
  <2>1. Traced'
    BY <1>0, <1>1, <2>0 DEF Attach, Traced, Receipt, Up, TypeOK
  <2>2. UNCHANGED <<faulty, dispatched, real>> /\ pc' = [pc EXCEPT ![o] = "done"]
    BY <1>1 DEF Attach
  <2>3. \A q \in Op : Active(q)' => Active(q) BY <1>0, <2>2 DEF Active, TypeOK
  <2>4. \A q \in Op : Lost(q) => Lost(q)' BY <1>0, <2>2 DEF Lost, Executing, TypeOK
  <2>5. Unique' BY <1>b, <2>0, <2>2, <2>3, <2>4, UniqueKept
  <2> QED BY <2>1, <2>5
<1>2. ASSUME NEW o \in Op, Reject(o) PROVE Traced' /\ Unique'
  <2>0. /\ \A q \in Op : Recorded(q) => Recorded(q)'
        /\ disk' = disk \/ disk' = [disk EXCEPT ![o] = "pending"]
    <3>1. born' = born \/ born' = Append(born, <<o, "own">>) BY <1>2 DEF Reject
    <3>2. disk' = disk \/ disk' = [disk EXCEPT ![o] = "pending"] BY <1>2 DEF Reject
    <3> QED BY <1>0, <3>1, <3>2, RecordAdded DEF TypeOK, Recs, Recorded
  <2>3. pc[o] = "submitting" BY <1>2 DEF Reject
  <2>4. ~Recorded(o) /\ o \notin dispatched BY <1>0, <2>3 DEF Traced, OnRecord
  <2>1. Traced'
    BY <1>0, <1>2, <2>0, <2>4 DEF Reject, Traced, Receipt, Up, TypeOK, Terminal
  <2>5. UNCHANGED <<faulty, dispatched, real>> /\ pc' = [pc EXCEPT ![o] = "done"]
    BY <1>2 DEF Reject
  <2>6. \A q \in Op : Active(q)' => Active(q) BY <1>0, <2>5 DEF Active, TypeOK
  <2>7. \A q \in Op : Lost(q) => Lost(q)' BY <1>0, <2>5 DEF Lost, Executing, TypeOK
  <2>8. ~Active(o)' BY <1>0, <2>4, <2>5 DEF Active, TypeOK
  <2>2. Unique'
    <3>1. CASE born' = born BY <1>c, <2>5, <2>6, <2>7, <3>1
    <3>2. CASE born' = Append(born, <<o, "own">>)
      BY <1>b, <2>4, <2>5, <2>6, <2>7, <2>8, <3>2, UniqueAdded
    <3> QED BY <1>2, <3>1, <3>2 DEF Reject
  <2> QED BY <2>1, <2>2
<1>3. ASSUME NEW o \in Op, Admit(o) PROVE Traced' /\ Unique'
  <2>0. \A q \in Op : Recorded(q) => Recorded(q)'
    BY <1>0, <1>3, RecordAdded DEF Admit, TypeOK, Recs
  <2>3. ~Recorded(o) /\ o \notin dispatched
    BY <1>0, <1>3 DEF Admit, Traced, OnRecord
  <2>1. Traced'
    BY <1>0, <1>3, <2>0, <2>3 DEF Admit, Traced, Receipt, Up, TypeOK, Terminal
  <2>2. Unique'
    <3>1. ASSUME NEW q \in Op, NEW i \in 1 .. Len(born), born[i] = <<q, "own">>,
                 Active(q), KeyOf[q] = KeyOf[o]
          PROVE  Lost(q) /\ Len(born) + 1 - i > ListLimit
      <4>1. /\ inFlight[KeyOf[o]] = None /\ Known(o) = {} /\ Receipted(KeyOf[o]) = {}
            /\ daemon = "serving"
        BY <1>3 DEF Admit, Fresh, Known
      <4>2. pc[q] \notin Executing BY <3>1, <4>1, <1>0 DEF Inv, Tracked
      <4>3. q \in dispatched BY <3>1, <4>2 DEF Active, Executing
      <4>4. ~Receipt(q) BY <3>1, <4>1 DEF Receipt, Receipted
      <4>5. faulty BY <1>0, <4>1, <4>2, <4>3, <4>4 DEF Traced, Up, Executing
      <4>6. Lost(q) BY <4>2, <4>3, <4>4, <4>5 DEF Lost, Receipt
      <4>7. born[i][1] = q BY <3>1
      <4> QED BY <3>1, <4>1, <4>6, <4>7, WindowCovers
    <3>2. /\ UNCHANGED <<faulty, dispatched, real>> /\ pc' = [pc EXCEPT ![o] = "start"]
          /\ born' = Append(born, <<o, "own">>)
      BY <1>3 DEF Admit
    <3>3. \A q \in Op : q # o => (Active(q)' <=> Active(q)) BY <1>0, <3>2 DEF Active, TypeOK
    <3>4. \A q \in Op : Lost(q) => Lost(q)' BY <1>0, <2>3, <3>2 DEF Lost, Executing, TypeOK
    <3> QED BY <1>b, <2>3, <3>1, <3>2, <3>3, <3>4, UniqueAdded
  <2> QED BY <2>1, <2>2
<1>4. ASSUME NEW o \in Op, Hook(o, "start", "admitted") \/ Hook(o, "admitted", "running")
      PROVE  Traced' /\ Unique'
  <2>0. /\ UNCHANGED <<dispatched, born, real, synth, cpc, scan, daemon, faulty>>
        /\ pc[o] \in {"start", "admitted"}
        /\ \E l \in {"admitted", "running", "returned"} : pc' = [pc EXCEPT ![o] = l]
        /\ disk' = disk \/ \E s \in {"admitted", "running"} : disk' = [disk EXCEPT ![o] = s]
    BY <1>4 DEF Hook
  <2>1. Traced'
    BY <1>0, <2>0 DEF Traced, Receipt, Up, TypeOK, Terminal, Recorded
  <2>2. Unique'
    BY <1>0, <1>c, <2>0 DEF Active, Lost, Executing, TypeOK
  <2> QED BY <2>1, <2>2
<1>5. ASSUME NEW o \in Op, ProviderReturns(o) PROVE Traced' /\ Unique'
  <2>1. Traced'
    BY <1>0, <1>5 DEF ProviderReturns, Traced, Receipt, Up, TypeOK, Terminal, Recorded
  <2>2. Unique'
    <3>1. /\ UNCHANGED <<born, faulty, dispatched>> /\ pc' = [pc EXCEPT ![o] = "returned"]
          /\ pc[o] = "provider" /\ \A q \in Op : q # o => real'[q] = real[q]
      BY <1>0, <1>5 DEF ProviderReturns, TypeOK
    <3> QED BY <1>0, <1>c, <3>1 DEF Active, Lost, Executing, TypeOK
  <2> QED BY <2>1, <2>2
<1>6. ASSUME Serve PROVE Traced' /\ Unique'
  <2>1. Traced'
    <3>1. \A o \in Op : disk[o] # "none" => disk[o] \in Terminal
      BY <1>0, <1>6, WindowCovers DEF Serve, Unsettled
    <3> QED BY <1>0, <1>6, <3>1 DEF Serve, Traced, Receipt, Up, TypeOK, Recorded, OnRecord
  <2>2. Unique'
    BY <1>0, <1>c, <1>6 DEF Serve, Active, Lost, TypeOK
  <2> QED BY <2>1, <2>2
<1> USE <1>0 DEF Traced, Receipt, Up, TypeOK, Terminal, Recorded, OnRecord,
        Live, Executing, Active, Lost
<1>7. ASSUME NEW o \in Op, SubmitEnter(o) PROVE Traced' /\ Unique'
  <2>1. Traced' BY <1>7 DEF SubmitEnter
  <2>2. Unique' BY <1>7, <1>c DEF SubmitEnter
  <2> QED BY <2>1, <2>2
<1>8. ASSUME NEW o \in Op, FailEarly(o) PROVE Traced' /\ Unique'
  <2>1. Traced' BY <1>8 DEF FailEarly
  <2>2. Unique' BY <1>8, <1>c DEF FailEarly
  <2> QED BY <2>1, <2>2
<1>9. ASSUME NEW o \in Op, Dispatch(o) PROVE Traced' /\ Unique'
  <2>1. Traced' BY <1>9 DEF Dispatch
  <2>2. Unique' BY <1>9, <1>c DEF Dispatch
  <2> QED BY <2>1, <2>2
<1>10. ASSUME NEW o \in Op, SaveFinal(o) PROVE Traced' /\ Unique'
  <2>1. Traced' BY <1>10 DEF SaveFinal, FinalState
  <2>2. Unique' BY <1>10, <1>c DEF SaveFinal, FinalState
  <2> QED BY <2>1, <2>2
<1>11. ASSUME NEW o \in Op, PublishFinal(o) PROVE Traced' /\ Unique'
  <2>1. Traced' BY <1>11 DEF PublishFinal
  <2>2. Unique' BY <1>11, <1>c DEF PublishFinal
  <2> QED BY <2>1, <2>2
<1>12. ASSUME NEW o \in Op, Unregister(o) PROVE Traced' /\ Unique'
  <2>1. Traced' BY <1>12 DEF Unregister
  <2>2. Unique' BY <1>12, <1>c DEF Unregister
  <2> QED BY <2>1, <2>2
<1>13. ASSUME NEW o \in Op, Leave(o) PROVE Traced' /\ Unique'
  <2>1. Traced' BY <1>13 DEF Leave
  <2>2. Unique' BY <1>13, <1>c DEF Leave
  <2> QED BY <2>1, <2>2
<1>14. ASSUME NEW o \in Op, Deadline(o) PROVE Traced' /\ Unique'
  <2>1. Traced' BY <1>14 DEF Deadline
  <2>2. Unique' BY <1>14, <1>c DEF Deadline
  <2> QED BY <2>1, <2>2
<1>15. ASSUME NEW c \in Canceller, CancelRead(c) PROVE Traced' /\ Unique'
  <2>1. Traced' BY <1>15 DEF CancelRead
  <2>2. Unique' BY <1>15, <1>c DEF CancelRead
  <2> QED BY <2>1, <2>2
<1>16. ASSUME NEW c \in Canceller, CancelLive(c) PROVE Traced' /\ Unique'
  <2>1. Traced' BY <1>16 DEF CancelLive
  <2>2. Unique' BY <1>16, <1>c DEF CancelLive
  <2> QED BY <2>1, <2>2
<1>17. ASSUME NEW c \in Canceller, CancelReceipt(c) PROVE Traced' /\ Unique'
  <2>1. Traced' BY <1>17 DEF CancelReceipt
  <2>2. Unique' BY <1>17, <1>c DEF CancelReceipt
  <2> QED BY <2>1, <2>2
<1>18. ASSUME NEW c \in Canceller, CancelSave(c) PROVE Traced' /\ Unique'
  <2>1. Traced' BY <1>18 DEF CancelSave
  <2>2. Unique' BY <1>18, <1>c DEF CancelSave
  <2> QED BY <2>1, <2>2
<1>19. ASSUME Close PROVE Traced' /\ Unique'
  <2>1. Traced' BY <1>19 DEF Close
  <2>2. Unique' BY <1>19, <1>c DEF Close
  <2> QED BY <2>1, <2>2
<1>20. ASSUME Sweep PROVE Traced' /\ Unique'
  <2>1. Traced' BY <1>20 DEF Sweep
  <2>2. Unique' BY <1>20, <1>c DEF Sweep
  <2> QED BY <2>1, <2>2
<1>21. ASSUME Drain PROVE Traced' /\ Unique'
  <2>1. Traced' BY <1>21 DEF Drain
  <2>2. Unique' BY <1>21, <1>c DEF Drain
  <2> QED BY <2>1, <2>2
<1>22. ASSUME Crash PROVE Traced' /\ Unique'
  <2>1. Traced' BY <1>22 DEF Crash
  <2>2. Unique' BY <1>22, <1>c DEF Crash
  <2> QED BY <2>1, <2>2
<1>23. ASSUME Restart PROVE Traced' /\ Unique'
  <2>1. Traced' BY <1>23 DEF Restart
  <2>2. Unique' BY <1>23, <1>c DEF Restart
  <2> QED BY <2>1, <2>2
<1>24. ASSUME NEW o \in Op, ReconcileReceipt(o) PROVE Traced' /\ Unique'
  <2>1. Traced' BY <1>24 DEF ReconcileReceipt
  <2>2. Unique' BY <1>24, <1>c DEF ReconcileReceipt
  <2> QED BY <2>1, <2>2
<1>25. ASSUME NEW o \in Op, ReconcileSave(o) PROVE Traced' /\ Unique'
  <2>1. Traced' BY <1>25 DEF ReconcileSave
  <2>2. Unique' BY <1>25, <1>c DEF ReconcileSave
  <2> QED BY <2>1, <2>2
<1>26. ASSUME UNCHANGED vars PROVE Traced' /\ Unique'
  <2>1. Traced' BY <1>26 DEF vars
  <2>2. Unique' BY <1>26, <1>c DEF vars
  <2> QED BY <2>1, <2>2
<1> QED BY <1>1, <1>2, <1>3, <1>4, <1>5, <1>6, <1>7, <1>8, <1>9, <1>10,
           <1>11, <1>12, <1>13, <1>14, <1>15, <1>16, <1>17, <1>18, <1>19,
           <1>20, <1>21, <1>22, <1>23, <1>24, <1>25, <1>26
           DEF Next, Submit, Execute, CancelStep, Recover

(* manager.go:109-157, 440-478, manager_cached.go:13-126: a key is dis-    *)
(* patched once over crashes and retries, with failing writes as well, as  *)
(* long as the reconciliation's scan covers the records: the exception is  *)
(* an execution that lost its receipt and is older than Submit's window.   *)
THEOREM OperationsOneDispatch == Spec /\ []Covered => []OneDispatchPerKey
<1>1. Init => Traced /\ Unique
  BY OperationsAssumption DEF Init, Traced, Unique, Active
<1>2. Inv /\ Inv' /\ Traced /\ Unique /\ Covered /\ [Next]_vars => Traced' /\ Unique'
  BY TracedStep
<1>3. Inv /\ Unique => OneDispatchPerKey
  <2> SUFFICES ASSUME Inv, Unique, NEW i \in 1 .. Len(born), NEW j \in 1 .. Len(born),
                      i < j, born[i][1] # born[j][1], born[i][2] = "own", born[j][2] = "own",
                      KeyOf[born[i][1]] = KeyOf[born[j][1]],
                      born[i][1] \in dispatched, born[j][1] \in dispatched
               PROVE  faulty /\ real[born[i][1]] = "none" /\ j - i > ListLimit
    BY DEF OneDispatchPerKey
  <2>1. born[i] \in Recs /\ born[j] \in Recs BY DEF Inv, TypeOK, Recs
  <2>2. PICK o \in Op, q \in Op : born[i] = <<o, "own">> /\ born[j] = <<q, "own">>
    BY <2>1 DEF Recs
  <2>3. Active(o) /\ Active(q) BY <2>2 DEF Active
  <2>4. Lost(o) /\ j - i > ListLimit BY <2>2, <2>3 DEF Unique
  <2> QED BY <2>2, <2>4 DEF Lost
<1> QED BY <1>1, <1>2, <1>3, OperationsInvariant, PTL DEF Spec
=============================================================================
