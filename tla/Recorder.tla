------------------------------ MODULE Recorder ------------------------------
(***************************************************************************)
(* Console recordings and the status that outlives their request,          *)
(* internal/app (console_record.go, console_record_status.go,              *)
(* console_record_store.go, console_record_read.go).                       *)
(*                                                                         *)
(* A producer reserves its recording id, then publishes one numbered       *)
(* snapshot before and after every capture and one at the end; readers     *)
(* take the latest snapshot without any lock.  A publication is: create    *)
(* the marker, write and rename the snapshot, sync the directory, remove   *)
(* the marker; what fails on the way leaves the marker where it is.        *)
(* The recording images and their encoding are left out: a capture returns *)
(* a valid frame or it does not.                                           *)
(***************************************************************************)
EXTENDS Integers, FiniteSets, FiniteSetsExt

CONSTANTS Recording, Reader, Nobody,
          Owner,          \* per recording: its caller, actor and VM
          MaxFrames,      \* frames of a recording at most, 30
          Limit,          \* the highest snapshot number, 61
          Capacity,       \* reservations kept, 64
          MaxCrashes, MaxFaults  \* bounds: crashes, failing operations

ASSUME RecorderConstants ==
    /\ MaxFrames \in Nat /\ MaxFrames >= 2 /\ Capacity \in Nat \ {0}
    /\ Limit = 2 * MaxFrames + 1
    /\ Owner \in [Recording -> Nat] /\ Nobody \notin Recording

VARIABLES at,        \* per recording: its producer's step
          publishing, \* per recording: what its producer publishes, and how far
          lease,     \* the holder of console-recording-metadata
          dir,       \* per recording: its directory exists
          marker,    \* per recording: the file "publishing" exists
          snaps,     \* per recording: the snapshots by their number
          durable,   \* per recording: numbers whose directory sync succeeded
          mem,       \* per recording: the producer's status document
          seq,       \* per recording: the producer's Sequence
          calls, valid, \* per recording: captures asked of the provider, valid frames
          expired,   \* recordings whose 15 minutes are over
          look,      \* per reader: what it has read so far
          answer,    \* per reader: the status it last returned
          crashes, faults

disk == <<dir, marker, snaps, durable>>
rvars == <<at, publishing, lease, disk, mem, seq, calls, valid, expired, look, answer,
           crashes, faults>>

Status == [attempted : 0..MaxFrames, completed : 0..MaxFrames, flight : BOOLEAN,
           reason : {"", "completed", "failed"}]
NoStatus == [attempted |-> -1, completed |-> -1, flight |-> FALSE, reason |-> ""]
Fresh == [attempted |-> 0, completed |-> 0, flight |-> FALSE, reason |-> ""]
Terminal(d) == d.reason # ""

Stage == {"first", "before", "after", "finish"}
At == {"idle", "lock", "admit", "mkdir", "publish", "release", "refused", "frame", "capture",
       "save", "encode", "end", "done", "dead"}
NoLook == [at |-> "idle", of |-> Nobody, number |-> 0]

RecorderTypeOK ==
    /\ at \in [Recording -> At]
    /\ publishing \in [Recording -> [stage : Stage, step : {"mark", "rename", "sync", "unmark"}]]
    /\ lease \in Recording \cup {Nobody}
    /\ dir \in [Recording -> BOOLEAN] /\ marker \in [Recording -> BOOLEAN]
    /\ \A r \in Recording : /\ DOMAIN snaps[r] \subseteq 0..Limit
                            /\ \A k \in DOMAIN snaps[r] : snaps[r][k] \in Status
    /\ mem \in [Recording -> Status] /\ seq \in [Recording -> Nat]
    /\ durable \in [Recording -> SUBSET (0..Limit)]

RecorderInit ==
    /\ at = [r \in Recording |-> "idle"]
    /\ publishing = [r \in Recording |-> [stage |-> "first", step |-> "mark"]]
    /\ lease = Nobody
    /\ dir = [r \in Recording |-> FALSE] /\ marker = [r \in Recording |-> FALSE]
    /\ snaps = [r \in Recording |-> << >>] /\ durable = [r \in Recording |-> {}]
    /\ mem = [r \in Recording |-> Fresh] /\ seq = [r \in Recording |-> 0]
    /\ calls = [r \in Recording |-> 0] /\ valid = [r \in Recording |-> 0]
    /\ expired = {} /\ look = [q \in Reader |-> NoLook]
    /\ answer = [q \in Reader |-> [of |-> Nobody, number |-> 0, status |-> NoStatus]]
    /\ crashes = 0 /\ faults = 0

Go(r, s) == at' = [at EXCEPT ![r] = s]
Fault == faults < MaxFaults /\ faults' = faults + 1
Works == UNCHANGED faults

-----------------------------------------------------------------------------
(* What a reader finds.                                                    *)

Latest(r) == Max(DOMAIN snaps[r])
\* latestRecordingSnapshot, readRecordingSnapshot, validRecordingDocument
Conclusive(r) == dir[r] /\ ~marker[r] /\ DOMAIN snaps[r] # {}

-----------------------------------------------------------------------------
(* Publication: writeRecordingStatus, publishRecordingSnapshot.            *)

\* persist: a new number, a fresh publication.
Persist(r, stage, d) ==
    /\ mem' = [mem EXCEPT ![r] = d]
    /\ seq' = [seq EXCEPT ![r] = IF stage = "first" THEN 0 ELSE @ + 1]
    /\ publishing' = [publishing EXCEPT ![r] = [stage |-> stage, step |-> "mark"]]
    /\ Go(r, "publish")

\* Where the producer goes when a publication has succeeded or failed; a capture
\* that was not announced is taken back.
Published(r) == CASE publishing[r].stage = "first"  -> "release"
                  [] publishing[r].stage = "before" -> "capture"
                  [] publishing[r].stage = "after"  -> "save"
                  [] publishing[r].stage = "finish" -> "done"
UnpublishedKept(r) ==
    /\ Go(r, CASE publishing[r].stage = "first"  -> "refused"
               [] publishing[r].stage = "finish" -> "done"
               [] OTHER -> "end")
    /\ mem' = [mem EXCEPT ![r].flight = FALSE]
    /\ UNCHANGED publishing
Unpublished(r) ==
    /\ Go(r, CASE publishing[r].stage = "first"  -> "refused"
               [] publishing[r].stage = "finish" -> "done"
               [] OTHER -> "end")
    /\ mem' = IF publishing[r].stage = "before"
              THEN [mem EXCEPT ![r].attempted = @ - 1, ![r].flight = FALSE] ELSE mem
    /\ UNCHANGED publishing
Step(r, s) == publishing' = [publishing EXCEPT ![r].step = s]

BeyondLimit(n) == n > Limit
Mark(r) ==
    /\ at[r] = "publish" /\ publishing[r].step = "mark"
    /\ \/ /\ Works /\ ~marker[r] /\ dir[r] /\ ~BeyondLimit(seq[r])
          /\ marker' = [marker EXCEPT ![r] = TRUE] /\ Step(r, "rename")
          /\ UNCHANGED <<at, mem>>
       \/ /\ \/ Works /\ (marker[r] \/ ~dir[r] \/ BeyondLimit(seq[r])) /\ UNCHANGED marker
             \/ Fault /\ marker' \in {marker, [marker EXCEPT ![r] = TRUE]}
          /\ Unpublished(r)
    /\ UNCHANGED <<lease, dir, snaps, durable, seq, calls, valid, expired, look, answer, crashes>>

Rename(r) ==
    /\ at[r] = "publish" /\ publishing[r].step = "rename"
    /\ \/ /\ Works /\ Step(r, "sync") /\ UNCHANGED <<at, mem>>
          /\ snaps' = [snaps EXCEPT ![r] =
                          [k \in DOMAIN @ \cup {seq[r]} |-> IF k = seq[r] THEN mem[r] ELSE @[k]]]
       \/ Fault /\ Unpublished(r) /\ UNCHANGED snaps
    /\ UNCHANGED <<lease, dir, marker, durable, seq, calls, valid, expired, look, answer, crashes>>

SyncRoot(r) ==
    /\ at[r] = "publish" /\ publishing[r].step = "sync"
    /\ \/ /\ Works /\ Step(r, "unmark") /\ UNCHANGED <<at, mem>>
          /\ durable' = [durable EXCEPT ![r] = @ \cup {seq[r]}]
       \/ Fault /\ Unpublished(r) /\ UNCHANGED durable
    /\ UNCHANGED <<lease, dir, marker, snaps, seq, calls, valid, expired, look, answer, crashes>>

Unmark(r) ==
    /\ at[r] = "publish" /\ publishing[r].step = "unmark"
    /\ \/ Works /\ marker' = [marker EXCEPT ![r] = FALSE] /\ Go(r, Published(r))
          /\ UNCHANGED <<publishing, mem>>
       \/ Fault /\ Unpublished(r) /\ UNCHANGED marker
    /\ UNCHANGED <<lease, dir, snaps, durable, seq, calls, valid, expired, look, answer, crashes>>

-----------------------------------------------------------------------------
(* reserveRecording, under the lease console-recording-metadata, which is  *)
(* never taken from a living holder (module Lease).                        *)

AcquireLease(r) ==
    /\ at[r] = "idle"
    /\ \/ lease = Nobody /\ lease' = r /\ Go(r, "admit")
       \/ lease # Nobody /\ UNCHANGED lease /\ Go(r, "done")
    /\ UNCHANGED <<publishing, disk, mem, seq, calls, valid, expired, look, answer,
                   crashes, faults>>

Reserved == {x \in Recording : dir[x]}
\* pruneRecordingStatuses removes what is terminal, expired and of the same
\* owner; removeExpiredRecording wants every snapshot up to the last one there.
PrunableAny(x, r) == Conclusive(x) /\ Owner[x] = Owner[r] /\ x \in expired
Prunable(x, r) == /\ Conclusive(x) /\ Terminal(snaps[x][Latest(x)])
                  /\ Owner[x] = Owner[r] /\ x \in expired
                  /\ DOMAIN snaps[x] = 0..Latest(x)

Room(kept) == Cardinality(kept) < Capacity
Refuse(r) == Go(r, "refused") /\ UNCHANGED disk
Admit(r) ==
    /\ at[r] = "admit"
    /\ IF dir[r] \/ Cardinality(Reserved) > Capacity THEN Works /\ Refuse(r)
       ELSE \E gone \in {{x \in Recording : Prunable(x, r)}} :
         \/ /\ Works
            /\ dir' = [x \in Recording |-> dir[x] /\ x \notin gone]
            /\ snaps' = [x \in Recording |-> IF x \in gone THEN << >> ELSE snaps[x]]
            /\ durable' = [x \in Recording |-> IF x \in gone THEN {} ELSE durable[x]]
            /\ UNCHANGED marker
            /\ Go(r, IF Room(Reserved \ gone) THEN "mkdir" ELSE "refused")
         \/ \E x \in gone : \* the removal stops after some of the snapshots
              /\ Fault /\ UNCHANGED <<dir, marker, durable>>
              /\ \E kept \in SUBSET DOMAIN snaps[x] :
                   snaps' = [snaps EXCEPT ![x] = [k \in kept |-> @[k]]]
              /\ Go(r, IF Room(Reserved) THEN "mkdir" ELSE "refused")
    /\ UNCHANGED <<publishing, lease, mem, seq, calls, valid, expired, look, answer, crashes>>

Mkdir(r) ==
    /\ at[r] = "mkdir" /\ Works
    /\ dir' = [dir EXCEPT ![r] = TRUE] /\ Persist(r, "first", Fresh)
    /\ UNCHANGED <<lease, marker, snaps, durable, calls, valid, expired, look, answer, crashes>>

Release(r) ==
    /\ at[r] \in {"release", "refused"}
    /\ lease' = Nobody
    /\ Go(r, IF at[r] = "release" THEN "frame" ELSE "done")
    /\ UNCHANGED <<publishing, disk, mem, seq, calls, valid, expired, look, answer,
                   crashes, faults>>

-----------------------------------------------------------------------------
(* collectRecordingFrames and screenshot: admission, beforeCapture, the    *)
(* capture, afterCapture, saveFrame; finish at the end in every case.      *)

BeforeCapture(r) ==
    /\ at[r] = "frame" /\ valid[r] < MaxFrames
    /\ \/ /\ Works
          /\ Persist(r, "before", [mem[r] EXCEPT !.attempted = @ + 1, !.flight = TRUE])
       \/ Fault /\ Go(r, "end") /\ UNCHANGED <<mem, seq, publishing>>
    /\ UNCHANGED <<lease, disk, calls, valid, expired, look, answer, crashes>>

CaptureStarts(r) ==
    /\ at[r] = "capture" /\ calls[r] < mem[r].attempted
    /\ calls' = [calls EXCEPT ![r] = @ + 1]
    /\ UNCHANGED <<at, publishing, lease, disk, mem, seq, valid, expired, look, answer,
                   crashes, faults>>

AfterCapture(r) ==
    /\ at[r] = "capture" /\ calls[r] = mem[r].attempted
    /\ \/ /\ Works /\ valid' = [valid EXCEPT ![r] = @ + 1]
          /\ Persist(r, "after", [mem[r] EXCEPT !.completed = @ + 1, !.flight = FALSE])
       \/ /\ Fault /\ UNCHANGED valid
          /\ Persist(r, "after", [mem[r] EXCEPT !.flight = FALSE])
    /\ UNCHANGED <<lease, disk, calls, expired, look, answer, crashes>>

\* A capture that was not valid ends the recording; so do a frame that is not
\* saved and a deadline.
SaveFrame(r) ==
    /\ at[r] = "save"
    /\ \/ /\ Works
          /\ Go(r, IF mem[r].completed < mem[r].attempted THEN "end"
                   ELSE IF valid[r] < MaxFrames THEN "frame" ELSE "encode")
       \/ Fault /\ Go(r, "end")
    /\ UNCHANGED <<publishing, lease, disk, mem, seq, calls, valid, expired, look, answer, crashes>>

\* Record: the frames are encoded within the artifact limit, or the recording
\* has failed; finish publishes the one or the other.
Encode(r) ==
    /\ at[r] = "encode"
    /\ \/ Works /\ Persist(r, "finish", [mem[r] EXCEPT !.reason = "completed"])
       \/ Fault /\ Go(r, "end") /\ UNCHANGED <<mem, seq, publishing>>
    /\ UNCHANGED <<lease, disk, calls, valid, expired, look, answer, crashes>>

Finish(r) ==
    /\ at[r] = "end" /\ Works
    /\ Persist(r, "finish", [mem[r] EXCEPT !.reason = "failed"])
    /\ UNCHANGED <<lease, disk, calls, valid, expired, look, answer, crashes>>

-----------------------------------------------------------------------------
(* RecordStatus: the marker, the listing and the latest snapshot, the      *)
(* marker again.                                                           *)

Look(q, r) ==
    /\ look[q].at = "idle" /\ dir[r] /\ ~marker[r]
    /\ look' = [look EXCEPT ![q] = [at |-> "list", of |-> r, number |-> 0]]
    /\ UNCHANGED <<at, publishing, lease, disk, mem, seq, calls, valid, expired, answer,
                   crashes, faults>>

List(q) ==
    /\ look[q].at = "list"
    /\ look' = [look EXCEPT ![q] = IF DOMAIN snaps[look[q].of] = {} THEN NoLook
                                   ELSE [@ EXCEPT !.at = "recheck", !.number = Latest(look[q].of)]]
    /\ UNCHANGED <<at, publishing, lease, disk, mem, seq, calls, valid, expired, answer,
                   crashes, faults>>

MarkerStillAbsent(r) == ~marker[r]
\* The snapshot is read here: a number is never written twice.
Answer(q) ==
    /\ look[q].at = "recheck" /\ look' = [look EXCEPT ![q] = NoLook]
    /\ LET r == look[q].of IN
       IF /\ look[q].number \in DOMAIN snaps[r] /\ MarkerStillAbsent(r) /\ r \notin expired
       THEN answer' = [answer EXCEPT ![q] = [of |-> r, number |-> look[q].number,
                                             status |-> snaps[r][look[q].number]]]
       ELSE UNCHANGED answer
    /\ UNCHANGED <<at, publishing, lease, disk, mem, seq, calls, valid, expired, crashes, faults>>

-----------------------------------------------------------------------------

Expire(r) ==
    /\ r \notin expired /\ dir[r] /\ expired' = expired \cup {r}
    /\ UNCHANGED <<at, publishing, lease, disk, mem, seq, calls, valid, look, answer,
                   crashes, faults>>

Crash ==
    /\ crashes < MaxCrashes /\ crashes' = crashes + 1
    /\ at' = [r \in Recording |-> IF at[r] \in {"idle", "done"} THEN at[r] ELSE "dead"]
    /\ lease' = Nobody /\ look' = [q \in Reader |-> NoLook]
    /\ UNCHANGED <<publishing, disk, mem, seq, calls, valid, expired, answer, faults>>

RecorderNext ==
    \/ \E r \in Recording :
         \/ AcquireLease(r) \/ Admit(r) \/ Mkdir(r) \/ Release(r)
         \/ Mark(r) \/ Rename(r) \/ SyncRoot(r) \/ Unmark(r)
         \/ BeforeCapture(r) \/ CaptureStarts(r) \/ AfterCapture(r) \/ SaveFrame(r)
         \/ Encode(r) \/ Finish(r)
         \/ Expire(r)
    \/ \E q \in Reader : List(q) \/ Answer(q) \/ \E r \in Recording : Look(q, r)
    \/ Crash

RecorderSpec == RecorderInit /\ [][RecorderNext]_rvars

-----------------------------------------------------------------------------

(* "Only terminal status with a false flag establishes that the producer   *)
(* has no outstanding capture": a terminal answer counts the captures that *)
(* were made, exactly and for good, and an answer on the way never claims  *)
(* more than was done, or a capture that was not begun.                    *)
AnswerIsTruthful == \A q \in Reader : LET a == answer[q] IN a.of # Nobody =>
    /\ Terminal(a.status) => /\ ~a.status.flight
                             /\ a.status.attempted = calls[a.of] /\ a.status.completed = valid[a.of]
                             /\ at[a.of] = "done"
    /\ a.status.completed <= valid[a.of] /\ a.status.attempted <= calls[a.of] + 1

(* "Snapshots are protected, synchronized": a status that was answered is  *)
(* on the disk to stay; a reader racing a publication that then fails      *)
(* answers nothing.                                                        *)
AnswerIsDurable == \A q \in Reader :
    answer[q].of # Nobody /\ dir[answer[q].of] => answer[q].number \in durable[answer[q].of]

(* "Active, foreign, corrupt, and unknown entries remain untouched": what  *)
(* an admission prunes has a producer that is done.                        *)
PruneSparesActive == [][\A x \in Recording :
    dir[x] /\ ~dir'[x] => at[x] = "done" /\ x \in expired]_rvars

(* 61 is enough: no publication is refused for its number.                 *)
NumbersSuffice == \A r \in Recording : at[r] = "publish" => ~BeyondLimit(seq[r])

(* "Private status retains at most 64 recording reservations."             *)
CapacityHolds == Cardinality(Reserved) <= Capacity

(* What a client may conclude from a status it was answered, and that      *)
(* neither limit is met by surprise: the numbers last a recording, and the *)
(* reservations stay within theirs.                                        *)
RecordingsHold == /\ RecorderTypeOK
                  /\ AnswerIsTruthful /\ AnswerIsDurable
                  /\ NumbersSuffice /\ CapacityHolds
=============================================================================
