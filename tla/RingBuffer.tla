----------------------------- MODULE RingBuffer -----------------------------
(***************************************************************************)
(* The scrollback of a terminal session: internal/sessions/buffer.go, and  *)
(* WaitRegex of wait.go, which waits on it.                                *)
(*                                                                         *)
(* Chunks are numbered from 1 in the order they are appended; a chunk is   *)
(* its size in bytes, and whether it holds what a WaitRegex looks for.     *)
(* Clients read with a cursor (the last sequence they have) and a limit.   *)
(***************************************************************************)
EXTENDS Naturals, Sequences, FiniteSets

CONSTANTS Size,       \* sizes of the chunks the session may produce
          MaxBytes,   \* capacity of the buffer: 1 MiB in the code
          ReadLimit,  \* DefaultMaxReadLimitBytes: 64 KiB in the code
          MaxChunks,  \* bound on the chunks appended
          Reader,     \* clients polling Read from the beginning
          Asks,       \* the limits they ask for; 0 is the default
          Waiter,     \* WaitRegex calls that start at sequence 0
          ChanCap     \* capacity of a waiter's change channel: 10

ASSUME RingBufferAssumption ==
    /\ Size \subseteq Nat \ {0}
    /\ {MaxBytes, ReadLimit, MaxChunks, ChanCap} \subseteq Nat \ {0}
    /\ Asks \subseteq Nat

VARIABLES log,      \* sizes of all chunks appended, evicted ones included
          hits,     \* the chunks with a match
          first,    \* the oldest chunk still in the buffer
          current,  \* b.currentBytes
          dropped,  \* b.droppedBytes
          cursor,   \* afterSeq of each reader's next Read
          last,     \* each reader's last answer
          got,      \* history: chunks delivered to each reader
          told,     \* history: chunks each reader was told are lost
          wpc,      \* where each waiter is
          tokens    \* pending notifications in each waiter's channel

vars == <<log, hits, first, current, dropped, cursor, last, got, told, wpc, tokens>>
buffer == <<log, hits, first, current, dropped>>
readers == <<cursor, last, got, told>>

Seqs == 1 .. MaxChunks

TypeOK == /\ log \in Seq(Size) /\ Len(log) <= MaxChunks
          /\ hits \subseteq 1 .. Len(log)
          /\ first \in 1 .. MaxChunks + 1
          /\ current \in Nat /\ dropped \in Nat
          /\ cursor \in [Reader -> 0 .. MaxChunks]
          /\ last \in [Reader -> [after : Nat, next : Nat, loss : Nat, more : BOOLEAN]]
          /\ got \in [Reader -> SUBSET Seqs]
          /\ told \in [Reader -> SUBSET Seqs]
          /\ wpc \in [Waiter -> {"idle", "registered", "waiting", "matched", "timeout"}]
          /\ tokens \in [Waiter -> 0 .. ChanCap]

Init == /\ log = <<>> /\ hits = {} /\ first = 1
        /\ current = 0 /\ dropped = 0
        /\ cursor = [r \in Reader |-> 0]
        /\ last = [r \in Reader |-> [after |-> 0, next |-> 0, loss |-> 0,
                                     more |-> FALSE]]
        /\ got = [r \in Reader |-> {}] /\ told = [r \in Reader |-> {}]
        /\ wpc = [w \in Waiter |-> "idle"]
        /\ tokens = [w \in Waiter |-> 0]

----------------------------------------------------------------------------
(* Bytes in chunks i .. j of a log.                                        *)
Total(s) == LET T[n \in 0 .. Len(s)] == IF n = 0 THEN 0 ELSE T[n - 1] + s[n] IN T
Bytes(s, i, j) == Total(s)[j] - Total(s)[i - 1]

(* The eviction loop: the oldest chunks go until the rest fits, the newest *)
(* one always stays.                                                       *)
Keeps(s, f) == Bytes(s, f, Len(s)) <= MaxBytes \/ f = Len(s)
FirstKept(s) == CHOOSE f \in first .. Len(s) :
                    Keeps(s, f) /\ \A e \in first .. f - 1 : ~Keeps(s, e)

(* Registered channels get a token unless they are full.                   *)
Append1(n, match) ==
    LET s == Append(log, n)
        f == FirstKept(s) IN
    /\ Len(log) < MaxChunks
    /\ log' = s
    /\ hits' = IF match THEN hits \cup {Len(s)} ELSE hits
    /\ first' = f
    /\ current' = current + n - Bytes(s, first, f - 1)
    /\ dropped' = dropped + Bytes(s, first, f - 1)
    /\ tokens' = [w \in Waiter |->
                    IF wpc[w] \in {"registered", "waiting"} /\ tokens[w] < ChanCap
                      THEN tokens[w] + 1 ELSE tokens[w]]
    /\ UNCHANGED <<readers, wpc>>

----------------------------------------------------------------------------
(* ReadAfter: a loss marker when the cursor is before the oldest chunk and *)
(* anything was ever dropped, then chunks until the limit; a chunk larger  *)
(* than the limit is only taken as the first element of the answer.        *)
Limit(n) == IF n = 0 \/ n > ReadLimit THEN ReadLimit ELSE n

(* Mutant: the marker is for clients that start from the beginning.        *)
MarkedAtStart(after) == log # <<>> /\ after = 0 /\ dropped > 0

Marked(after) == log # <<>> /\ after < first /\ dropped > 0

Fits(i, from, marked, limit) == \/ Bytes(log, from + 1, i) <= Limit(limit)
                                \/ i = from + 1 /\ ~marked

ReadAfter(after, limit) ==
    LET from  == IF Marked(after) THEN first - 1 ELSE after
        avail == {i \in first .. Len(log) : i > from}
        taken == {i \in avail : Fits(i, from, Marked(after), limit)}
    IN [after |-> after,
        chunks |-> taken,
        next |-> IF taken = {} THEN from ELSE CHOOSE m \in taken : \A i \in taken : i <= m,
        loss |-> IF Marked(after) THEN dropped ELSE 0,
        more |-> taken # avail]

(* A client reads and goes on from the sequence it was given.              *)
Read(r, limit) ==
    LET a == ReadAfter(cursor[r], limit) IN
    /\ cursor' = [cursor EXCEPT ![r] = a.next]
    /\ last' = [last EXCEPT ![r] = [after |-> a.after, next |-> a.next, loss |-> a.loss,
                                    more |-> a.more]]
    /\ got' = [got EXCEPT ![r] = @ \cup a.chunks]
    /\ told' = [told EXCEPT ![r] = IF a.loss > 0 THEN @ \cup (1 .. first - 1) ELSE @]
    /\ UNCHANGED <<buffer, wpc, tokens>>

----------------------------------------------------------------------------
(* WaitRegex: register, check once, then check on every notification.  It  *)
(* always reads from the sequence it was called with.                      *)
Sees(w) == ReadAfter(0, ReadLimit).chunks \cap hits # {}

Register(w) == /\ wpc[w] = "idle"
               /\ wpc' = [wpc EXCEPT ![w] = "registered"]
               /\ UNCHANGED <<buffer, readers, tokens>>

(* Mutant: what is already in the buffer is not checked.                   *)
CheckNothing(w) == /\ wpc[w] = "registered"
                   /\ wpc' = [wpc EXCEPT ![w] = "waiting"]
                   /\ UNCHANGED <<buffer, readers, tokens>>

CheckFirst(w) == /\ wpc[w] = "registered"
                 /\ wpc' = [wpc EXCEPT ![w] = IF Sees(w) THEN "matched" ELSE "waiting"]
                 /\ UNCHANGED <<buffer, readers, tokens>>

Notified(w) == /\ wpc[w] = "waiting" /\ tokens[w] > 0
               /\ tokens' = [tokens EXCEPT ![w] = @ - 1]
               /\ wpc' = [wpc EXCEPT ![w] = IF Sees(w) THEN "matched" ELSE "waiting"]
               /\ UNCHANGED <<buffer, readers>>

Timeout(w) == /\ wpc[w] = "waiting"
              /\ wpc' = [wpc EXCEPT ![w] = "timeout"]
              /\ UNCHANGED <<buffer, readers, tokens>>

Next == \/ \E n \in Size, match \in BOOLEAN : Append1(n, match)
        \/ \E r \in Reader, limit \in Asks : Read(r, limit)
        \/ \E w \in Waiter : Register(w) \/ CheckFirst(w) \/ Notified(w) \/ Timeout(w)

Spec == Init /\ [][Next]_vars

----------------------------------------------------------------------------
(* Properties.                                                             *)

(* The byte counters agree with the chunks, and the buffer exceeds its     *)
(* capacity by a single oversized chunk at most.                           *)
Accounting ==
    /\ current = Bytes(log, first, Len(log))
    /\ dropped = Bytes(log, 1, first - 1)
    /\ current <= MaxBytes \/ first = Len(log)

(* A reader never skips output unawares: every sequence its cursor has     *)
(* passed was delivered to it or reported lost, whatever was evicted       *)
(* between two reads.                                                      *)
NoSilentGap ==
    \A r \in Reader : \A i \in 1 .. cursor[r] : i \in got[r] \cup told[r]

(* A waiter misses no notification: while it waits and a match is in what  *)
(* it would read, a token is pending, also when its channel was full.      *)
NoLostWakeup ==
    \A w \in Waiter : wpc[w] = "waiting" /\ Sees(w) => tokens[w] > 0

(* A client that is told there is more gets further, also past a chunk     *)
(* larger than the limit it asked for.  Not so behind a loss marker, which *)
(* counts as the first element of the answer.                              *)
ReadProgress ==
    \A r \in Reader :
        last[r].more /\ last[r].loss = 0 => last[r].next > last[r].after

(* What a client that polls may rely on: it is told of every loss, gets on *)
(* where nothing is lost, and the byte counts behind both are right.       *)
ReadersServed == TypeOK /\ NoSilentGap /\ ReadProgress /\ Accounting

(* wait.go, WaitRegex "blocks until a regular expression matches the       *)
(* accumulated output since afterSeq": a waiter that has handled every     *)
(* notification and waits on has no match in the buffer.                   *)
MatchIsFound ==
    \A w \in Waiter :
        wpc[w] = "waiting" /\ tokens[w] = 0 => \A i \in hits : i < first
=============================================================================
