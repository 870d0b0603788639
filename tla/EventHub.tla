------------------------------- MODULE EventHub ------------------------------
(***************************************************************************)
(* The event stream of one operation: publication, the events file, the    *)
(* replay buffer and the fan-out to subscribers.  internal/events/hub.go,  *)
(* disk.go, event.go, and the SSE handlers of internal/daemon              *)
(* (handlers_events.go, handleOperationEvents) with the clients that read  *)
(* them (internal/client/operations.go, audit.go).                         *)
(*                                                                         *)
(* An event is its sequence number; Ephemeral stands for the one that is   *)
(* broadcast without a number when its publication failed.  A publisher    *)
(* holds Hub.mu for reading from the first look at the stream until it has *)
(* served the global subscribers, stream.mu only for the first half.       *)
(***************************************************************************)
EXTENDS Naturals, Sequences, FiniteSets, SequencesExt

CONSTANTS Pub, Sub, GlobalSub,
          MaxReplay,   \* MaxReplayBuffer: 256
          LiveBuffer,  \* SubscriberBufferSize: 64
          MaxSeq,      \* bound on the sequence numbers handed out
          MaxRestarts, MaxWriteFaults

ASSUME EventHubAssumption ==
    /\ Sub \cap GlobalSub = {}
    /\ MaxReplay \in Nat \ {0} /\ LiveBuffer \in Nat
    /\ MaxSeq \in Nat /\ MaxRestarts \in Nat /\ MaxWriteFaults \in Nat

Ephemeral == 0
\* The overflow notice for event e, which did not fit, and the id an event or a
\* notice is streamed with (FormatSSE): the number, for a notice the next one.
Overflow(e) == MaxSeq + 1 + e
Id(x) == IF x <= MaxSeq THEN x ELSE x - MaxSeq

VARIABLES stream,    \* "none" (not in h.streams), "open", "detached", "closed"
          lastSeq,   \* stream.lastSeq
          history,   \* stream.history
          disk,      \* the lines of <operation>.events.jsonl
          corrupt,   \* the file ends in a torn line
          hub,       \* "open", "closing", "globals", "closed"
          pub,       \* per publisher: where it is, and its event
          sub,       \* per subscriber: its channel and its place in the stream
          received,  \* history: events each subscriber took from its channels
          evicted,   \* history: events gone from the replay buffer before it asked
          acks,      \* history: how often each sequence number was acknowledged
          restarts, writeFaults

eventLog == <<lastSeq, history, disk, corrupt, writeFaults>>
readerState == <<sub, received, evicted>>
hvars == <<stream, hub, pub, acks, restarts, eventLog, readerState>>

Subscriber == Sub \cup GlobalSub
Capacity == MaxReplay + LiveBuffer
Events == Ephemeral .. Overflow(MaxSeq)

HubTypeOK ==
    /\ stream \in {"none", "open", "detached", "closed"}
    /\ lastSeq \in 0 .. MaxSeq /\ history \in Seq(Events) /\ disk \in Seq(Events)
    /\ corrupt \in BOOLEAN /\ hub \in {"open", "closing", "globals", "closed"}
    /\ pub \in [Pub -> [at : {"idle", "stream", "failed", "global"}, ev : Events]]
    /\ sub \in [Subscriber -> [at : {"out", "stream", "live", "ended"},
                               queue : Seq(Events), seen : Events]]
    /\ \A s \in Subscriber : Len(sub[s].queue) <= Capacity + 1

HubInit ==
    /\ stream = "none" /\ hub = "open"
    /\ lastSeq = 0 /\ history = <<>> /\ disk = <<>> /\ corrupt = FALSE
    /\ pub = [p \in Pub |-> [at |-> "idle", ev |-> Ephemeral]]
    /\ sub = [s \in Subscriber |-> [at |-> "out", queue |-> <<>>, seen |-> 0]]
    /\ received = [s \in Subscriber |-> {}] /\ evicted = [s \in Subscriber |-> {}]
    /\ acks = [n \in 1 .. MaxSeq |-> 0]
    /\ restarts = 0 /\ writeFaults = 0

\* The newest n elements.
Newest(s, n) == SubSeq(s, IF Len(s) > n THEN Len(s) - n + 1 ELSE 1, Len(s))

ReadLocked == \E p \in Pub : pub[p].at = "global"

-----------------------------------------------------------------------------
(* The stream and its file.                                                *)

\* loadHistoryFromDisk refuses a file with a line that is torn, foreign or not
\* ascending: only a torn write makes one.
Readable == ~corrupt

\* loadOrCreateStream: the sequence goes on from the file's greatest one.
ResumedAfter(h) == IF h = <<>> THEN 0 ELSE Last(h)

\* getOrCreateStream, under Hub.mu: a stream that is not registered is loaded
\* from the file, which must be readable.
GetStream ==
    /\ hub = "open" /\ ~ReadLocked
    /\ \/ stream = "open" /\ UNCHANGED <<stream, lastSeq, history>>
       \/ /\ stream = "none" /\ Readable
          /\ stream' = "open" /\ history' = Newest(disk, MaxReplay)
          /\ lastSeq' = ResumedAfter(history')
    /\ UNCHANGED <<disk, corrupt, writeFaults, hub, acks, restarts>>

\* persistEventToDisk: the old lines are read and checked, then the line is
\* appended, or the newest MaxReplay lines replace the file.
Persisted(n) == disk' = Newest(Append(disk, n), MaxReplay) /\ UNCHANGED corrupt

\* It fails before anything is written, after it (the directory sync), or with
\* part of an appended line in the file.
NotPersisted(n) ==
    \/ ~Readable /\ UNCHANGED <<disk, corrupt, writeFaults>>
    \/ /\ Readable /\ writeFaults < MaxWriteFaults /\ writeFaults' = writeFaults + 1
       /\ \/ UNCHANGED <<disk, corrupt>>
          \/ Persisted(n)
          \/ Len(disk) < MaxReplay /\ corrupt' = TRUE /\ UNCHANGED disk

-----------------------------------------------------------------------------
(* Subscribers' channels.                                                  *)

\* send: a full channel is closed.  The overflow notice gets in only when the
\* reader takes the first event between the two attempts (raced), and is then
\* appended behind a queue whose head is in the reader's hands.
Sent(c, e, raced) ==
    IF c.at # "live" THEN c
    ELSE IF Len(c.queue) < Capacity THEN [c EXCEPT !.queue = Append(@, e)]
    ELSE [c EXCEPT !.at = "ended", !.queue = IF raced THEN Append(@, Overflow(e)) ELSE @]

Broadcast(e, to) ==
    \E raced \in BOOLEAN :
        sub' = [s \in Subscriber |-> IF s \in to THEN Sent(sub[s], e, raced) ELSE sub[s]]

Closed(c) == IF c.at = "live" THEN [c EXCEPT !.at = "ended"] ELSE c

-----------------------------------------------------------------------------
(* Publish and BroadcastEphemeral.                                         *)

Get(p) ==
    /\ pub[p].at = "idle" /\ lastSeq < MaxSeq
    /\ pub' = [pub EXCEPT ![p].at = "stream"]
    /\ GetStream /\ UNCHANGED readerState

\* Under stream.mu: number, file, replay buffer, stream subscribers.  The hub,
\* or the stream under it, may have been closed since.
PublishLocked(p) ==
    /\ pub[p].at = "stream"
    /\ \/ /\ hub # "open" \/ stream # "open"
          /\ pub' = [pub EXCEPT ![p].at = "idle"] /\ UNCHANGED <<eventLog, sub>>
       \/ /\ hub = "open" /\ stream = "open" /\ lastSeq < MaxSeq
          /\ lastSeq' = lastSeq + 1
          /\ \/ /\ Readable /\ Persisted(lastSeq') /\ UNCHANGED writeFaults
                /\ history' = Newest(Append(history, lastSeq'), MaxReplay)
                /\ pub' = [pub EXCEPT ![p] = [at |-> "global", ev |-> lastSeq']]
                /\ Broadcast(lastSeq', Sub)
             \/ /\ NotPersisted(lastSeq') /\ UNCHANGED <<history, sub>>
                /\ pub' = [pub EXCEPT ![p].at = "failed"]
    /\ UNCHANGED <<stream, hub, received, evicted, acks, restarts>>

\* The global subscribers, then the locks go and the caller has its answer.
PublishGlobal(p) ==
    /\ pub[p].at = "global"
    /\ Broadcast(pub[p].ev, GlobalSub)
    /\ pub' = [pub EXCEPT ![p].at = "idle"]
    /\ acks' = IF pub[p].ev = Ephemeral THEN acks ELSE [acks EXCEPT ![pub[p].ev] = @ + 1]
    /\ UNCHANGED <<stream, hub, eventLog, received, evicted, restarts>>

\* A failed publication is reported; that of a terminal event is broadcast.
BroadcastEphemeral(p) ==
    /\ pub[p].at = "failed"
    /\ \/ pub' = [pub EXCEPT ![p].at = "idle"] /\ UNCHANGED sub
       \/ /\ hub = "open"
          /\ pub' = [pub EXCEPT ![p] = [at |-> "global", ev |-> Ephemeral]]
          /\ Broadcast(Ephemeral, IF stream = "open" THEN Sub ELSE {})
    /\ UNCHANGED <<stream, hub, eventLog, received, evicted, acks, restarts>>

-----------------------------------------------------------------------------
(* Subscribe, SubscribeGlobal and the streaming handlers.                  *)

SubscribeGet(s) ==
    /\ sub[s].at = "out"
    /\ sub' = [sub EXCEPT ![s].at = "stream"]
    /\ GetStream /\ UNCHANGED <<pub, received, evicted>>

\* The events of h after number n, in the order of h.
LaterThan(h, n) ==
    LET Taken[i \in 0 .. Len(h)] ==
            IF i = 0 THEN <<>>
            ELSE IF h[i] > n THEN Append(Taken[i - 1], h[i]) ELSE Taken[i - 1]
    IN Taken[Len(h)]

\* Events after the one the client has, from the buffer or else from the file.
ReplayedTooFew(h, after) == LaterThan(h, after + 1)
Replayed(h, after) == LaterThan(h, after)

AdmitsSubscriber == stream = "open" \/ stream = "detached"

\* Under stream.mu: replay and registration are one step.
Subscribe(s) ==
    LET h == IF history = <<>> THEN Newest(disk, MaxReplay) ELSE history IN
    /\ sub[s].at = "stream"
    /\ \/ /\ AdmitsSubscriber /\ (history # <<>> \/ Readable)
          /\ sub' = [sub EXCEPT ![s] = [at |-> "live", seen |-> @.seen,
                                        queue |-> Replayed(h, @.seen)]]
          /\ evicted' = [evicted EXCEPT ![s] = @ \cup
               {e \in 1 .. MaxSeq : Len(h) = MaxReplay /\ e < h[1]}]
       \/ /\ ~AdmitsSubscriber \/ (history = <<>> /\ ~Readable)
          /\ sub' = [sub EXCEPT ![s].at = "out"] /\ UNCHANGED evicted
    /\ UNCHANGED <<stream, hub, pub, eventLog, received, acks, restarts>>

SubscribeGlobal(s) ==
    /\ sub[s].at = "out" /\ ~ReadLocked
    /\ sub' = [sub EXCEPT ![s] = [at |-> IF hub = "open" THEN "live" ELSE "ended",
                                  seen |-> 0, queue |-> <<>>]]
    /\ UNCHANGED <<stream, hub, pub, eventLog, received, evicted, acks, restarts>>

\* streamSSEEvents: what the client brings back as Last-Event-ID is the id of
\* what it was sent last, be it an ephemeral event (0) or an overflow notice
\* (one past the event that did not fit).
Receive(s) ==
    /\ sub[s].at \in {"live", "ended"} /\ sub[s].queue # <<>>
    /\ LET e == Head(sub[s].queue) IN
       /\ received' = [received EXCEPT ![s] = IF s \in Sub THEN @ \cup {e} ELSE @]
       /\ sub' = [sub EXCEPT ![s].queue = Tail(@),
                             ![s].seen = IF s \in Sub THEN Id(e) ELSE @]
    /\ UNCHANGED <<stream, hub, pub, eventLog, evicted, acks, restarts>>

\* The channel ended, or the client or the handler left; it may come back.
Leave(s) ==
    /\ \/ sub[s].at = "ended" /\ sub[s].queue = <<>>
       \/ sub[s].at = "live" /\ (s \in GlobalSub => ~ReadLocked)
    /\ sub' = [sub EXCEPT ![s].at = "out", ![s].queue = <<>>]
    /\ UNCHANGED <<stream, hub, pub, eventLog, received, evicted, acks, restarts>>

-----------------------------------------------------------------------------
(* Close, and the next daemon.                                             *)

Close ==
    /\ hub = "open" /\ ~ReadLocked
    /\ hub' = "closing" /\ stream' = IF stream = "open" THEN "detached" ELSE stream
    /\ UNCHANGED <<pub, eventLog, readerState, acks, restarts>>

CloseStream ==
    /\ hub = "closing"
    /\ hub' = "globals" /\ stream' = IF stream = "detached" THEN "closed" ELSE stream
    /\ sub' = [s \in Subscriber |-> IF s \in Sub /\ stream = "detached"
                                      THEN Closed(sub[s]) ELSE sub[s]]
    /\ UNCHANGED <<pub, eventLog, received, evicted, acks, restarts>>

CloseGlobals ==
    /\ hub = "globals"
    /\ hub' = "closed"
    /\ sub' = [s \in Subscriber |-> IF s \in GlobalSub THEN Closed(sub[s]) ELSE sub[s]]
    /\ UNCHANGED <<stream, pub, eventLog, received, evicted, acks, restarts>>

\* The daemon ends, in order or not, and a new one starts over the same file.
Restart ==
    /\ restarts < MaxRestarts /\ restarts' = restarts + 1
    /\ stream' = "none" /\ hub' = "open" /\ lastSeq' = 0 /\ history' = <<>>
    /\ pub' = [p \in Pub |-> [at |-> "idle", ev |-> Ephemeral]]
    /\ sub' = [s \in Subscriber |-> [sub[s] EXCEPT !.at = "out", !.queue = <<>>]]
    /\ UNCHANGED <<disk, corrupt, writeFaults, received, evicted, acks>>

HubNext ==
    \/ \E p \in Pub : Get(p) \/ PublishLocked(p) \/ PublishGlobal(p) \/ BroadcastEphemeral(p)
    \/ \E s \in Sub : SubscribeGet(s) \/ Subscribe(s)
    \/ \E s \in GlobalSub : SubscribeGlobal(s)
    \/ \E s \in Subscriber : Receive(s) \/ Leave(s)
    \/ Close \/ CloseStream \/ CloseGlobals \/ Restart

HubSpec == HubInit /\ [][HubNext]_hvars

-----------------------------------------------------------------------------
\* The two events an overflow notice leads a client past: the one that did not
\* fit and the one after it.
Skipped(s) == UNION {{Id(x) - 1, Id(x)} : x \in {e \in received[s] : e > MaxSeq}}

\* A client that reconnects with the id of the last event it got misses no
\* acknowledged event, and gets none late: up to its place it has received all
\* of them, or they had left the replay buffer before it asked, or it was told
\* of an overflow, whose id leads it past two events and no more.  Across slow
\* reading, failed writes and restarts of the daemon.
NoAckedGap ==
    \A s \in Sub, e \in 1 .. MaxSeq :
        acks[e] > 0 /\ e <= sub[s].seen => e \in received[s] \cup evicted[s] \cup Skipped(s)

\* Once Close has run, every channel is closed, also that of a subscription
\* that was admitted before Close began and registers while it runs.
CloseLeavesNobody == hub = "closed" => \A s \in Subscriber : sub[s].at # "live"

\* No sequence number is acknowledged twice: neither failed writes nor a restart
\* with a compacted file let a number be handed out again.
SequenceIsFresh == \A e \in 1 .. MaxSeq : acks[e] <= 1

\* What the hub promises its clients, over restarts, overflows and Close.
HubHolds == HubTypeOK /\ NoAckedGap /\ CloseLeavesNobody /\ SequenceIsFresh
=============================================================================
