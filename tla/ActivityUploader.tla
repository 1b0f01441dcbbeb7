-------------------------- MODULE ActivityUploader --------------------------
(***************************************************************************)
(* The runner's uploader of activity events                                *)
(* (packages/cli/src/runtime/trace/activity-uploader.ts) and the handler   *)
(* that stores what it uploads (apps/server/src/app.ts, 1801-1841;         *)
(* member-activity.ts, append).                                            *)
(*                                                                         *)
(* Events wait in a bounded queue.  One batch at a time is in flight; a    *)
(* batch that fails goes back to the head of the queue and is sent again   *)
(* after a pause.  A request the client has given up can still be carried  *)
(* out by the server.  Delays are not modelled: a timer runs or does not.  *)
(***************************************************************************)
EXTENDS Integers, FiniteSets, Sequences, SequencesExt

CONSTANTS
  MaxEvents,      \* bound: events recorded, numbered as they come
  Size,           \* event -> bytes of its JSON
  Invalid,        \* events the server's schema refuses
  MaxBatch,       \* maxBatchEvents
  MaxQueue,       \* maxQueueEvents
  MaxBytes,       \* maxQueueBytes
  MaxTroubles     \* bound: requests that break

AllEvents == 1..MaxEvents

ASSUME EventAssumption ==
  /\ MaxEvents \in Nat /\ MaxTroubles \in Nat
  /\ Size \in [AllEvents -> Nat] /\ Invalid \subseteq AllEvents
ASSUME CapAssumption == {MaxBatch, MaxQueue} \subseteq Nat \ {0} /\ MaxBytes \in Nat

VARIABLES
  seen,        \* events recorded so far
  queue,       \* queue
  queueBytes,  \* queueBytes
  timer,       \* flushTimer # null
  batch,       \* the batch of doFlush; inFlight while it is not empty
  request,     \* what has become of its POST
  retry,       \* backoffTimer # null
  closed,      \* closed
  closing,     \* close() awaits its doFlush()
  late,        \* requests given up and not yet carried out
  stored,      \* table member_activity of this member, by row id
  lost,        \* history: event -> why it was dropped
  troubles

vars == <<seen, queue, queueBytes, timer, batch, request, retry, closed, closing,
          late, stored, lost, troubles>>

Reasons == {"evicted", "unwanted", "abandoned"}

Bytes(s) == FoldSeq(LAMBDA e, n : Size[e] + n, 0, s)
Drop(s, why) == [e \in DOMAIN lost \cup ToSet(s) |-> IF e \in DOMAIN lost THEN lost[e] ELSE why]

TypeOK ==
  /\ seen \in 0..MaxEvents
  /\ queue \in Seq(AllEvents) /\ batch \in Seq(AllEvents)
  /\ queueBytes \in Int
  /\ {timer, retry, closed, closing} \subseteq BOOLEAN
  /\ request \in {"none", "sent", "stored", "refused"}
  /\ request = "none" <=> batch = <<>>
  /\ Len(batch) <= MaxBatch
  /\ closing => closed /\ batch # <<>>
  /\ timer => ~closed /\ ~retry /\ batch = <<>>
  /\ late \in Seq(Seq(AllEvents)) /\ stored \in Seq(AllEvents)
  /\ DOMAIN lost \subseteq 1..seen /\ \A e \in DOMAIN lost : lost[e] \in Reasons
  /\ troubles \in 0..MaxTroubles

Init ==
  /\ seen = 0
  /\ queue = <<>> /\ queueBytes = 0 /\ batch = <<>> /\ request = "none"
  /\ timer = FALSE /\ retry = FALSE
  /\ closed = FALSE /\ closing = FALSE
  /\ late = <<>> /\ stored = <<>>
  /\ lost = [e \in {} |-> "evicted"]
  /\ troubles = 0

-----------------------------------------------------------------------------
(* Recording. *)

BytesWithout(k) == queueBytes - Bytes(SubSeq(queue, 1, k))

RoomLate(e, k) ==                                                      \* mutant
  \/ k = Len(queue)
  \/ Len(queue) - k <= MaxQueue /\ BytesWithout(k) + Size[e] <= MaxBytes

\* Dropping the k oldest makes room for e; an event bigger than the cap wants
\* the queue empty.
Room(e, k) ==
  \/ k = Len(queue)
  \/ Len(queue) - k + 1 <= MaxQueue /\ BytesWithout(k) + Size[e] <= MaxBytes

\* scheduleFlush: it never arms the timer of a busy, backed-off or closed uploader.
Armed(sending, pausing, shut) == timer \/ ~(sending \/ pausing \/ shut)

\* enqueue(event)
Enqueue(e) ==
  /\ ~closed
  /\ e = seen + 1 /\ seen' = e
  /\ \E n \in 0..Len(queue) :
       /\ Room(e, n) /\ \A k \in 0..n - 1 : ~Room(e, k)      \* one by one
       /\ queue' = Append(SubSeq(queue, n + 1, Len(queue)), e)
       /\ queueBytes' = BytesWithout(n) + Size[e]
       /\ lost' = Drop(SubSeq(queue, 1, n), "evicted")
  /\ timer' = Armed(batch # <<>>, retry, FALSE)
  /\ UNCHANGED <<batch, request, retry, closed, closing, late, stored, troubles>>

EnqueueClosed(e) ==
  /\ closed
  /\ e = seen + 1 /\ seen' = e
  /\ lost' = Drop(<<e>>, "unwanted")
  /\ UNCHANGED <<queue, queueBytes, timer, batch, request, retry, closed, closing,
                 late, stored, troubles>>

-----------------------------------------------------------------------------
(* doFlush() up to its await: the first maxBatchEvents, whatever their size. *)

Cut == IF Len(queue) < MaxBatch THEN Len(queue) ELSE MaxBatch

Send ==
  /\ batch' = SubSeq(queue, 1, Cut)
  /\ queue' = SubSeq(queue, Cut + 1, Len(queue))
  /\ queueBytes' = queueBytes - Bytes(SubSeq(queue, 1, Cut))
  /\ request' = "sent"

\* The flush timer fires.
Flush ==
  /\ timer /\ timer' = FALSE
  /\ queue # <<>>
  /\ Send
  /\ UNCHANGED <<seen, retry, closed, closing, late, stored, lost, troubles>>

RetryForgetting ==                                                     \* mutant
  /\ retry /\ retry' = FALSE
  /\ UNCHANGED <<seen, queue, queueBytes, timer, batch, request, closed, closing,
                 late, stored, lost, troubles>>

\* The back-off timer fires.
Retry ==
  /\ retry /\ retry' = FALSE
  /\ timer' = Armed(batch # <<>>, FALSE, closed)
  /\ UNCHANGED <<seen, queue, queueBytes, batch, request, closed, closing,
                 late, stored, lost, troubles>>

-----------------------------------------------------------------------------
(* The server: POST /members/:name/activity.  The batch is checked, then     *)
(* appended in one transaction.                                              *)

Accepts(s) == ToSet(s) \cap Invalid = {}

Process ==
  /\ request = "sent"
  /\ IF Accepts(batch)
       THEN request' = "stored" /\ stored' = stored \o batch
       ELSE request' = "refused" /\ UNCHANGED stored
  /\ UNCHANGED <<seen, queue, queueBytes, timer, batch, retry, closed, closing, late, lost,
                 troubles>>

\* A request whose client is gone is carried out all the same.
ProcessLate(i) ==
  /\ stored' = IF Accepts(late[i]) THEN stored \o late[i] ELSE stored
  /\ late' = RemoveAt(late, i)
  /\ UNCHANGED <<seen, queue, queueBytes, timer, batch, request, retry, closed, closing, lost,
                 troubles>>

-----------------------------------------------------------------------------
(* doFlush() after its await, and the rest of close() when it waited for it. *)

Abandon(s) ==
  /\ queue' = <<>> /\ queueBytes' = 0 /\ lost' = Drop(s, "abandoned")
  /\ timer' = FALSE /\ retry' = FALSE

Land(rest, bytes, pausing) ==
  /\ batch' = <<>> /\ request' = "none" /\ closing' = FALSE
  /\ IF closing
       THEN Abandon(rest)
       ELSE /\ queue' = rest /\ queueBytes' = bytes /\ retry' = (retry \/ pausing)
            /\ timer' = IF rest # <<>> /\ ~pausing THEN Armed(FALSE, retry, closed) ELSE timer
            /\ UNCHANGED lost
  /\ UNCHANGED <<seen, closed>>

RequeueLast == Land(queue \o batch, queueBytes + Bytes(batch), TRUE)   \* mutant
RequeueNothing == Land(queue, queueBytes, TRUE)                        \* mutant

\* The failed batch returns to the head, whatever has been queued meanwhile.
Requeue == Land(batch \o queue, queueBytes + Bytes(batch), TRUE)

SucceedIdle ==                                                         \* mutant
  /\ request = "stored"
  /\ batch' = <<>> /\ request' = "none" /\ closing' = FALSE
  /\ IF closing THEN Abandon(queue) ELSE UNCHANGED <<queue, queueBytes, lost, timer, retry>>
  /\ UNCHANGED <<seen, closed, late, stored, troubles>>

Succeed ==
  /\ request = "stored"
  /\ Land(queue, queueBytes, FALSE)
  /\ UNCHANGED <<late, stored, troubles>>

\* The server answered 400.
FailRefused ==
  /\ request = "refused"
  /\ Requeue
  /\ UNCHANGED <<late, stored, troubles>>

\* The connection broke, the append failed, or the answer was lost.
FailBroken ==
  /\ request # "none"
  /\ troubles < MaxTroubles /\ troubles' = troubles + 1
  /\ late' \in {late} \cup (IF request = "sent" THEN {Append(late, batch)} ELSE {})
  /\ Requeue
  /\ UNCHANGED stored

-----------------------------------------------------------------------------
\* close(): a final doFlush() if something waits, which does nothing while a
\* batch is in flight; what then remains is dropped.
Close ==
  /\ ~closed /\ closed' = TRUE
  /\ IF queue # <<>> /\ batch = <<>>
       THEN Send /\ closing' = TRUE /\ timer' = FALSE /\ retry' = FALSE /\ UNCHANGED lost
       ELSE Abandon(queue) /\ UNCHANGED <<batch, request, closing>>
  /\ UNCHANGED <<seen, late, stored, troubles>>

Next ==
  \/ \E e \in AllEvents : Enqueue(e) \/ EnqueueClosed(e)
  \/ Flush \/ Retry \/ Process \/ Succeed \/ FailRefused \/ FailBroken \/ Close
  \/ \E i \in DOMAIN late : ProcessLate(i)

\* Timers fire; the server answers what reaches it or the HTTP client gives the
\* request up, and the runner reads the outcome.  A request given up may never be
\* carried out, and the uploader need not be closed.
Fairness == WF_vars(Flush) /\ WF_vars(Retry) /\ WF_vars(Process)
              /\ WF_vars(Succeed) /\ WF_vars(FailRefused)

Spec == Init /\ [][Next]_vars /\ Fairness

-----------------------------------------------------------------------------
(* Properties. *)

\* Rows are in the order of the events: when an event has a row, each earlier
\* event has an earlier row or was dropped, although batches are retried in
\* different cuts and given-up requests are carried out late.
InOrder ==
  \A k \in DOMAIN stored : \A e \in 1..stored[k] - 1 :
    e \in DOMAIN lost \/ \E l \in 1..k - 1 : stored[l] = e

\* Every event recorded waits, is in flight, has a row, or was dropped by a line
\* of the code that says so.
NothingLostSilently ==
  1..seen = UNION {ToSet(queue), ToSet(batch), ToSet(stored), DOMAIN lost}

\* The cap on queued events is exceeded by a returned batch at most, and never
\* while a batch is in flight.
QueueReach ==
  /\ Len(queue) + Len(batch) <= MaxQueue + MaxBatch
  /\ batch # <<>> => Len(queue) <= MaxQueue

\* An open uploader with something queued has a timer running or a batch in
\* flight: no failure, success or new event leaves the queue without a next step.
NeverStranded == queue # <<>> /\ ~closed => timer \/ retry \/ batch # <<>>

\* Once closed, no batch is begun: the one of close() itself is the last, even
\* when one that was in flight fails afterwards and is put back.
QuietOnceClosed == [][closed /\ batch = <<>> => batch' = <<>>]_vars

Settled(e) == e \in ToSet(stored) \cup DOMAIN lost
HeldUp == \E e \in Invalid : e \in ToSet(queue \o batch)

\* Each event gets its row or is dropped, unless the uploader is closed or an
\* event the server refuses holds up the line (it is retried for ever).
Delivered == \A e \in AllEvents : e <= seen ~> Settled(e) \/ closed \/ HeldUp

=============================================================================
