----------------------- MODULE ActivityUploaderProofs -----------------------
(***************************************************************************)
(* Theorems about ActivityUploader, for every number and size of events,   *)
(* every set of refused ones and all caps.                                 *)
(***************************************************************************)
EXTENDS ActivityUploader, SequenceTheorems, TLAPS

-----------------------------------------------------------------------------
(* The inductive invariant: besides the two properties, a running flush timer *)
(* means an open, idle uploader, which is why Flush never cuts a second batch. *)

Shape ==
  /\ queue \in Seq(AllEvents) /\ batch \in Seq(AllEvents)
  /\ Len(batch) <= MaxBatch
  /\ timer \in BOOLEAN /\ retry \in BOOLEAN /\ closed \in BOOLEAN /\ closing \in BOOLEAN

TimerIdle == timer => ~closed /\ batch = <<>>

UploaderInv == Shape /\ TimerIdle /\ QueueReach /\ NeverStranded

\* Cutting a batch off a non-empty queue: both parts are sequences of events, the
\* batch is not empty and within its limit, and the rest is shorter by as much.
LEMMA SendCuts ==
  ASSUME queue \in Seq(AllEvents), queue # <<>>, Send
  PROVE  /\ queue' \in Seq(AllEvents) /\ batch' \in Seq(AllEvents)
         /\ batch' # <<>> /\ Len(batch') <= MaxBatch
         /\ Len(queue') + Len(batch') = Len(queue)
         /\ queue' = <<>> \/ Len(batch') = MaxBatch
<1>1. Len(queue) \in Nat /\ Len(queue) > 0 /\ MaxBatch \in Nat /\ MaxBatch > 0
  BY LenProperties, EmptySeq, CapAssumption
<1>2. Cut \in 1..Len(queue) /\ Cut <= MaxBatch /\ (Cut = Len(queue) \/ Cut = MaxBatch)
  BY <1>1 DEF Cut
<1>3. \A i \in 1..Len(queue) : queue[i] \in AllEvents
  BY LenProperties
<1>4. batch' \in Seq(AllEvents) /\ Len(batch') = Cut
  <2>1. \A i \in 1..Cut : queue[i] \in AllEvents
    BY <1>2, <1>3
  <2> QED
    BY <1>2, <2>1, SubSeqProperties DEF Send
<1>5. queue' \in Seq(AllEvents) /\ Len(queue') = Len(queue) - Cut
  <2>1. \A i \in Cut + 1..Len(queue) : queue[i] \in AllEvents
    BY <1>2, <1>3
  <2> QED
    BY <1>1, <1>2, <2>1, SubSeqProperties DEF Send
<1>6. queue' = <<>> \/ Cut = MaxBatch
  BY <1>1, <1>2, SubSeqEmpty DEF Send
<1> QED
  BY <1>1, <1>2, <1>4, <1>5, <1>6, EmptySeq

-----------------------------------------------------------------------------
(* One lemma per action that moves events or timers. *)

LEMMA EnqueueStep ==
  ASSUME NEW e \in AllEvents, UploaderInv, Enqueue(e)
  PROVE  UploaderInv'
<1> USE DEF UploaderInv, Shape
<1>1. PICK n \in 0..Len(queue) :
        /\ n = Len(queue) \/ Len(queue) - n + 1 <= MaxQueue
        /\ queue' = Append(SubSeq(queue, n + 1, Len(queue)), e)
  BY DEF Enqueue, Room
<1>2. Len(queue) \in Nat /\ n \in Nat /\ n <= Len(queue) /\ MaxQueue \in Nat /\ MaxQueue > 0
        /\ MaxBatch \in Nat
  BY <1>1, LenProperties, CapAssumption
<1> DEFINE kept == SubSeq(queue, n + 1, Len(queue))
<1>3. kept \in Seq(AllEvents) /\ Len(kept) = Len(queue) - n
  <2>1. \A i \in n + 1..Len(queue) : queue[i] \in AllEvents
    BY <1>2, LenProperties
  <2>2. n + 1 \in Int /\ Len(queue) \in Int
    BY <1>2
  <2> QED
    BY <1>2, <2>1, <2>2, SubSeqProperties
<1>4. queue' = Append(kept, e)
  BY <1>1
<1> HIDE DEF kept
<1>5. queue' \in Seq(AllEvents) /\ Len(queue') = Len(queue) - n + 1
  BY <1>3, <1>4, AppendProperties
<1>6. Len(queue') <= MaxQueue
  BY <1>1, <1>2, <1>5
<1>7. UNCHANGED <<batch, retry, closed, closing>> /\ ~closed
        /\ timer' = (timer \/ ~(batch # <<>> \/ retry))
  BY DEF Enqueue, Armed
<1>8. QueueReach'
  <2>1. Len(batch) \in Nat
    BY LenProperties
  <2> QED
    BY <1>2, <1>5, <1>6, <1>7, <2>1, LenProperties DEF QueueReach
<1>9. Shape'
  BY <1>5, <1>7
<1>10. TimerIdle' /\ NeverStranded'
  BY <1>7 DEF TimerIdle, NeverStranded
<1> QED
  BY <1>8, <1>9, <1>10

\* An empty batch or queue.
LEMMA NothingIn ==
  ASSUME NEW s, s = <<>>
  PROVE  s \in Seq(AllEvents) /\ Len(s) = 0
  BY EmptySeq

LEMMA CapsNat == {MaxBatch, MaxQueue} \subseteq Nat
  BY CapAssumption

\* Flush, and Close when it sends: the new batch comes out of a queue within its
\* reach, and replaces no other.
LEMMA SendStep ==
  ASSUME UploaderInv, queue # <<>>, Send
  PROVE  QueueReach' /\ NeverStranded'
<1> USE DEF UploaderInv, Shape
<1>1. /\ queue' \in Seq(AllEvents) /\ batch' \in Seq(AllEvents)
      /\ batch' # <<>> /\ Len(batch') <= MaxBatch
      /\ Len(queue') + Len(batch') = Len(queue)
      /\ queue' = <<>> \/ Len(batch') = MaxBatch
  BY SendCuts
<1>2. /\ {Len(queue), Len(batch), Len(queue'), Len(batch')} \subseteq Nat
      /\ MaxBatch \in Nat /\ MaxQueue \in Nat
  BY <1>1, LenProperties, CapAssumption
<1>3. Len(queue) <= MaxQueue + MaxBatch
  BY <1>2 DEF QueueReach
<1>4. queue' = <<>> => Len(queue') = 0
  BY EmptySeq
<1>5. Len(queue') <= MaxQueue
  BY <1>1, <1>2, <1>3, <1>4
<1> QED
  BY <1>1, <1>2, <1>3, <1>5 DEF QueueReach, NeverStranded

LEMMA FlushStep == UploaderInv /\ Flush => UploaderInv'
<1> SUFFICES ASSUME UploaderInv, Flush PROVE UploaderInv'
  OBVIOUS
<1> USE DEF UploaderInv, Shape
<1>1. Send /\ queue # <<>> /\ timer' = FALSE /\ UNCHANGED <<retry, closed, closing>>
  BY DEF Flush
<1>2. Shape'
  BY <1>1, SendCuts
<1>3. TimerIdle'
  BY <1>1 DEF TimerIdle
<1> QED
  BY <1>1, <1>2, <1>3, SendStep

LEMMA RetryStep == UploaderInv /\ Retry => UploaderInv'
<1> SUFFICES ASSUME UploaderInv, Retry PROVE UploaderInv'
  OBVIOUS
<1>1. /\ retry' = FALSE /\ timer' = (timer \/ ~(batch # <<>> \/ closed))
      /\ UNCHANGED <<queue, batch, closed, closing>>
  BY DEF Retry, Armed
<1> QED
  BY <1>1 DEF UploaderInv, Shape, TimerIdle, QueueReach, NeverStranded

\* After a flight: the queue is dropped, or it is as it was with the batch put back
\* or left out; with something in it, a timer runs.
LEMMA LandStep ==
  ASSUME UploaderInv, NEW rest \in Seq(AllEvents), NEW bytes, NEW pausing \in BOOLEAN,
         Len(rest) <= MaxQueue + MaxBatch, Land(rest, bytes, pausing)
  PROVE  UploaderInv'
<1> USE DEF UploaderInv, Shape
<1>1. batch' = <<>> /\ closing' = FALSE /\ closed' = closed
  BY DEF Land
<1>2. batch' \in Seq(AllEvents) /\ Len(batch') = 0 /\ Len(batch') <= MaxBatch
  BY <1>1, NothingIn, CapsNat
<1>3. CASE closing
  <2>1. queue' = <<>> /\ timer' = FALSE /\ retry' = FALSE
    BY <1>3 DEF Land, Abandon
  <2>2. queue' \in Seq(AllEvents) /\ Len(queue') = 0
    BY <2>1, NothingIn
  <2>3. Shape'
    BY <1>1, <1>2, <2>1, <2>2
  <2>4. QueueReach'
    BY <1>1, <1>2, <2>2, CapsNat DEF QueueReach
  <2> QED
    BY <1>1, <2>1, <2>3, <2>4 DEF TimerIdle, NeverStranded
<1>4. CASE ~closing
  <2>1. /\ queue' = rest /\ retry' = (retry \/ pausing)
        /\ timer' = IF rest # <<>> /\ ~pausing THEN timer \/ ~(retry \/ closed) ELSE timer
    BY <1>4 DEF Land, Armed
  <2>2. QueueReach'
    BY <1>1, <1>2, <2>1, LenProperties, CapsNat DEF QueueReach
  <2>3. Shape'
    BY <1>1, <1>2, <2>1
  <2> QED
    BY <1>1, <2>1, <2>2, <2>3 DEF TimerIdle, NeverStranded
<1> QED
  BY <1>3, <1>4

LEMMA RequeueStep == UploaderInv /\ Requeue => UploaderInv'
<1> SUFFICES ASSUME UploaderInv, Requeue PROVE UploaderInv'
  OBVIOUS
<1>1. batch \o queue \in Seq(AllEvents) /\ Len(batch \o queue) = Len(batch) + Len(queue)
  BY ConcatProperties DEF UploaderInv, Shape
<1>2. Len(batch \o queue) <= MaxQueue + MaxBatch
  BY <1>1, LenProperties DEF UploaderInv, Shape, QueueReach
<1> QED
  BY <1>1, <1>2, LandStep DEF Requeue

LEMMA SucceedStep == UploaderInv /\ Succeed => UploaderInv'
<1> SUFFICES ASSUME UploaderInv, Succeed PROVE UploaderInv'
  OBVIOUS
<1>1. queue \in Seq(AllEvents) /\ {Len(queue), Len(batch), MaxQueue, MaxBatch} \subseteq Nat
  BY LenProperties, CapAssumption DEF UploaderInv, Shape
<1>2. Len(queue) <= MaxQueue + MaxBatch
  BY <1>1 DEF UploaderInv, QueueReach
<1>3. Land(queue, queueBytes, FALSE)
  BY DEF Succeed
<1> QED
  BY <1>1, <1>2, <1>3, LandStep

LEMMA CloseStep == UploaderInv /\ Close => UploaderInv'
<1> SUFFICES ASSUME UploaderInv, Close PROVE UploaderInv'
  OBVIOUS
<1> USE DEF UploaderInv, Shape
<1>1. closed' = TRUE
  BY DEF Close
<1>2. CASE queue # <<>> /\ batch = <<>>
  <2>1. Send /\ closing' = TRUE /\ timer' = FALSE /\ retry' = FALSE
    BY <1>2 DEF Close
  <2>2. Shape'
    BY <1>1, <1>2, <2>1, SendCuts
  <2> QED
    BY <1>2, <2>1, <2>2, SendStep DEF TimerIdle
<1>3. CASE ~(queue # <<>> /\ batch = <<>>)
  <2>1. queue' = <<>> /\ timer' = FALSE /\ retry' = FALSE /\ UNCHANGED <<batch, closing>>
    BY <1>3 DEF Close, Abandon
  <2>2. queue' \in Seq(AllEvents) /\ Len(queue') = 0 /\ Len(batch) \in Nat
    BY <2>1, NothingIn, LenProperties
  <2>3. Shape'
    BY <1>1, <2>1, <2>2
  <2>4. QueueReach'
    BY <2>1, <2>2, CapsNat DEF QueueReach
  <2> QED
    BY <1>1, <2>1, <2>3, <2>4 DEF TimerIdle, NeverStranded
<1> QED
  BY <1>2, <1>3

-----------------------------------------------------------------------------
(* The theorems. *)

LEMMA UploaderInit == Init => UploaderInv
<1> SUFFICES ASSUME Init PROVE UploaderInv
  OBVIOUS
<1>1. /\ queue \in Seq(AllEvents) /\ Len(queue) = 0
      /\ batch \in Seq(AllEvents) /\ Len(batch) = 0
  BY NothingIn DEF Init
<1>2. Shape
  <2>1. ~timer /\ ~retry /\ ~closed /\ ~closing /\ {timer, retry, closed, closing} \subseteq BOOLEAN
    BY DEF Init
  <2>2. Len(batch) <= MaxBatch
    BY <1>1, CapsNat
  <2> QED
    BY <1>1, <2>1, <2>2 DEF Shape
<1>3. QueueReach
  BY <1>1, CapsNat DEF QueueReach
<1> QED
  BY <1>2, <1>3 DEF Init, UploaderInv, TimerIdle, NeverStranded

LEMMA UploaderStep == UploaderInv /\ [Next]_vars => UploaderInv'
<1> SUFFICES ASSUME UploaderInv, [Next]_vars PROVE UploaderInv'
  OBVIOUS
<1> DEFINE core == <<queue, batch, timer, retry, closed, closing>>
<1>1. ASSUME UNCHANGED core PROVE UploaderInv'
  BY <1>1 DEF UploaderInv, Shape, TimerIdle, QueueReach, NeverStranded
<1>2. CASE \E e \in AllEvents : Enqueue(e)
  BY <1>2, EnqueueStep
<1>3. CASE \E e \in AllEvents : EnqueueClosed(e)
  BY <1>1, <1>3 DEF EnqueueClosed
<1>4. CASE Flush
  BY <1>4, FlushStep
<1>5. CASE Retry
  BY <1>5, RetryStep
<1>6. CASE Process \/ \E i \in DOMAIN late : ProcessLate(i)
  BY <1>1, <1>6 DEF Process, ProcessLate
<1>7. CASE Succeed
  BY <1>7, SucceedStep
<1>8. CASE FailRefused \/ FailBroken
  BY <1>8, RequeueStep DEF FailRefused, FailBroken
<1>9. CASE Close
  BY <1>9, CloseStep
<1>10. CASE UNCHANGED vars
  BY <1>1, <1>10 DEF vars
<1> QED
  BY <1>2, <1>3, <1>4, <1>5, <1>6, <1>7, <1>8, <1>9, <1>10 DEF Next

\* The invariant holds of every reachable state.
THEOREM UploaderInvariant == Spec => []UploaderInv
  BY UploaderInit, UploaderStep, PTL DEF Spec

\* The cap on queued events is exceeded by a returned batch at most (enqueue, 103,
\* and doFlush, 223).
THEOREM QueueStaysInReach == Spec => []QueueReach
<1>1. UploaderInv => QueueReach
  BY DEF UploaderInv
<1> QED
  BY <1>1, UploaderInvariant, PTL

\* While the uploader is open, events in its queue have a timer or a flight that
\* will look at them (scheduleFlush, 187, and doFlush, 232 and 242).
THEOREM QueueNeverStranded == Spec => []NeverStranded
<1>1. UploaderInv => NeverStranded
  BY DEF UploaderInv
<1> QED
  BY <1>1, UploaderInvariant, PTL

\* After close() no batch is begun (scheduleFlush, 187).
THEOREM ClosedIsQuiet == Spec => QuietOnceClosed
<1>1. ASSUME UploaderInv, [Next]_vars, closed, batch = <<>>
      PROVE  batch' = <<>>
  <2>1. ~timer
    BY <1>1 DEF UploaderInv, TimerIdle
  <2>2. CASE Next
    BY <1>1, <2>1, <2>2 DEF Next, Enqueue, EnqueueClosed, Flush, Retry, Process, ProcessLate,
       Succeed, FailRefused, FailBroken, Requeue, Land, Close
  <2> QED
    BY <1>1, <2>2 DEF vars
<1>2. UploaderInv /\ [Next]_vars => [closed /\ batch = <<>> => batch' = <<>>]_vars
  BY <1>1
<1> QED
  BY <1>2, UploaderInvariant, PTL DEF Spec, QuietOnceClosed


-----------------------------------------------------------------------------
(* Order and loss.  An event of a line of events is accounted for when each   *)
(* earlier event is in prior or ahead of it in the line.  Rows are accounted  *)
(* for by the events dropped; the batch, and the requests given up, by those  *)
(* with a row too; the queue by the batch as well.                            *)

Rooted(s, prior) ==
  \A i \in 1..Len(s) : \A e \in 1..s[i] - 1 : e \in prior \/ \E j \in 1..i - 1 : s[j] = e

Gone == DOMAIN lost \cup ToSet(stored)

LineTypes ==
  /\ seen \in Nat /\ queue \in Seq(AllEvents) /\ batch \in Seq(AllEvents)
  /\ stored \in Seq(AllEvents) /\ late \in Seq(Seq(AllEvents))

LateRooted ==
  \A x \in 1..Len(late) : Rooted(late[x], Gone) /\ ToSet(late[x]) \subseteq 1..seen

LineInv ==
  /\ LineTypes /\ NothingLostSilently /\ LateRooted
  /\ Rooted(stored, DOMAIN lost) /\ Rooted(batch, Gone) /\ Rooted(queue, Gone \cup ToSet(batch))
  /\ request = "stored" => ToSet(batch) \subseteq ToSet(stored)

\* How a \o b, of m and n events, reads.
Joined(all, a, m, b, n) ==
  /\ all \in Seq(AllEvents) /\ Len(all) = m + n /\ m \in Nat /\ n \in Nat
  /\ \A i \in 1..m : i \in 1..m + n /\ all[i] = a[i]
  /\ \A i \in 1..n : m + i \in 1..m + n /\ all[m + i] = b[i]
  /\ \A i \in 1..m + n : i \in 1..m \/ \E j \in 1..n : i = m + j

LEMMA JoinReads ==
  ASSUME NEW a \in Seq(AllEvents), NEW b \in Seq(AllEvents), NEW all, all = a \o b,
         NEW m, m = Len(a), NEW n, n = Len(b)
  PROVE  Joined(all, a, m, b, n)
<1>1. m \in Nat /\ n \in Nat
  BY LenProperties
<1>2. /\ all \in Seq(AllEvents) /\ Len(all) = m + n
      /\ \A i \in 1..m + n : all[i] = IF i <= m THEN a[i] ELSE b[i - m]
  BY ConcatProperties
<1>3. \A i \in 1..n : m + i \in 1..m + n /\ ~(m + i <= m) /\ (m + i) - m = i
  BY <1>1
<1>4. \A i \in 1..n : all[m + i] = b[i]
  BY <1>2, <1>3
<1>5. \A i \in 1..m + n : ~(i \in 1..m) => i - m \in 1..n /\ i = m + (i - m)
  BY <1>1
<1>6. \A i \in 1..m : i \in 1..m + n /\ i <= m
  BY <1>1
<1>7. \A i \in 1..m + n : i \in 1..m \/ \E j \in 1..n : i = m + j
  BY ONLY <1>5
<1>8. \A i \in 1..m : all[i] = a[i]
  BY <1>2, <1>6
<1> QED
  BY <1>1, <1>2, <1>3, <1>4, <1>6, <1>7, <1>8 DEF Joined

LEMMA JoinSet ==
  ASSUME NEW a \in Seq(AllEvents), NEW b \in Seq(AllEvents)
  PROVE  ToSet(a \o b) = ToSet(a) \cup ToSet(b)
<1>1. PICK all : all = a \o b
  OBVIOUS
<1>2. PICK m, n : m = Len(a) /\ n = Len(b)
  OBVIOUS
<1>3. /\ all \in Seq(AllEvents) /\ Len(all) = m + n
      /\ \A i \in 1..m : i \in 1..m + n /\ all[i] = a[i]
      /\ \A i \in 1..n : m + i \in 1..m + n /\ all[m + i] = b[i]
      /\ \A i \in 1..m + n : i \in 1..m \/ \E j \in 1..n : i = m + j
  <2>1. a \in Seq(AllEvents) /\ b \in Seq(AllEvents)
    OBVIOUS
  <2>2. Joined(all, a, m, b, n)
    BY ONLY <1>1, <1>2, <2>1, JoinReads
  <2> QED
    BY <2>2 DEF Joined
<1>4. DOMAIN a = 1..m /\ DOMAIN b = 1..n /\ DOMAIN all = 1..m + n
  BY <1>2, <1>3, LenProperties
<1>5. \A i \in 1..m + n : all[i] \in ToSet(a) \/ all[i] \in ToSet(b)
  BY <1>3, <1>4 DEF ToSet
<1>6. (\A i \in 1..m : a[i] \in ToSet(all)) /\ (\A i \in 1..n : b[i] \in ToSet(all))
  BY <1>3, <1>4 DEF ToSet
<1>7. ToSet(all) \subseteq ToSet(a) \cup ToSet(b)
  BY <1>4, <1>5 DEF ToSet
<1>8. ToSet(a) \subseteq ToSet(all) /\ ToSet(b) \subseteq ToSet(all)
  BY <1>4, <1>6 DEF ToSet
<1> QED
  BY <1>1, <1>7, <1>8

LEMMA RootedMore ==
  ASSUME NEW s, NEW p, NEW q, p \subseteq q, Rooted(s, p)
  PROVE  Rooted(s, q)
  BY DEF Rooted

LEMMA RootedNothing ==
  ASSUME NEW p
  PROVE  Rooted(<<>>, p) /\ ToSet(<<>>) = {} /\ <<>> \in Seq(AllEvents)
<1>1. Len(<<>>) = 0 /\ DOMAIN <<>> = {} /\ <<>> \in Seq(AllEvents)
  BY EmptySeq
<1> QED
  BY <1>1 DEF Rooted, ToSet

\* A line behind another.
LEMMA RootedJoin ==
  ASSUME NEW a \in Seq(AllEvents), NEW b \in Seq(AllEvents), NEW p,
         Rooted(a, p), Rooted(b, p \cup ToSet(a))
  PROVE  Rooted(a \o b, p)
<1>1. PICK all : all = a \o b
  OBVIOUS
<1>2. PICK m, n : m = Len(a) /\ n = Len(b)
  OBVIOUS
<1>3. /\ Len(all) = m + n /\ m \in Nat /\ n \in Nat
      /\ \A i \in 1..m : i \in 1..m + n /\ all[i] = a[i]
      /\ \A i \in 1..n : m + i \in 1..m + n /\ all[m + i] = b[i]
      /\ \A i \in 1..m + n : i \in 1..m \/ \E j \in 1..n : i = m + j
  <2>1. a \in Seq(AllEvents) /\ b \in Seq(AllEvents)
    OBVIOUS
  <2>2. Joined(all, a, m, b, n)
    BY ONLY <1>1, <1>2, <2>1, JoinReads
  <2> QED
    BY <2>2 DEF Joined
<1>4. DOMAIN a = 1..m
  BY <1>2, LenProperties
<1>5. SUFFICES ASSUME NEW i \in 1..m + n, NEW e \in 1..all[i] - 1, e \notin p
               PROVE  \E j \in 1..i - 1 : all[j] = e
  <2>1. ASSUME \A i \in 1..m + n : \A e \in 1..all[i] - 1 :
                 e \in p \/ \E j \in 1..i - 1 : all[j] = e
        PROVE  Rooted(all, p)
    BY ONLY <1>3, <2>1 DEF Rooted
  <2> QED
    BY <1>1, <2>1
<1>6. CASE i \in 1..m
  <2>1. PICK j \in 1..i - 1 : a[j] = e
    BY <1>2, <1>3, <1>5, <1>6 DEF Rooted
  <2>2. j \in 1..m
    BY <1>3, <1>6
  <2> QED
    BY <1>3, <2>1, <2>2
<1>7. ASSUME NEW k \in 1..n, i = m + k
      PROVE  \E j \in 1..i - 1 : all[j] = e
  <2>1. all[i] = b[k]
    BY <1>3, <1>7
  <2>2. e \in ToSet(a) \/ \E j \in 1..k - 1 : b[j] = e
    BY <1>2, <1>5, <2>1 DEF Rooted
  <2>3. CASE e \in ToSet(a)
    <3>1. PICK j \in 1..m : a[j] = e
      BY <1>4, <2>3 DEF ToSet
    <3>2. j \in 1..i - 1
      BY <1>3, <1>7
    <3> QED
      BY <1>3, <3>1, <3>2
  <2>4. CASE \E j \in 1..k - 1 : b[j] = e
    <3>1. PICK j \in 1..k - 1 : b[j] = e
      BY <2>4
    <3>2. j \in 1..n /\ m + j \in 1..i - 1
      BY <1>3, <1>7
    <3> QED
      BY <1>3, <3>1, <3>2
  <2> QED
    BY <2>2, <2>3, <2>4
<1> QED
  BY <1>3, <1>6, <1>7

\* Cutting a line in two.
CutInTwo(s, n, a, b, p) ==
  /\ a \in Seq(AllEvents) /\ Len(a) = n /\ b \in Seq(AllEvents)
  /\ ToSet(s) = ToSet(a) \cup ToSet(b)
  /\ Rooted(a, p) /\ Rooted(b, p \cup ToSet(a))

LEMMA RootedCut ==
  ASSUME NEW s \in Seq(AllEvents), NEW n \in 0..Len(s), NEW p, Rooted(s, p),
         NEW a, a = SubSeq(s, 1, n), NEW b, b = SubSeq(s, n + 1, Len(s))
  PROVE  CutInTwo(s, n, a, b, p)
<1>1. PICK m \in Nat : m = Len(s)
  BY LenProperties
<1>2. n \in Nat /\ n <= m /\ m - n \in Nat
  BY <1>1
<1>3. /\ \A i \in 1..m : s[i] \in AllEvents
      /\ DOMAIN s = 1..m
  BY <1>1, LenProperties, ElementOfSeq
<1>4. a \in Seq(AllEvents) /\ Len(a) = n /\ \A i \in 1..n : a[i] = s[i]
  <2>1. \A i \in 1..n : s[i] \in AllEvents
    BY <1>2, <1>3
  <2>2. /\ a \in Seq(AllEvents) /\ Len(a) = IF 1 <= n THEN n - 1 + 1 ELSE 0
        /\ \A i \in 1..n - 1 + 1 : a[i] = s[1 + i - 1]
    BY <1>2, <2>1, SubSeqProperties
  <2> QED
    BY <1>2, <2>2
<1>5. b \in Seq(AllEvents) /\ Len(b) = m - n /\ \A i \in 1..m - n : b[i] = s[n + i]
  <2>1. \A i \in n + 1..m : s[i] \in AllEvents
    BY <1>2, <1>3
  <2>2. n + 1 \in Int /\ m \in Int /\ m - (n + 1) + 1 = m - n
    BY <1>2
  <2>3. /\ b \in Seq(AllEvents) /\ Len(b) = IF n + 1 <= m THEN m - (n + 1) + 1 ELSE 0
        /\ \A i \in 1..m - (n + 1) + 1 : b[i] = s[n + 1 + i - 1]
    BY <1>1, <2>1, <2>2, SubSeqProperties
  <2>4. \A i \in 1..m - n : n + 1 + i - 1 = n + i
    BY <1>2
  <2> QED
    BY <1>2, <2>2, <2>3, <2>4
<1>6. DOMAIN a = 1..n /\ DOMAIN b = 1..m - n
  BY <1>4, <1>5, LenProperties
<1>7. /\ \A i \in 1..n : i \in 1..m
      /\ \A i \in 1..m - n : n + i \in 1..m
      /\ \A i \in 1..m : i \in 1..n \/ \E j \in 1..m - n : i = n + j
  <2>1. \A i \in 1..m : i \in 1..n \/ (i - n \in 1..m - n /\ i = n + (i - n))
    BY <1>2
  <2> QED
    BY <1>2, <2>1
<1>8. ToSet(s) = ToSet(a) \cup ToSet(b)
  <2>1. \A i \in 1..m : s[i] \in ToSet(a) \/ s[i] \in ToSet(b)
    <3> SUFFICES ASSUME NEW i \in 1..m PROVE s[i] \in ToSet(a) \/ s[i] \in ToSet(b)
      OBVIOUS
    <3>1. CASE i \in 1..n
      BY <1>4, <1>6, <3>1 DEF ToSet
    <3>2. ASSUME NEW j \in 1..m - n, i = n + j PROVE s[i] \in ToSet(b)
      BY <1>5, <1>6, <3>2 DEF ToSet
    <3> QED
      BY <1>7, <3>1, <3>2
  <2>2. (\A i \in 1..n : a[i] \in ToSet(s)) /\ (\A i \in 1..m - n : b[i] \in ToSet(s))
    BY <1>3, <1>4, <1>5, <1>7 DEF ToSet
  <2>3. ToSet(s) \subseteq ToSet(a) \cup ToSet(b)
    BY <1>3, <2>1 DEF ToSet
  <2>4. ToSet(a) \subseteq ToSet(s) /\ ToSet(b) \subseteq ToSet(s)
    BY <1>6, <2>2 DEF ToSet
  <2> QED
    BY <2>3, <2>4
<1>9. \A i \in 1..m : \A e \in 1..s[i] - 1 : e \in p \/ \E j \in 1..i - 1 : s[j] = e
  BY <1>1 DEF Rooted
<1>10. Rooted(a, p)
  <2> SUFFICES ASSUME NEW i \in 1..n, NEW e \in 1..a[i] - 1, e \notin p
               PROVE  \E j \in 1..i - 1 : a[j] = e
    BY <1>4 DEF Rooted
  <2>1. PICK j \in 1..i - 1 : s[j] = e
    BY <1>4, <1>7, <1>9
  <2>2. j \in 1..n
    BY <1>2
  <2> QED
    BY <1>4, <2>1, <2>2
<1>11. Rooted(b, p \cup ToSet(a))
  <2> SUFFICES ASSUME NEW i \in 1..m - n, NEW e \in 1..b[i] - 1, e \notin p, e \notin ToSet(a)
               PROVE  \E j \in 1..i - 1 : b[j] = e
    BY <1>5 DEF Rooted
  <2>1. PICK j \in 1..(n + i) - 1 : s[j] = e
    BY <1>5, <1>7, <1>9
  <2>2. j \notin 1..n
    BY <1>4, <1>6, <2>1 DEF ToSet
  <2>3. j - n \in 1..i - 1 /\ j - n \in 1..m - n /\ n + (j - n) = j
    BY <1>2, <2>2
  <2> QED
    BY <1>5, <2>1, <2>3
<1> QED
  BY <1>4, <1>5, <1>8, <1>10, <1>11 DEF CutInTwo

\* One event at the end of a line that, with prior, has all earlier ones.
LEMMA RootedAppend ==
  ASSUME NEW s \in Seq(AllEvents), NEW p, Rooted(s, p), NEW e \in AllEvents,
         1..e - 1 \subseteq p \cup ToSet(s), NEW t, t = Append(s, e)
  PROVE  t \in Seq(AllEvents) /\ ToSet(t) = ToSet(s) \cup {e} /\ Rooted(t, p)
<1>1. PICK m \in Nat : m = Len(s)
  BY LenProperties
<1>2. /\ t \in Seq(AllEvents) /\ Len(t) = m + 1 /\ t[m + 1] = e
      /\ \A i \in 1..m : t[i] = s[i]
  BY <1>1, AppendProperties
<1>3. DOMAIN s = 1..m /\ DOMAIN t = 1..m + 1
  BY <1>1, <1>2, LenProperties
<1>4. \A i \in 1..m + 1 : i \in 1..m \/ i = m + 1
  OBVIOUS
<1>5. m + 1 \in 1..m + 1 /\ \A i \in 1..m : i \in 1..m + 1
  OBVIOUS
<1>6. ToSet(t) = ToSet(s) \cup {e}
  <2>1. \A i \in 1..m + 1 : t[i] \in ToSet(s) \cup {e}
    BY <1>2, <1>3, <1>4 DEF ToSet
  <2>2. e \in ToSet(t) /\ \A i \in 1..m : s[i] \in ToSet(t)
    BY <1>2, <1>3, <1>5 DEF ToSet
  <2>3. ToSet(t) \subseteq ToSet(s) \cup {e}
    BY <1>3, <2>1 DEF ToSet
  <2>4. ToSet(s) \subseteq ToSet(t)
    BY <1>3, <2>2 DEF ToSet
  <2> QED
    BY <2>2, <2>3, <2>4
<1>7. Rooted(t, p)
  <2> SUFFICES ASSUME NEW i \in 1..m + 1, NEW x \in 1..t[i] - 1, x \notin p
               PROVE  \E j \in 1..i - 1 : t[j] = x
    BY <1>2 DEF Rooted
  <2>1. CASE i \in 1..m
    <3>1. PICK j \in 1..i - 1 : s[j] = x
      BY <1>1, <1>2, <2>1 DEF Rooted
    <3>2. j \in 1..m
      BY <2>1
    <3> QED
      BY <1>2, <3>1, <3>2
  <2>2. CASE i = m + 1
    <3>1. x \in ToSet(s)
      BY <1>2, <2>2
    <3>2. PICK j \in 1..m : s[j] = x
      BY <1>3, <3>1 DEF ToSet
    <3> QED
      BY <1>2, <2>2, <3>2
  <2> QED
    BY <1>4, <2>1, <2>2
<1> QED
  BY <1>2, <1>6, <1>7

-----------------------------------------------------------------------------
(* How each part of LineInv survives a step. *)

LEMMA DropAdds ==
  ASSUME NEW s, NEW why, lost' = Drop(s, why)
  PROVE  DOMAIN lost' = DOMAIN lost \cup ToSet(s)
  BY DEF Drop

\* No request is given up but the one in flight.
LateFrom ==
  \A x \in 1..Len(late') : late'[x] = batch \/ \E y \in 1..Len(late) : late'[x] = late[y]

LEMMA LateSame ==
  ASSUME LineTypes, UNCHANGED late
  PROVE  LateFrom /\ late' \in Seq(Seq(AllEvents))
  BY DEF LateFrom, LineTypes

LEMMA LateKept ==
  ASSUME LineInv, LateFrom, Gone \subseteq Gone', 1..seen \subseteq 1..seen'
  PROVE  LateRooted'
<1> SUFFICES ASSUME NEW x \in 1..Len(late')
             PROVE  Rooted(late'[x], Gone') /\ ToSet(late'[x]) \subseteq 1..seen'
  BY DEF LateRooted
<1>1. Rooted(batch, Gone) /\ ToSet(batch) \subseteq 1..seen
  BY DEF LineInv, NothingLostSilently
<1>2. \A y \in 1..Len(late) : Rooted(late[y], Gone) /\ ToSet(late[y]) \subseteq 1..seen
  BY DEF LineInv, LateRooted
<1>3. PICK s : s = late'[x]
  OBVIOUS
<1>4. Rooted(s, Gone) /\ ToSet(s) \subseteq 1..seen
  BY <1>1, <1>2, <1>3 DEF LateFrom
<1>5. PICK p, q : p = Gone /\ q = Gone'
  OBVIOUS
<1>6. Rooted(s, p) /\ p \subseteq q
  BY <1>4, <1>5
<1>7. Rooted(s, q)
  BY ONLY <1>6, RootedMore
<1> QED
  BY <1>3, <1>4, <1>5, <1>7

LEMMA EnqueueLine ==
  ASSUME LineInv, NEW e \in AllEvents, Enqueue(e)
  PROVE  LineInv'
<1>1. PICK n \in 0..Len(queue) :
        /\ queue' = Append(SubSeq(queue, n + 1, Len(queue)), e)
        /\ lost' = Drop(SubSeq(queue, 1, n), "evicted")
  BY DEF Enqueue
<1>2. PICK a, b : a = SubSeq(queue, 1, n) /\ b = SubSeq(queue, n + 1, Len(queue))
  OBVIOUS
<1>3. PICK p, q : p = Gone \cup ToSet(batch) /\ q = p \cup ToSet(a)
  OBVIOUS
<1>4. queue \in Seq(AllEvents) /\ n \in 0..Len(queue) /\ Rooted(queue, p)
  BY <1>3 DEF LineInv, LineTypes
<1>5. /\ a \in Seq(AllEvents) /\ b \in Seq(AllEvents) /\ ToSet(queue) = ToSet(a) \cup ToSet(b)
      /\ Rooted(b, q)
  <2>1. PICK s : s = queue
    OBVIOUS
  <2>2. s \in Seq(AllEvents) /\ n \in 0..Len(s) /\ Rooted(s, p)
    BY <1>4, <2>1
  <2>3. a = SubSeq(s, 1, n) /\ b = SubSeq(s, n + 1, Len(s))
    BY <1>2, <2>1
  <2>4. CutInTwo(s, n, a, b, p)
    BY ONLY <2>2, <2>3, RootedCut
  <2> QED
    BY <1>3, <2>1, <2>4 DEF CutInTwo
<1>6. UNCHANGED <<batch, request, late, stored>> /\ e = seen + 1 /\ seen' = e
  BY DEF Enqueue
<1>7. DOMAIN lost' = DOMAIN lost \cup ToSet(a)
  BY <1>1, <1>2, DropAdds
<1>8. /\ Gone' = Gone \cup ToSet(a) /\ q = Gone' \cup ToSet(batch')
  BY <1>3, <1>6, <1>7 DEF Gone
<1>9. 1..seen = UNION {ToSet(queue), ToSet(batch), ToSet(stored), DOMAIN lost}
  BY DEF LineInv, NothingLostSilently
<1>10. seen \in Nat /\ 1..e - 1 = 1..seen /\ 1..e = 1..seen \cup {e}
  <2>1. seen \in Nat
    BY DEF LineInv, LineTypes
  <2> QED
    BY <1>6, <2>1
<1>11. 1..e - 1 \subseteq q \cup ToSet(b)
  <2>1. 1..e - 1 \subseteq UNION {ToSet(a) \cup ToSet(b), ToSet(batch), ToSet(stored), DOMAIN lost}
    BY <1>5, <1>9, <1>10
  <2>2. q = ToSet(stored) \cup DOMAIN lost \cup ToSet(batch) \cup ToSet(a)
    BY <1>3 DEF Gone
  <2> QED
    BY <2>1, <2>2
<1>12. queue' \in Seq(AllEvents) /\ ToSet(queue') = ToSet(b) \cup {e} /\ Rooted(queue', q)
  <2>1. PICK t : t = Append(b, e)
    OBVIOUS
  <2>2. b \in Seq(AllEvents) /\ e \in AllEvents
    BY <1>5
  <2>3. Rooted(b, q)
    BY <1>5
  <2>4. t \in Seq(AllEvents) /\ ToSet(t) = ToSet(b) \cup {e} /\ Rooted(t, q)
    BY ONLY <1>11, <2>1, <2>2, <2>3, RootedAppend
  <2> QED
    BY <1>1, <1>2, <2>1, <2>4
<1>13. Rooted(queue', Gone' \cup ToSet(batch'))
  BY <1>8, <1>12
<1>14. Rooted(stored', DOMAIN lost') /\ Rooted(batch', Gone')
  <2>1. Rooted(stored, DOMAIN lost) /\ Rooted(batch, Gone)
    BY DEF LineInv
  <2>2. DOMAIN lost \subseteq DOMAIN lost' /\ Gone \subseteq Gone'
    BY <1>7, <1>8
  <2>3. Rooted(stored, DOMAIN lost')
    BY ONLY <2>1, <2>2, RootedMore
  <2>4. Rooted(batch, Gone')
    BY ONLY <2>1, <2>2, RootedMore
  <2> QED
    BY <1>6, <2>3, <2>4
<1>15. NothingLostSilently'
  <2>1. 1..seen' = 1..seen \cup {e}
    BY <1>6, <1>10
  <2>2. ToSet(batch') = ToSet(batch) /\ ToSet(stored') = ToSet(stored)
    BY <1>6
  <2> QED
    BY <1>5, <1>7, <1>9, <1>12, <2>1, <2>2 DEF NothingLostSilently
<1>16. LineTypes'
  <2>1. seen' \in Nat
    BY <1>6, <1>10
  <2> QED
    BY <1>6, <1>12, <2>1 DEF LineInv, LineTypes
<1>17. LateRooted'
  <2>1. LateFrom
    BY <1>6, LateSame DEF LineInv
  <2>2. Gone \subseteq Gone' /\ 1..seen \subseteq 1..seen'
    BY <1>6, <1>8, <1>10
  <2> QED
    BY <2>1, <2>2, LateKept
<1>18. request' = "stored" => ToSet(batch') \subseteq ToSet(stored')
  BY <1>6 DEF LineInv
<1> QED
  BY <1>13, <1>14, <1>15, <1>16, <1>17, <1>18 DEF LineInv

\* What drops the queue or a new event and moves nothing else.
LEMMA DropLine ==
  ASSUME LineInv, UNCHANGED <<batch, request, late, stored>>, seen' \in Nat,
         queue' \in {queue, <<>>}, DOMAIN lost \subseteq DOMAIN lost',
         1..seen \subseteq 1..seen', NothingLostSilently'
  PROVE  LineInv'
<1>1. Gone \subseteq Gone'
  BY DEF Gone
<1>2. LateRooted'
  BY <1>1, LateSame, LateKept DEF LineInv
<1>3. Rooted(stored, DOMAIN lost) /\ Rooted(batch, Gone) /\ Rooted(queue, Gone \cup ToSet(batch))
  BY DEF LineInv
<1>4. Gone \cup ToSet(batch) \subseteq Gone' \cup ToSet(batch)
  BY <1>1
<1>5. DOMAIN lost \subseteq DOMAIN lost'
  OBVIOUS
<1>6. Rooted(stored, DOMAIN lost')
  BY ONLY <1>3, <1>5, RootedMore
<1>7. Rooted(batch, Gone')
  BY ONLY <1>1, <1>3, RootedMore
<1>8. Rooted(queue, Gone' \cup ToSet(batch))
  BY ONLY <1>3, <1>4, RootedMore
<1>9. Rooted(queue', Gone' \cup ToSet(batch)) /\ queue' \in Seq(AllEvents)
  <2>1. Rooted(<<>>, Gone' \cup ToSet(batch)) /\ <<>> \in Seq(AllEvents)
    BY RootedNothing
  <2> QED
    BY <1>8, <2>1 DEF LineInv, LineTypes
<1>10. Rooted(stored', DOMAIN lost') /\ Rooted(batch', Gone') /\ Rooted(queue', Gone' \cup ToSet(batch'))
  BY <1>6, <1>7, <1>9
<1>11. LineTypes'
  BY <1>9 DEF LineInv, LineTypes
<1>12. request' = "stored" => ToSet(batch') \subseteq ToSet(stored')
  BY DEF LineInv
<1> QED
  BY <1>2, <1>10, <1>11, <1>12 DEF LineInv

LEMMA EnqueueClosedLine ==
  ASSUME LineInv, NEW e \in AllEvents, EnqueueClosed(e)
  PROVE  LineInv'
<1>1. UNCHANGED <<queue, batch, request, late, stored>> /\ e = seen + 1 /\ seen' = e
        /\ lost' = Drop(<<e>>, "unwanted")
  BY DEF EnqueueClosed
<1>2. ToSet(<<e>>) = {e}
  BY DEF ToSet
<1>3. DOMAIN lost' = DOMAIN lost \cup {e}
  BY <1>1, <1>2, DropAdds
<1>4. seen \in Nat
  BY DEF LineInv, LineTypes
<1>5. seen' \in Nat /\ 1..seen' = 1..seen \cup {e}
  BY <1>1, <1>4
<1>6. 1..seen = UNION {ToSet(queue), ToSet(batch), ToSet(stored), DOMAIN lost}
  BY DEF LineInv, NothingLostSilently
<1>7. ToSet(queue') = ToSet(queue) /\ ToSet(batch') = ToSet(batch) /\ ToSet(stored') = ToSet(stored)
  BY <1>1
<1>8. NothingLostSilently'
  BY <1>3, <1>5, <1>6, <1>7 DEF NothingLostSilently
<1> QED
  BY <1>1, <1>3, <1>5, <1>8, DropLine

\* Flush and Close: the batch is the head of the queue, the queue what follows it.
LEMMA SendLine ==
  ASSUME LineInv, batch = <<>>, Send, UNCHANGED <<seen, lost, late, stored>>
  PROVE  LineInv'
<1>1. PICK s, n, a, b, p : /\ s = queue /\ n = Cut /\ p = Gone
                           /\ a = SubSeq(s, 1, n) /\ b = SubSeq(s, n + 1, Len(s))
  OBVIOUS
<1>2. s \in Seq(AllEvents) /\ Rooted(s, p)
  <2>1. ToSet(batch) = {}
    BY RootedNothing
  <2> QED
    BY <1>1, <2>1 DEF LineInv, LineTypes
<1>3. n \in 0..Len(s)
  <2>1. Len(s) \in Nat /\ MaxBatch \in Nat
    BY <1>2, LenProperties, CapAssumption
  <2> QED
    BY <1>1, <2>1 DEF Cut
<1>4. CutInTwo(s, n, a, b, p)
  <2>1. a = SubSeq(s, 1, n) /\ b = SubSeq(s, n + 1, Len(s))
    BY <1>1
  <2> QED
    BY ONLY <1>2, <1>3, <2>1, RootedCut
<1>5. batch' = a /\ queue' = b /\ request' = "sent"
  BY <1>1 DEF Send
<1>6. Gone' = p
  BY <1>1 DEF Gone
<1>7. Rooted(batch', Gone') /\ Rooted(queue', Gone' \cup ToSet(batch'))
  BY <1>4, <1>5, <1>6 DEF CutInTwo
<1>8. LineTypes'
  BY <1>4, <1>5 DEF CutInTwo, LineInv, LineTypes
<1>9. NothingLostSilently'
  <2>1. ToSet(queue) = ToSet(queue') \cup ToSet(batch')
    BY <1>1, <1>4, <1>5 DEF CutInTwo
  <2>2. ToSet(batch) = {}
    BY RootedNothing
  <2>3. 1..seen = UNION {ToSet(queue), ToSet(batch), ToSet(stored), DOMAIN lost}
    BY DEF LineInv, NothingLostSilently
  <2> QED
    BY <2>1, <2>2, <2>3 DEF NothingLostSilently
<1>10. LateRooted'
  <2>1. Gone \subseteq Gone'
    BY <1>1, <1>6
  <2> QED
    BY <2>1, LateSame, LateKept DEF LineInv
<1>11. Rooted(stored', DOMAIN lost')
  BY DEF LineInv
<1> QED
  BY <1>5, <1>7, <1>8, <1>9, <1>10, <1>11 DEF LineInv

\* Rows appended, of the batch or of a request given up.
LEMMA RowsLine ==
  ASSUME LineInv, NEW s \in Seq(AllEvents), Rooted(s, Gone), ToSet(s) \subseteq 1..seen,
         stored' \in {stored, stored \o s}, LateFrom, late' \in Seq(Seq(AllEvents)),
         UNCHANGED <<seen, queue, batch, lost>>,
         request' = "stored" => ToSet(batch) \subseteq ToSet(stored')
  PROVE  LineInv'
<1>1. PICK d, g, r : d = DOMAIN lost /\ g = Gone /\ r = stored
  OBVIOUS
<1>2. r \in Seq(AllEvents) /\ Rooted(r, d) /\ Rooted(s, d \cup ToSet(r)) /\ s \in Seq(AllEvents)
  BY <1>1 DEF LineInv, LineTypes, Gone
<1>3. Rooted(r \o s, d)
  BY ONLY <1>2, RootedJoin
<1>4. ToSet(r \o s) = ToSet(r) \cup ToSet(s)
  BY ONLY <1>2, JoinSet
<1>5. r \o s \in Seq(AllEvents)
  BY <1>2, ConcatProperties
<1>6. /\ stored' \in Seq(AllEvents) /\ Rooted(stored', DOMAIN lost')
      /\ ToSet(stored) \subseteq ToSet(stored') /\ ToSet(stored') \subseteq ToSet(stored) \cup ToSet(s)
  <2>1. CASE stored' = stored
    BY <1>1, <1>2, <2>1
  <2>2. CASE stored' = stored \o s
    BY <1>1, <1>2, <1>3, <1>4, <1>5, <2>2
  <2> QED
    BY <2>1, <2>2
<1>7. Gone \subseteq Gone'
  BY <1>6 DEF Gone
<1>8. LateRooted'
  BY <1>7, LateKept
<1>9. LineTypes'
  BY <1>6 DEF LineInv, LineTypes
<1>10. NothingLostSilently'
  <2>1. 1..seen = UNION {ToSet(queue), ToSet(batch), ToSet(stored), DOMAIN lost}
    BY DEF LineInv, NothingLostSilently
  <2> QED
    BY <1>6, <2>1 DEF NothingLostSilently
<1>11. Rooted(batch', Gone') /\ Rooted(queue', Gone' \cup ToSet(batch'))
  <2>1. Rooted(batch, Gone) /\ Rooted(queue, Gone \cup ToSet(batch))
    BY DEF LineInv
  <2>2. Gone \cup ToSet(batch) \subseteq Gone' \cup ToSet(batch)
    BY <1>7
  <2>3. Rooted(batch, Gone')
    BY ONLY <1>7, <2>1, RootedMore
  <2>4. Rooted(queue, Gone' \cup ToSet(batch))
    BY ONLY <2>1, <2>2, RootedMore
  <2> QED
    BY <2>3, <2>4
<1> QED
  BY <1>6, <1>8, <1>9, <1>10, <1>11 DEF LineInv

LEMMA ProcessLine ==
  ASSUME LineInv, Process
  PROVE  LineInv'
<1>1. /\ batch \in Seq(AllEvents) /\ stored \in Seq(AllEvents)
      /\ Rooted(batch, Gone) /\ ToSet(batch) \subseteq 1..seen
  BY DEF LineInv, LineTypes, NothingLostSilently
<1>2. stored' \in {stored, stored \o batch}
  BY DEF Process
<1>3. request' = "stored" => stored' = stored \o batch
  BY DEF Process
<1>4. ToSet(stored \o batch) = ToSet(stored) \cup ToSet(batch)
  BY <1>1, JoinSet
<1>5. UNCHANGED <<seen, queue, batch, lost, late>>
  BY DEF Process
<1>6. LateFrom /\ late' \in Seq(Seq(AllEvents))
  BY <1>5, LateSame DEF LineInv
<1>7. request' = "stored" => ToSet(batch) \subseteq ToSet(stored')
  BY <1>3, <1>4
<1> QED
  BY <1>1, <1>2, <1>5, <1>6, <1>7, RowsLine

\* A request carried out late leaves the line of those given up.
LEMMA OneLess ==
  ASSUME NEW s \in Seq(Seq(AllEvents)), NEW i \in 1..Len(s), NEW t, t = RemoveAt(s, i)
  PROVE  /\ t \in Seq(Seq(AllEvents))
         /\ \A x \in 1..Len(t) : \E y \in 1..Len(s) : t[x] = s[y]
<1>1. PICK m \in Nat : m = Len(s)
  BY LenProperties
<1>2. i \in Nat /\ 1 <= i /\ i <= m /\ i - 1 \in Nat
  BY <1>1
<1>3. \A x \in 1..m : s[x] \in Seq(AllEvents)
  BY <1>1, ElementOfSeq
<1>4. PICK a, b : a = SubSeq(s, 1, i - 1) /\ b = SubSeq(s, i + 1, m)
  OBVIOUS
<1>5. a \in Seq(Seq(AllEvents)) /\ Len(a) = i - 1 /\ \A x \in 1..i - 1 : a[x] = s[x]
  <2>1. \A x \in 1..i - 1 : s[x] \in Seq(AllEvents)
    BY <1>2, <1>3
  <2>2. /\ a \in Seq(Seq(AllEvents)) /\ Len(a) = IF 1 <= i - 1 THEN i - 1 - 1 + 1 ELSE 0
        /\ \A x \in 1..i - 1 - 1 + 1 : a[x] = s[1 + x - 1]
    BY <1>2, <1>4, <2>1, SubSeqProperties
  <2>3. /\ (IF 1 <= i - 1 THEN i - 1 - 1 + 1 ELSE 0) = i - 1
        /\ i - 1 - 1 + 1 = i - 1 /\ \A x \in 1..i - 1 : 1 + x - 1 = x
    BY <1>2
  <2> QED
    BY <2>2, <2>3
<1>6. b \in Seq(Seq(AllEvents)) /\ Len(b) = m - i /\ \A x \in 1..m - i : b[x] = s[i + x]
  <2>1. \A x \in i + 1..m : s[x] \in Seq(AllEvents)
    BY <1>2, <1>3
  <2>2. i + 1 \in Int /\ m \in Int /\ m - (i + 1) + 1 = m - i
    BY <1>2
  <2>3. /\ b \in Seq(Seq(AllEvents)) /\ Len(b) = IF i + 1 <= m THEN m - (i + 1) + 1 ELSE 0
        /\ \A x \in 1..m - (i + 1) + 1 : b[x] = s[i + 1 + x - 1]
    BY <1>4, <2>1, <2>2, SubSeqProperties
  <2>4. \A x \in 1..m - i : i + 1 + x - 1 = i + x
    BY <1>2
  <2>5. Len(b) = m - i
    BY <1>2, <2>2, <2>3
  <2> QED
    BY <2>2, <2>3, <2>4, <2>5
<1>7. t = a \o b
  BY <1>1, <1>4 DEF RemoveAt
<1>8. /\ t \in Seq(Seq(AllEvents)) /\ Len(t) = (i - 1) + (m - i)
      /\ \A x \in 1..(i - 1) + (m - i) : t[x] = IF x <= i - 1 THEN a[x] ELSE b[x - (i - 1)]
  <2>1. PICK S : S = Seq(AllEvents)
    OBVIOUS
  <2>2. a \in Seq(S) /\ b \in Seq(S)
    BY <1>5, <1>6, <2>1
  <2>3. /\ t \in Seq(S) /\ Len(t) = Len(a) + Len(b)
        /\ \A x \in 1..Len(a) + Len(b) : t[x] = IF x <= Len(a) THEN a[x] ELSE b[x - Len(a)]
    BY ONLY <1>7, <2>2, ConcatProperties
  <2> QED
    BY <1>5, <1>6, <2>1, <2>3
<1>9. SUFFICES ASSUME NEW x \in 1..(i - 1) + (m - i)
               PROVE  \E y \in 1..m : t[x] = s[y]
  BY <1>1, <1>8
<1>10. CASE x <= i - 1
  <2>1. x \in 1..i - 1 /\ x \in 1..m
    BY <1>2, <1>10
  <2> QED
    BY <1>5, <1>8, <1>10, <2>1
<1>11. CASE ~(x <= i - 1)
  <2>1. x - (i - 1) \in 1..m - i /\ i + (x - (i - 1)) \in 1..m
    BY <1>2, <1>11
  <2> QED
    BY <1>6, <1>8, <1>11, <2>1
<1> QED
  BY <1>10, <1>11

LEMMA ProcessLateLine ==
  ASSUME LineInv, NEW i \in DOMAIN late, ProcessLate(i)
  PROVE  LineInv'
<1>1. late \in Seq(Seq(AllEvents)) /\ i \in 1..Len(late)
  BY LenProperties DEF LineInv, LineTypes
<1>2. PICK s : s = late[i]
  OBVIOUS
<1>3. s \in Seq(AllEvents)
  BY <1>1, <1>2, ElementOfSeq
<1>4. Rooted(s, Gone) /\ ToSet(s) \subseteq 1..seen
  BY <1>1, <1>2 DEF LineInv, LateRooted
<1>5. /\ stored' \in {stored, stored \o s} /\ late' = RemoveAt(late, i)
      /\ UNCHANGED <<seen, queue, batch, request, lost>>
  BY <1>2 DEF ProcessLate
<1>6. late' \in Seq(Seq(AllEvents)) /\ LateFrom
  BY <1>1, <1>5, OneLess DEF LateFrom
<1>7. request' = "stored" => ToSet(batch) \subseteq ToSet(stored')
  <2>1. ToSet(stored \o s) = ToSet(stored) \cup ToSet(s)
    BY <1>3, JoinSet DEF LineInv, LineTypes
  <2>2. ToSet(stored) \subseteq ToSet(stored')
    BY <1>5, <2>1
  <2> QED
    BY <1>5, <2>2 DEF LineInv
<1> QED
  BY <1>3, <1>4, <1>5, <1>6, <1>7, RowsLine

\* After a flight: what was queued or in flight is queued again, is dropped, or
\* has its rows.
LEMMA LandLine ==
  ASSUME LineInv, NEW rest \in Seq(AllEvents), NEW bytes, NEW pausing, Land(rest, bytes, pausing),
         Rooted(rest, Gone), 1..seen = UNION {ToSet(rest), ToSet(stored), DOMAIN lost},
         UNCHANGED stored, LateFrom, late' \in Seq(Seq(AllEvents))
  PROVE  LineInv'
<1>1. batch' = <<>> /\ request' = "none" /\ UNCHANGED seen
  BY DEF Land
<1>2. \/ queue' = <<>> /\ DOMAIN lost' = DOMAIN lost \cup ToSet(rest)
      \/ queue' = rest /\ lost' = lost
  <2>1. CASE closing
    <3>1. queue' = <<>> /\ lost' = Drop(rest, "abandoned")
      BY <2>1 DEF Land, Abandon
    <3>2. DOMAIN lost' = DOMAIN lost \cup ToSet(rest)
      BY <3>1, DropAdds
    <3> QED
      BY <3>1, <3>2
  <2>2. CASE ~closing
    BY <2>2 DEF Land
  <2> QED
    BY <2>1, <2>2
<1>3. ToSet(batch') = {} /\ ToSet(<<>>) = {}
  BY <1>1, RootedNothing
<1>4. Gone \subseteq Gone' /\ DOMAIN lost \subseteq DOMAIN lost'
  BY <1>2 DEF Gone
<1>5. Rooted(rest, Gone) /\ Rooted(stored, DOMAIN lost)
  BY DEF LineInv
<1>6. Rooted(rest, Gone')
  BY ONLY <1>4, <1>5, RootedMore
<1>7. Rooted(stored, DOMAIN lost')
  BY ONLY <1>4, <1>5, RootedMore
<1>8. Rooted(<<>>, Gone') /\ <<>> \in Seq(AllEvents)
  BY RootedNothing
<1>9. Rooted(queue', Gone') /\ queue' \in Seq(AllEvents)
  BY <1>2, <1>6, <1>8
<1>10. Gone' = Gone' \cup ToSet(batch')
  BY <1>3
<1>11. Rooted(queue', Gone' \cup ToSet(batch')) /\ Rooted(batch', Gone') /\ Rooted(stored', DOMAIN lost')
  BY <1>1, <1>7, <1>8, <1>9, <1>10
<1>12. NothingLostSilently'
  <2>1. ToSet(queue') \cup DOMAIN lost' = ToSet(rest) \cup DOMAIN lost
    BY <1>2, <1>3
  <2>2. UNION {ToSet(rest), ToSet(stored), DOMAIN lost}
          = UNION {ToSet(queue'), ToSet(batch'), ToSet(stored'), DOMAIN lost'}
    BY <1>3, <2>1
  <2> QED
    BY <1>1, <2>2 DEF NothingLostSilently
<1>13. LineTypes'
  BY <1>1, <1>8, <1>9 DEF LineInv, LineTypes
<1>14. LateRooted'
  BY <1>1, <1>4, LateKept
<1> QED
  BY <1>1, <1>11, <1>12, <1>13, <1>14 DEF LineInv

LEMMA RequeueLine ==
  ASSUME LineInv, Requeue, UNCHANGED stored, LateFrom, late' \in Seq(Seq(AllEvents))
  PROVE  LineInv'
<1>1. PICK a, b, p : a = batch /\ b = queue /\ p = Gone
  OBVIOUS
<1>2. a \in Seq(AllEvents) /\ b \in Seq(AllEvents) /\ Rooted(a, p) /\ Rooted(b, p \cup ToSet(a))
  BY <1>1 DEF LineInv, LineTypes
<1>3. Rooted(a \o b, p)
  BY ONLY <1>2, RootedJoin
<1>4. ToSet(a \o b) = ToSet(a) \cup ToSet(b)
  BY ONLY <1>2, JoinSet
<1>5. a \o b \in Seq(AllEvents)
  BY <1>2, ConcatProperties
<1>6. PICK rest : rest = a \o b
  OBVIOUS
<1>7. rest \in Seq(AllEvents) /\ Rooted(rest, Gone)
  BY <1>1, <1>3, <1>5, <1>6
<1>8. 1..seen = UNION {ToSet(rest), ToSet(stored), DOMAIN lost}
  <2>1. 1..seen = UNION {ToSet(queue), ToSet(batch), ToSet(stored), DOMAIN lost}
    BY DEF LineInv, NothingLostSilently
  <2> QED
    BY <1>1, <1>4, <1>6, <2>1
<1>9. Land(rest, queueBytes + Bytes(batch), TRUE)
  BY <1>1, <1>6 DEF Requeue
<1> QED
  BY <1>7, <1>8, <1>9, LandLine

LEMMA SucceedLine ==
  ASSUME LineInv, Succeed
  PROVE  LineInv'
<1>1. request = "stored" /\ Land(queue, queueBytes, FALSE) /\ UNCHANGED <<stored, late>>
  BY DEF Succeed
<1>2. ToSet(batch) \subseteq ToSet(stored)
  BY <1>1 DEF LineInv
<1>3. Gone \cup ToSet(batch) = Gone
  BY <1>2 DEF Gone
<1>4. queue \in Seq(AllEvents) /\ Rooted(queue, Gone)
  BY <1>3 DEF LineInv, LineTypes
<1>5. 1..seen = UNION {ToSet(queue), ToSet(stored), DOMAIN lost}
  <2>1. 1..seen = UNION {ToSet(queue), ToSet(batch), ToSet(stored), DOMAIN lost}
    BY DEF LineInv, NothingLostSilently
  <2> QED
    BY <1>2, <2>1
<1>6. LateFrom /\ late' \in Seq(Seq(AllEvents))
  BY <1>1, LateSame DEF LineInv
<1> QED
  BY <1>1, <1>4, <1>5, <1>6, LandLine

LEMMA FailLine ==
  ASSUME LineInv, FailRefused \/ FailBroken
  PROVE  LineInv'
<1>1. Requeue /\ UNCHANGED stored
  BY DEF FailRefused, FailBroken
<1>2. LateFrom /\ late' \in Seq(Seq(AllEvents))
  <2>1. CASE late' = late
    BY <2>1, LateSame DEF LineInv
  <2>2. CASE late' = Append(late, batch)
    <3>1. PICK s, S : s = late /\ S = Seq(AllEvents)
      OBVIOUS
    <3>2. s \in Seq(S) /\ batch \in S
      BY <3>1 DEF LineInv, LineTypes
    <3>3. PICK n : n = Len(s) /\ n \in Nat
      BY <3>2, LenProperties
    <3>4. PICK t : t = Append(s, batch)
      OBVIOUS
    <3>5. /\ t \in Seq(S) /\ Len(t) = n + 1 /\ t[n + 1] = batch
          /\ \A x \in 1..n : t[x] = s[x]
      BY ONLY <3>2, <3>3, <3>4, AppendProperties
    <3>6. \A x \in 1..n + 1 : t[x] = batch \/ \E y \in 1..n : t[x] = s[y]
      BY <3>3, <3>5
    <3>7. \A x \in 1..Len(late') : late'[x] = batch \/ \E y \in 1..Len(late) : late'[x] = late[y]
      BY <2>2, <3>1, <3>3, <3>4, <3>5, <3>6
    <3> QED
      BY <2>2, <3>1, <3>4, <3>5, <3>7 DEF LateFrom
  <2> QED
    BY <2>1, <2>2 DEF FailRefused, FailBroken
<1> QED
  BY <1>1, <1>2, RequeueLine

LEMMA CloseLine ==
  ASSUME LineInv, Close
  PROVE  LineInv'
<1>1. UNCHANGED <<seen, late, stored>>
  BY DEF Close
<1>2. CASE queue # <<>> /\ batch = <<>>
  BY <1>1, <1>2, SendLine DEF Close
<1>3. CASE ~(queue # <<>> /\ batch = <<>>)
  <2>1. queue' = <<>> /\ lost' = Drop(queue, "abandoned") /\ UNCHANGED <<batch, request>>
    BY <1>3 DEF Close, Abandon
  <2>2. DOMAIN lost' = DOMAIN lost \cup ToSet(queue)
    BY <2>1, DropAdds
  <2>3. NothingLostSilently'
    <3>1. 1..seen = UNION {ToSet(queue), ToSet(batch), ToSet(stored), DOMAIN lost}
      BY DEF LineInv, NothingLostSilently
    <3>2. ToSet(queue') = {}
      BY <2>1, RootedNothing
    <3>3. ToSet(batch') = ToSet(batch) /\ ToSet(stored') = ToSet(stored) /\ seen' = seen
      BY <1>1, <2>1
    <3> QED
      BY <2>2, <3>1, <3>2, <3>3 DEF NothingLostSilently
  <2>4. seen' \in Nat /\ 1..seen \subseteq 1..seen'
    BY <1>1 DEF LineInv, LineTypes
  <2> QED
    BY <1>1, <2>1, <2>2, <2>3, <2>4, DropLine
<1> QED
  BY <1>2, <1>3

-----------------------------------------------------------------------------

LEMMA LineInit == Init => LineInv
<1> SUFFICES ASSUME Init PROVE LineInv
  OBVIOUS
<1>1. /\ seen = 0 /\ queue = <<>> /\ batch = <<>> /\ request = "none"
      /\ late = <<>> /\ stored = <<>> /\ DOMAIN lost = {}
  BY DEF Init
<1>2. ToSet(<<>>) = {} /\ <<>> \in Seq(AllEvents)
  BY RootedNothing
<1>3. \A p : Rooted(<<>>, p)
  BY RootedNothing
<1>4. <<>> \in Seq(Seq(AllEvents)) /\ Len(<<>>) = 0
  BY EmptySeq
<1>5. LineTypes
  BY <1>1, <1>2, <1>4 DEF LineTypes
<1>6. LateRooted
  BY <1>1, <1>4 DEF LateRooted
<1>7. NothingLostSilently
  <2>1. 1..seen = {}
    BY <1>1
  <2> QED
    BY <1>1, <1>2, <2>1 DEF NothingLostSilently
<1>8. Rooted(stored, DOMAIN lost) /\ Rooted(batch, Gone) /\ Rooted(queue, Gone \cup ToSet(batch))
  BY <1>1, <1>3
<1> QED
  BY <1>1, <1>5, <1>6, <1>7, <1>8 DEF LineInv

LEMMA LineStep == UploaderInv /\ LineInv /\ [Next]_vars => LineInv'
<1> SUFFICES ASSUME UploaderInv, LineInv, [Next]_vars PROVE LineInv'
  OBVIOUS
<1> DEFINE line == <<seen, queue, batch, request, late, stored, lost>>
<1>1. ASSUME UNCHANGED line PROVE LineInv'
  BY <1>1 DEF LineInv, LineTypes, NothingLostSilently, LateRooted, Gone
<1>2. CASE \E e \in AllEvents : Enqueue(e)
  BY <1>2, EnqueueLine
<1>3. CASE \E e \in AllEvents : EnqueueClosed(e)
  BY <1>3, EnqueueClosedLine
<1>4. CASE Flush
  <2>1. batch = <<>>
    BY <1>4 DEF Flush, UploaderInv, TimerIdle
  <2>2. Send /\ UNCHANGED <<seen, lost, late, stored>>
    BY <1>4 DEF Flush
  <2> QED
    BY <2>1, <2>2, SendLine
<1>5. CASE Retry
  BY <1>1, <1>5 DEF Retry
<1>6. CASE Process
  BY <1>6, ProcessLine
<1>7. CASE \E i \in DOMAIN late : ProcessLate(i)
  BY <1>7, ProcessLateLine
<1>8. CASE Succeed
  BY <1>8, SucceedLine
<1>9. CASE FailRefused \/ FailBroken
  BY <1>9, FailLine
<1>10. CASE Close
  BY <1>10, CloseLine
<1>11. CASE UNCHANGED vars
  BY <1>1, <1>11 DEF vars
<1> QED
  BY <1>2, <1>3, <1>4, <1>5, <1>6, <1>7, <1>8, <1>9, <1>10, <1>11 DEF Next

\* The order and the whereabouts of the events, in every reachable state.
THEOREM LineInvariant == Spec => []LineInv
  BY LineInit, LineStep, UploaderInvariant, PTL DEF Spec

\* Rows stand in the order of the events but for those dropped, whatever batches
\* were put back (doFlush, 223) and whatever requests the server carried out
\* after the client gave them up.
THEOREM RowsAreInOrder == Spec => []InOrder
<1>1. LineInv => InOrder
  <2> SUFFICES ASSUME LineInv PROVE InOrder
    OBVIOUS
  <2>1. DOMAIN stored = 1..Len(stored)
    BY LenProperties DEF LineInv, LineTypes
  <2> QED
    BY <2>1 DEF LineInv, Rooted, InOrder
<1> QED
  BY <1>1, LineInvariant, PTL

\* Each event recorded waits, is in flight, has a row, or was dropped on the full
\* queue (enqueue, 103), by a closed uploader or by close().
THEOREM EveryEventIsAccountedFor == Spec => []NothingLostSilently
<1>1. LineInv => NothingLostSilently
  BY DEF LineInv
<1> QED
  BY <1>1, LineInvariant, PTL
=============================================================================
