--------------------------- MODULE CodexSinkProofs ---------------------------
(***************************************************************************)
(* Theorems about CodexSink, for any number of events and troubles: codex  *)
(* takes the events in the order of the stream and none twice, a teardown  *)
(* leaves none behind that it could have sent, and nobody speaks of a turn *)
(* that codex has not begun.                                               *)
(***************************************************************************)
EXTENDS CodexSink, FiniteSetTheorems, SequenceTheorems, TLAPS

-----------------------------------------------------------------------------
(* Sequences of event numbers. *)

Increasing(q) == \A i, j \in DOMAIN q : i < j => q[i] < q[j]
Below(p, q) == \A x \in Members(p), y \in Members(q) : x < y

LEMMA NoEvents == Members(<<>>) = {} /\ Increasing(<<>>) /\ <<>> \in Seq(Nat)
BY EmptySeq DEF Members, Increasing

LEMMA EventsAppended ==
  ASSUME NEW q \in Seq(Nat), NEW e \in Nat
  PROVE  /\ Append(q, e) \in Seq(Nat)
         /\ Members(Append(q, e)) = Members(q) \cup {e}
         /\ Increasing(q) /\ (\A x \in Members(q) : x < e) => Increasing(Append(q, e))
<1> DEFINE n == Len(q)
           r == Append(q, e)
<1>1. /\ r \in Seq(Nat) /\ n \in Nat /\ DOMAIN q = 1..n /\ DOMAIN r = 1..n+1
      /\ \A i \in 1..n : r[i] = q[i]
      /\ r[n + 1] = e
  BY AppendProperties, LenProperties
<1> HIDE DEF n, r
<1>2. Members(r) = Members(q) \cup {e}
  <2>1. ASSUME NEW x \in Members(r) PROVE x \in Members(q) \cup {e}
    <3>1. PICK i \in 1..n+1 : x = r[i]
      BY <1>1 DEF Members
    <3> QED
      BY <1>1, <3>1 DEF Members
  <2>2. ASSUME NEW x \in Members(q) PROVE x \in Members(r)
    <3>1. PICK i \in 1..n : x = q[i]
      BY <1>1 DEF Members
    <3>2. i \in 1..n+1 /\ x = r[i]
      BY <1>1, <3>1
    <3> QED
      BY <1>1, <3>2 DEF Members
  <2>3. e \in Members(r)
    <3>1. n + 1 \in 1..n+1 /\ r[n + 1] = e
      BY <1>1
    <3> QED
      BY <1>1, <3>1 DEF Members
  <2> QED
    BY <2>1, <2>2, <2>3
<1>3. ASSUME Increasing(q), \A x \in Members(q) : x < e PROVE Increasing(r)
  <2> SUFFICES ASSUME NEW i \in 1..n+1, NEW j \in 1..n+1, i < j PROVE r[i] < r[j]
    BY <1>1 DEF Increasing
  <2>1. i \in 1..n /\ r[i] = q[i] /\ q[i] \in Members(q)
    BY <1>1 DEF Members
  <2>2. CASE j \in 1..n
    BY <1>1, <1>3, <2>1, <2>2 DEF Increasing
  <2>3. CASE j = n + 1
    BY <1>1, <1>3, <2>1, <2>3
  <2> QED
    BY <1>1, <2>2, <2>3
<1> QED
  BY <1>1, <1>2, <1>3 DEF r

LEMMA EventsJoined ==
  ASSUME NEW p \in Seq(Nat), NEW q \in Seq(Nat)
  PROVE  /\ p \o q \in Seq(Nat)
         /\ Members(p \o q) = Members(p) \cup Members(q)
         /\ Increasing(p) /\ Increasing(q) /\ Below(p, q) => Increasing(p \o q)
<1> DEFINE m == Len(p)
           n == Len(q)
           r == p \o q
<1>1. /\ r \in Seq(Nat) /\ m \in Nat /\ n \in Nat
      /\ DOMAIN p = 1..m /\ DOMAIN q = 1..n /\ DOMAIN r = 1..m+n
      /\ \A i \in 1..m+n : r[i] = IF i <= m THEN p[i] ELSE q[i - m]
  BY ConcatProperties, LenProperties
<1> HIDE DEF m, n, r
<1>2. \A i \in 1..m+n : \/ i \in 1..m /\ r[i] = p[i]
                        \/ i > m /\ i - m \in 1..n /\ r[i] = q[i - m]
  BY <1>1
<1>3. Members(r) = Members(p) \cup Members(q)
  <2>1. ASSUME NEW x \in Members(r) PROVE x \in Members(p) \cup Members(q)
    <3>1. PICK i \in 1..m+n : x = r[i]
      BY <1>1 DEF Members
    <3> QED
      BY <1>1, <1>2, <3>1 DEF Members
  <2>2. ASSUME NEW x \in Members(p) PROVE x \in Members(r)
    <3>1. PICK i \in 1..m : x = p[i]
      BY <1>1 DEF Members
    <3>2. i \in 1..m+n /\ x = r[i]
      BY <1>1, <3>1
    <3> QED
      BY <1>1, <3>2 DEF Members
  <2>3. ASSUME NEW x \in Members(q) PROVE x \in Members(r)
    <3>1. PICK i \in 1..n : x = q[i]
      BY <1>1 DEF Members
    <3>2. i + m \in 1..m+n /\ ~(i + m <= m) /\ (i + m) - m = i
      BY <1>1
    <3>3. x = r[i + m]
      BY <1>1, <3>1, <3>2
    <3> QED
      BY <1>1, <3>2, <3>3 DEF Members
  <2> QED
    BY <2>1, <2>2, <2>3
<1>4. ASSUME Increasing(p), Increasing(q), Below(p, q) PROVE Increasing(r)
  <2> SUFFICES ASSUME NEW i \in 1..m+n, NEW j \in 1..m+n, i < j PROVE r[i] < r[j]
    BY <1>1 DEF Increasing
  <2>1. CASE i \in 1..m /\ j \in 1..m
    <3>1. r[i] = p[i] /\ r[j] = p[j]
      BY <1>1, <2>1
    <3>2. p[i] < p[j]
      BY <1>1, <1>4, <2>1 DEF Increasing
    <3> QED
      BY <3>1, <3>2
  <2>2. CASE i \in 1..m /\ j > m
    <3>0. i <= m /\ ~(j <= m) /\ j - m \in 1..n
      BY <1>1, <2>2
    <3>1. r[i] = p[i] /\ j - m \in 1..n /\ r[j] = q[j - m]
      BY <1>1, <3>0
    <3>2. p[i] \in Members(p)
      BY <1>1, <2>2 DEF Members
    <3>3. q[j - m] \in Members(q)
      BY <1>1, <3>1 DEF Members
    <3>4. p[i] < q[j - m]
      BY <1>4, <3>2, <3>3 DEF Below
    <3> QED
      BY <3>1, <3>4
  <2>3. CASE i > m /\ j > m
    <3>1. /\ i - m \in 1..n /\ j - m \in 1..n /\ i - m < j - m
          /\ r[i] = q[i - m] /\ r[j] = q[j - m]
      BY <1>1, <1>2, <2>3
    <3> QED
      BY <1>1, <1>4, <3>1 DEF Increasing
  <2> QED
    BY <1>1, <2>1, <2>2, <2>3
<1> QED
  BY <1>1, <1>3, <1>4 DEF r

-----------------------------------------------------------------------------
(* Pipes.  Of a pipe's lines only those at the front go and those at the     *)
(* back come.                                                                *)

LEMMA FrontGone ==
  ASSUME NEW S, NEW q \in Seq(S), q # <<>>, NEW t, t = Tail(q)
  PROVE  /\ t \in Seq(S) /\ Len(q) \in Nat /\ Len(t) \in Nat /\ Len(t) + 1 = Len(q)
         /\ Head(q) \in S /\ Head(q) = q[1] /\ 1 \in 1..Len(q)
         /\ \A i \in 1..Len(t) : i + 1 \in 1..Len(q) /\ t[i] = q[i + 1]
         /\ \A i \in 1..Len(q) : q[i] \in S
<1>1. /\ t \in Seq(S) /\ Len(q) \in Nat /\ Len(t) = Len(q) - 1
      /\ Head(q) \in S /\ Head(q) = q[1]
      /\ \A i \in 1..Len(t) : t[i] = q[i + 1]
  BY HeadTailProperties, LenProperties
<1>2. Len(t) \in Nat
  BY <1>1, LenProperties
<1>3. \A i \in 1..Len(q) : q[i] \in S
  BY ElementOfSeq
<1> QED
  BY <1>1, <1>2, <1>3

LEMMA BackCome ==
  ASSUME NEW S, NEW q \in Seq(S), NEW new \in Seq(S), NEW t, t = q \o new
  PROVE  /\ t \in Seq(S) /\ Len(q) \in Nat /\ Len(new) \in Nat /\ Len(t) = Len(q) + Len(new)
         /\ \A i \in 1..Len(q) : i \in 1..Len(t) /\ t[i] = q[i]
         /\ \A i \in 1..Len(new) : Len(q) + i \in 1..Len(t) /\ t[Len(q) + i] = new[i]
         /\ \A i \in 1..Len(t) : \/ i \in 1..Len(q)
                                 \/ i > Len(q) /\ i - Len(q) \in 1..Len(new) /\ t[i] = new[i - Len(q)]
<1> DEFINE m == Len(q)
           n == Len(new)
<1>1. /\ t \in Seq(S) /\ m \in Nat /\ n \in Nat /\ Len(t) = m + n
      /\ \A i \in 1..m+n : t[i] = IF i <= m THEN q[i] ELSE new[i - m]
  BY ConcatProperties, LenProperties
<1> HIDE DEF m, n
<1>2. \A i \in 1..m : i \in 1..m+n /\ t[i] = q[i]
  BY <1>1
<1>3. \A i \in 1..n : m + i \in 1..m+n /\ t[m + i] = new[i]
  <2> TAKE i \in 1..n
  <2>1. m + i \in 1..m+n /\ ~(m + i <= m) /\ (m + i) - m = i
    BY <1>1
  <2> QED
    BY <1>1, <2>1
<1>4. \A i \in 1..m+n : \/ i \in 1..m
                        \/ i > m /\ i - m \in 1..n /\ t[i] = new[i - m]
  BY <1>1
<1> QED
  BY <1>1, <1>2, <1>3, <1>4 DEF m, n

-----------------------------------------------------------------------------
(* What is under way.                                                        *)

Lines ==
  [is : {"loaded", "status"}, what : Statuses] \cup [is : {"turn"}, what : Nat]
    \cup [is : {"answer"}, what : {"ok", "race", "refused"}] \cup [is : {"interrupted"}, what : {""}]

SinkType ==
  /\ received \in Nat /\ before \in Nat
  /\ pendingArgs \in Seq(Nat) /\ buffer \in Seq(Nat) /\ accepted \in Seq(Nat)
  /\ flight \in [kind : {"none", "start", "steer"}, turn : Nat, events : Seq(Nat),
                 retry : BOOLEAN, answer : {"none", "ok", "race", "refused"}]
  /\ seen \in [thread : BOOLEAN, status : Statuses, turn : Nat]
  /\ stdin \in Seq([kind : Kinds, turn : Nat, events : Seq(Nat)])
  /\ stdout \in Seq(Lines)
  /\ open \in BOOLEAN
  /\ stop \in Stages
  /\ codex \in [alive : BOOLEAN, status : Statuses \cup {"starting"}, turn : Nat, turns : Nat]

\* Before the thread is loaded, nothing goes beyond pendingArgs.
Attached ==
  IF seen.thread THEN pendingArgs = <<>>
  ELSE accepted = <<>> /\ buffer = <<>> /\ flight = NoFlight

Held ==
  /\ before <= received
  /\ Increasing(accepted) /\ Increasing(buffer) /\ Increasing(pendingArgs)
  /\ Members(accepted) \cup Members(buffer) \cup Members(pendingArgs) \subseteq 1..received
  /\ Below(accepted, buffer)

InFlightRight ==
  /\ Increasing(flight.events) /\ Members(flight.events) \subseteq 1..received
  /\ Below(flight.events, buffer)
  /\ flight.answer = "race" => Below(accepted, flight.events)
  /\ flight.answer = "ok" => Members(flight.events) \subseteq Members(accepted)

\* An input codex has not taken: the dispatch under way, or, once the connection
\* is closed, one that nobody waits for.
InputRight(r) ==
  /\ seen.thread
  /\ flight.answer \notin {"ok", "race"}
  /\ Increasing(r.events) /\ Members(r.events) \subseteq 1..received
  /\ Below(accepted, r.events) /\ Below(r.events, buffer)
  /\ open => /\ InFlight /\ flight.answer = "none" /\ flight.events = r.events
             /\ \A k \in 1..Len(stdout) : stdout[k].is # "answer"

\* An answer the adapter has not read.
AnswerRight(l) ==
  /\ InFlight /\ flight.answer = "none"
  /\ l.what = "race" => Below(accepted, flight.events)
  /\ l.what = "ok" => Members(flight.events) \subseteq Members(accepted)

InputsRight ==
  /\ \A i \in 1..Len(stdin) : stdin[i].kind # "interrupt" => InputRight(stdin[i])
  /\ \A i, j \in 1..Len(stdin) :
       stdin[i].kind # "interrupt" /\ stdin[j].kind # "interrupt" => i = j

AnswersRight ==
  open =>
    /\ \A i \in 1..Len(stdout) : stdout[i].is = "answer" => AnswerRight(stdout[i])
    /\ \A i, j \in 1..Len(stdout) : stdout[i].is = "answer" /\ stdout[j].is = "answer" => i = j

Accounted ==
  \A e \in 1..received :
    \/ e \in dropped
    \/ e \in Members(accepted) \cup Members(buffer) \cup Members(pendingArgs)
    \/ e \in Members(flight.events)

PipeInv ==
  SinkType /\ Attached /\ Held /\ InFlightRight /\ InputsRight /\ AnswersRight /\ Accounted

LEMMA PipeInit == Init => PipeInv
<1> SUFFICES ASSUME Init PROVE PipeInv
  OBVIOUS
<1>1. /\ received = 0 /\ before = 0 /\ pendingArgs = <<>> /\ buffer = <<>> /\ accepted = <<>>
      /\ flight = NoFlight /\ seen = [thread |-> FALSE, status |-> "notLoaded", turn |-> 0]
      /\ stdin = <<>> /\ stdout = <<>> /\ open = TRUE /\ stop = "no"
      /\ codex = [alive |-> TRUE, status |-> "starting", turn |-> 0, turns |-> 0]
  BY DEF Init
<1>2. Len(<<>>) = 0 /\ 1..0 = {}
  BY EmptySeq
<1>3. SinkType
  BY <1>1, EmptySeq, NoEvents DEF SinkType, NoFlight, Statuses, Stages
<1>4. Held /\ Attached /\ InFlightRight
  BY <1>1, NoEvents DEF Held, Attached, InFlightRight, NoFlight, Below
<1>5. InputsRight /\ AnswersRight
  BY <1>1, <1>2 DEF InputsRight, AnswersRight
<1>6. Accounted
  BY <1>1, <1>2 DEF Accounted
<1> QED
  BY <1>3, <1>4, <1>5, <1>6 DEF PipeInv

\* What a dispatch makes of the buffer.
LEMMA DispatchIs ==
  ASSUME SinkType, NEW s \in [thread : BOOLEAN, status : Statuses, turn : Nat], Dispatch(s)
  PROVE  \/ ~Ready(s) /\ UNCHANGED <<buffer, flight, stdin, dropped>>
         \/ /\ Ready(s) /\ buffer' = <<>> /\ dropped' = dropped \cup Members(buffer)
            /\ UNCHANGED <<flight, stdin>>
         \/ /\ Ready(s) /\ open /\ buffer' = <<>> /\ dropped' = dropped
            /\ \E k \in {"start", "steer"}, t \in Nat :
                 /\ flight' = [kind |-> k, turn |-> t, events |-> buffer, retry |-> FALSE,
                               answer |-> "none"]
                 /\ stdin' = Append(stdin, [kind |-> k, turn |-> t, events |-> buffer])
BY DEF Dispatch, Send, Input, Statuses

Seen == [thread : BOOLEAN, status : Statuses, turn : Nat]
Moves(s) == Nothing \/ (~InFlight /\ Dispatch(s))

\* Whatever the dispatch, and whether or not a line was read before it.
LEMMA MovesKeep ==
  ASSUME PipeInv, NEW s \in Seen, s.thread => seen.thread, Moves(s),
         NEW d \in {0, 1}, stdout' \in Seq(Lines), Len(stdout') + d = Len(stdout),
         \A i \in 1..Len(stdout') : i + d \in 1..Len(stdout) /\ stdout'[i] = stdout[i + d],
         UNCHANGED <<received, pendingArgs, open, accepted, codex>>,
         before' \in {before, received}, seen' \in Seen, seen'.thread = seen.thread,
         stop' \in Stages
  PROVE  PipeInv'
<1>1. /\ SinkType /\ Attached /\ Held /\ InFlightRight /\ InputsRight /\ AnswersRight /\ Accounted
      /\ Len(stdout) \in Nat /\ Len(stdout') \in Nat
  BY LenProperties DEF PipeInv, SinkType
<1>2. /\ received' = received /\ pendingArgs' = pendingArgs /\ open' = open
      /\ accepted' = accepted /\ codex' = codex
  OBVIOUS
<1>3. Held' /\ SinkType' /\ Attached' /\ InFlightRight' /\ InputsRight' /\ AnswersRight' /\ Accounted'
      <=> PipeInv'
  BY DEF PipeInv
<1>4. ASSUME UNCHANGED <<flight, stdin>>, buffer' \in {buffer, <<>>},
             \/ dropped' = dropped /\ buffer' = buffer
             \/ dropped' = dropped \cup Members(buffer)
      PROVE  PipeInv'
  <2>1. /\ buffer' \in Seq(Nat) /\ Increasing(buffer') /\ Members(buffer') \subseteq Members(buffer)
        /\ buffer = <<>> => buffer' = <<>>
    BY <1>1, <1>4, NoEvents DEF SinkType, Held
  <2>2. SinkType'
    BY <1>1, <1>2, <1>4, <2>1 DEF SinkType, Seen
  <2>3. Attached'
    BY <1>1, <1>2, <1>4, <2>1 DEF Attached
  <2>4. Held'
    <3>1. before' <= received'
      BY <1>1, <1>2 DEF Held, SinkType
    <3> QED
      BY <1>1, <1>2, <2>1, <3>1 DEF Held, Below
  <2>5. InFlightRight'
    BY <1>1, <1>2, <1>4, <2>1 DEF InFlightRight, Below
  <2>6. InputsRight'
    <3>1. ASSUME NEW i \in 1..Len(stdin'), stdin'[i].kind # "interrupt"
          PROVE  InputRight(stdin[i])'
      <4>1. InputRight(stdin[i]) /\ stdin'[i] = stdin[i]
        BY <1>1, <1>4, <3>1 DEF InputsRight
      <4>2. open => \A k \in 1..Len(stdout') : stdout'[k].is # "answer"
        BY <4>1 DEF InputRight
      <4> QED
        BY <1>2, <1>4, <2>1, <4>1, <4>2 DEF InputRight, Below, InFlight
    <3> QED
      BY <1>1, <1>4, <3>1 DEF InputsRight
  <2>7. AnswersRight'
    <3>1. ASSUME open, NEW i \in 1..Len(stdout'), stdout'[i].is = "answer"
          PROVE  AnswerRight(stdout[i])'
      <4>1. AnswerRight(stdout[i + d]) /\ stdout'[i] = stdout[i + d]
        BY <1>1, <3>1 DEF AnswersRight
      <4> QED
        BY <1>2, <1>4, <4>1 DEF AnswerRight, InFlight
    <3>2. ASSUME open, NEW i \in 1..Len(stdout'), NEW j \in 1..Len(stdout'),
                 stdout'[i].is = "answer", stdout'[j].is = "answer"
          PROVE  i = j
      <4>1. \A a, b \in 1..Len(stdout) :
              stdout[a].is = "answer" /\ stdout[b].is = "answer" => a = b
        BY <1>1, <3>2 DEF AnswersRight
      <4>2. /\ i + d \in 1..Len(stdout) /\ stdout[i + d].is = "answer"
            /\ j + d \in 1..Len(stdout) /\ stdout[j + d].is = "answer"
        BY <3>2
      <4>3. i + d = j + d
        BY ONLY <4>1, <4>2
      <4> QED
        BY ONLY <4>3, i \in 1..Len(stdout'), j \in 1..Len(stdout'), d \in {0, 1}
    <3> QED
      BY <1>2, <3>1, <3>2 DEF AnswersRight
  <2>8. Accounted'
    BY <1>1, <1>2, <1>4 DEF Accounted
  <2> QED
    BY <1>3, <2>2, <2>3, <2>4, <2>5, <2>6, <2>7, <2>8
<1>5. ASSUME ~InFlight, s.thread, open, buffer' = <<>>, dropped' = dropped,
             NEW k \in {"start", "steer"}, NEW t \in Nat,
             flight' = [kind |-> k, turn |-> t, events |-> buffer, retry |-> FALSE,
                        answer |-> "none"],
             stdin' = Append(stdin, [kind |-> k, turn |-> t, events |-> buffer])
      PROVE  PipeInv'
  <2> DEFINE n == Len(stdin)
  <2>0. PICK r : r = [kind |-> k, turn |-> t, events |-> buffer]
    OBVIOUS
  <2>1. /\ r \in [kind : Kinds, turn : Nat, events : Seq(Nat)] /\ r.kind # "interrupt"
        /\ r.events = buffer
    BY <1>1, <2>0 DEF SinkType, Kinds
  <2>2. /\ stdin' \in Seq([kind : Kinds, turn : Nat, events : Seq(Nat)])
        /\ n \in Nat /\ Len(stdin') = n + 1 /\ stdin'[n + 1] = r
        /\ \A i \in 1..n : stdin'[i] = stdin[i]
    BY <1>1, <1>5, <2>0, <2>1, AppendProperties, LenProperties DEF SinkType
  <2> HIDE DEF n
  <2>3. flight = NoFlight /\ seen.thread
    BY <1>5 DEF InFlight
  <2>4. \A i \in 1..n : stdin[i].kind = "interrupt"
    BY <1>1, <1>5 DEF InputsRight, InputRight, n
  <2>5. \A i \in 1..Len(stdout) : stdout[i].is # "answer"
    BY <1>1, <1>5 DEF AnswersRight, AnswerRight
  <2>6. \A i \in 1..Len(stdout') : stdout'[i].is # "answer"
    BY <2>5
  <2>7. /\ flight'.events = buffer /\ flight'.answer = "none" /\ flight' # NoFlight
        /\ flight' \in [kind : {"none", "start", "steer"}, turn : Nat, events : Seq(Nat),
                        retry : BOOLEAN, answer : {"none", "ok", "race", "refused"}]
    BY <1>1, <1>5 DEF NoFlight, SinkType
  <2>8. SinkType'
    BY <1>1, <1>2, <1>5, <2>2, <2>7, NoEvents DEF SinkType, Seen
  <2>9. Attached'
    BY <1>1, <1>2, <2>3 DEF Attached
  <2>10. Held'
    <3>1. before' <= received'
      BY <1>1, <1>2 DEF Held, SinkType
    <3> QED
      BY <1>1, <1>2, <1>5, <3>1, NoEvents DEF Held, Below
  <2>11. InFlightRight'
    BY <1>1, <1>2, <1>5, <2>7, NoEvents DEF InFlightRight, Held, Below
  <2>12. InputRight(r)'
    BY <1>1, <1>2, <1>5, <2>1, <2>3, <2>6, <2>7, NoEvents DEF InputRight, Held, Below, InFlight
  <2>13. \A i \in 1..Len(stdin') : stdin'[i].kind # "interrupt" => i = n + 1
    <3>1. \A i \in 1..Len(stdin') : i \in 1..n \/ i = n + 1
      BY <2>2
    <3> QED
      BY <2>2, <2>4, <3>1
  <2>14. InputsRight'
    <3>1. ASSUME NEW i \in 1..Len(stdin'), stdin'[i].kind # "interrupt"
          PROVE  InputRight(stdin[i])'
      <4>1. stdin'[i] = r
        BY <2>2, <2>13, <3>1
      <4> QED
        BY <2>12, <4>1 DEF InputRight, InFlight
    <3> QED
      BY <2>13, <3>1 DEF InputsRight
  <2>15. AnswersRight'
    BY <2>6 DEF AnswersRight
  <2>16. Accounted'
    BY <1>1, <1>2, <1>5, <2>3, <2>7, NoEvents DEF Accounted, NoFlight
  <2> QED
    BY <1>3, <2>8, <2>9, <2>10, <2>11, <2>14, <2>15, <2>16
<1>6. CASE Nothing
  BY <1>4, <1>6 DEF Nothing
<1>7. CASE ~InFlight /\ Dispatch(s)
  <2>1. s \in [thread : BOOLEAN, status : Statuses, turn : Nat]
    BY DEF Seen
  <2>2. CASE UNCHANGED <<buffer, flight, stdin, dropped>>
    BY <1>4, <2>2
  <2>3. CASE buffer' = <<>> /\ dropped' = dropped \cup Members(buffer) /\ UNCHANGED <<flight, stdin>>
    BY <1>4, <2>3
  <2>4. CASE /\ Ready(s) /\ open /\ buffer' = <<>> /\ dropped' = dropped
             /\ \E k \in {"start", "steer"}, t \in Nat :
                  /\ flight' = [kind |-> k, turn |-> t, events |-> buffer, retry |-> FALSE,
                                answer |-> "none"]
                  /\ stdin' = Append(stdin, [kind |-> k, turn |-> t, events |-> buffer])
    BY <1>5, <1>7, <2>4 DEF Ready
  <2> QED
    BY <1>1, <1>7, <2>1, <2>2, <2>3, <2>4, DispatchIs
<1> QED
  BY <1>6, <1>7 DEF Moves

LEMMA ReceiveKeeps == PipeInv /\ Receive => PipeInv'
<1> SUFFICES ASSUME PipeInv, Receive PROVE PipeInv'
  OBVIOUS
<1>1. /\ SinkType /\ Attached /\ Held /\ InFlightRight /\ InputsRight /\ AnswersRight /\ Accounted
      /\ received \in Nat /\ received' = received + 1 /\ received' \in Nat
  BY DEF PipeInv, SinkType, Receive
<1>2. UNCHANGED <<flight, seen, stdin, stdout, open, stop, codex, accepted, dropped, before>>
  BY DEF Receive
<1>3. /\ 1..received \subseteq 1..received' /\ received' \in 1..received'
      /\ \A x \in 1..received : x < received'
      /\ \A x \in 1..received' : x \in 1..received \/ x = received'
  BY <1>1
<1>4. \/ seen.thread /\ buffer' = Append(buffer, received') /\ pendingArgs' = pendingArgs
      \/ ~seen.thread /\ pendingArgs' = Append(pendingArgs, received') /\ buffer' = buffer
  BY DEF Receive
<1>5. /\ buffer' \in Seq(Nat) /\ Increasing(buffer') /\ Members(buffer') \subseteq 1..received'
      /\ Members(buffer') \subseteq Members(buffer) \cup {received'}
      /\ Members(buffer) \subseteq Members(buffer')
  <2>1. \A x \in Members(buffer) : x < received'
    BY <1>1, <1>3 DEF Held
  <2>2. /\ buffer \in Seq(Nat) /\ Increasing(buffer) /\ Members(buffer) \subseteq 1..received
    BY <1>1 DEF Held, SinkType
  <2>3. CASE buffer' = Append(buffer, received')
    <3>1. PICK e : e = received'
      OBVIOUS
    <3>2. /\ Append(buffer, e) \in Seq(Nat) /\ Increasing(Append(buffer, e))
          /\ Members(Append(buffer, e)) = Members(buffer) \cup {e}
      BY <1>1, <2>1, <2>2, <3>1, EventsAppended
    <3> QED
      BY <1>3, <2>2, <2>3, <3>1, <3>2
  <2>4. CASE buffer' = buffer
    BY <1>3, <2>2, <2>4
  <2> QED
    BY <1>4, <2>3, <2>4
<1>6. /\ pendingArgs' \in Seq(Nat) /\ Increasing(pendingArgs')
      /\ Members(pendingArgs') \subseteq 1..received'
      /\ Members(pendingArgs) \subseteq Members(pendingArgs')
  <2>1. \A x \in Members(pendingArgs) : x < received'
    BY <1>1, <1>3 DEF Held
  <2>2. /\ pendingArgs \in Seq(Nat) /\ Increasing(pendingArgs)
        /\ Members(pendingArgs) \subseteq 1..received
    BY <1>1 DEF Held, SinkType
  <2>3. CASE pendingArgs' = Append(pendingArgs, received')
    <3>1. PICK e : e = received'
      OBVIOUS
    <3>2. /\ Append(pendingArgs, e) \in Seq(Nat) /\ Increasing(Append(pendingArgs, e))
          /\ Members(Append(pendingArgs, e)) = Members(pendingArgs) \cup {e}
      BY <1>1, <2>1, <2>2, <3>1, EventsAppended
    <3> QED
      BY <1>3, <2>2, <2>3, <3>1, <3>2
  <2>4. CASE pendingArgs' = pendingArgs
    BY <1>3, <2>2, <2>4
  <2> QED
    BY <1>4, <2>3, <2>4
<1>7. received' \in Members(buffer') \cup Members(pendingArgs')
  <2>1. PICK e : e = received'
    OBVIOUS
  <2>2. /\ Members(Append(buffer, e)) = Members(buffer) \cup {e}
        /\ Members(Append(pendingArgs, e)) = Members(pendingArgs) \cup {e}
    BY <1>1, <2>1, EventsAppended DEF SinkType
  <2> QED
    BY <1>4, <2>1, <2>2
<1>8. SinkType'
  BY <1>1, <1>2, <1>5, <1>6 DEF SinkType
<1>9. Attached'
  BY <1>1, <1>2, <1>4 DEF Attached
<1>10. Held'
  <2>1. before' <= received'
    BY <1>1, <1>2 DEF Held, SinkType
  <2>2. Below(accepted, buffer)'
    BY <1>1, <1>2, <1>3, <1>5 DEF Held, Below
  <2> QED
    BY <1>1, <1>2, <1>3, <1>5, <1>6, <2>1, <2>2 DEF Held
<1>11. InFlightRight'
  <2>1. Below(flight.events, buffer)'
    BY <1>1, <1>2, <1>3, <1>5 DEF InFlightRight, Below
  <2> QED
    BY <1>1, <1>2, <1>3, <2>1 DEF InFlightRight
<1>12. InputsRight'
  <2>1. ASSUME NEW i \in 1..Len(stdin'), stdin'[i].kind # "interrupt"
        PROVE  InputRight(stdin[i])'
    <3>1. InputRight(stdin[i])
      BY <1>1, <1>2, <2>1 DEF InputsRight
    <3>2. Below(stdin[i].events, buffer')
      BY <1>3, <1>5, <3>1 DEF InputRight, Below
    <3> QED
      BY <1>2, <1>3, <3>1, <3>2 DEF InputRight, InFlight
  <2> QED
    BY <1>1, <1>2, <2>1 DEF InputsRight
<1>13. AnswersRight'
  BY <1>1, <1>2 DEF AnswersRight, AnswerRight, InFlight
<1>14. Accounted'
  BY <1>1, <1>2, <1>3, <1>5, <1>6, <1>7 DEF Accounted
<1> QED
  BY <1>8, <1>9, <1>10, <1>11, <1>12, <1>13, <1>14 DEF PipeInv

\* attachSink drains pendingArgs into a buffer that is still empty.
LEMMA AttachKeeps ==
  ASSUME PipeInv, ~seen.thread, NEW l, ReadLoaded(l), l.what \in Statuses,
         stdout # <<>>, stdout' = Tail(stdout),
         UNCHANGED <<received, open, codex, accepted, before>>
  PROVE  PipeInv'
<1>1. /\ SinkType /\ Attached /\ Held /\ InFlightRight /\ InputsRight /\ AnswersRight /\ Accounted
  BY DEF PipeInv
<1>2. /\ accepted = <<>> /\ buffer = <<>> /\ flight = NoFlight
      /\ flight.events = <<>> /\ flight.answer = "none"
  BY <1>1 DEF Attached, NoFlight
<1>3. /\ seen' = [seen EXCEPT !.thread = TRUE, !.status = l.what]
      /\ buffer' = pendingArgs /\ pendingArgs' = <<>>
      /\ UNCHANGED <<received, open, codex, accepted, before, flight, stdin, dropped, stop>>
  BY DEF ReadLoaded
<1>4. /\ stdout' \in Seq(Lines) /\ Len(stdout) \in Nat /\ Len(stdout') \in Nat
      /\ \A i \in 1..Len(stdout') : i + 1 \in 1..Len(stdout) /\ stdout'[i] = stdout[i + 1]
  <2>1. stdout \in Seq(Lines)
    BY <1>1 DEF SinkType
  <2> QED
    BY <2>1, FrontGone
<1>5. seen' \in [thread : BOOLEAN, status : Statuses, turn : Nat] /\ seen'.thread
  BY <1>1, <1>3 DEF SinkType
<1>6. \A i \in 1..Len(stdin) : stdin[i].kind = "interrupt"
  BY <1>1 DEF InputsRight, InputRight
<1>7. SinkType'
  BY <1>1, <1>3, <1>4, <1>5, NoEvents DEF SinkType
<1>8. Attached'
  BY <1>3, <1>5 DEF Attached
<1>9. Held'
  BY <1>1, <1>2, <1>3, NoEvents DEF Held, Below
<1>10. InFlightRight'
  BY <1>1, <1>2, <1>3, NoEvents DEF InFlightRight, Below
<1>11. InputsRight'
  BY <1>3, <1>6 DEF InputsRight
<1>12. AnswersRight'
  <2>1. open => \A i \in 1..Len(stdout) : stdout[i].is # "answer"
    BY <1>1, <1>2 DEF AnswersRight, AnswerRight, InFlight
  <2>2. open => \A i \in 1..Len(stdout') : stdout'[i].is # "answer"
    BY <1>4, <2>1
  <2> QED
    BY <1>3, <2>2 DEF AnswersRight
<1>13. Accounted'
  BY <1>1, <1>2, <1>3, NoEvents DEF Accounted
<1> QED
  BY <1>7, <1>8, <1>9, <1>10, <1>11, <1>12, <1>13 DEF PipeInv

\* An answer is read: no other is on its way, and no input.
LEMMA AnswerKeeps ==
  ASSUME PipeInv, open, stdout # <<>>, Head(stdout).is = "answer", stdout' = Tail(stdout),
         flight' = [flight EXCEPT !.answer = Head(stdout).what],
         UNCHANGED <<received, open, codex, accepted, before, stop, pendingArgs, buffer, seen,
                     stdin, dropped>>
  PROVE  PipeInv'
<1>1. /\ SinkType /\ Attached /\ Held /\ InFlightRight /\ InputsRight /\ AnswersRight /\ Accounted
      /\ stdout \in Seq(Lines)
  BY DEF PipeInv, SinkType
<1>2. PICK l : l = Head(stdout)
  OBVIOUS
<1>3. /\ stdout' \in Seq(Lines) /\ Len(stdout) \in Nat /\ Len(stdout') \in Nat
      /\ l \in Lines /\ l = stdout[1] /\ 1 \in 1..Len(stdout)
      /\ \A i \in 1..Len(stdout') : i + 1 \in 1..Len(stdout) /\ stdout'[i] = stdout[i + 1]
  BY <1>1, <1>2, FrontGone
<1>4. l.is = "answer" /\ l.what \in {"ok", "race", "refused"}
  BY <1>2, <1>3 DEF Lines
<1>5. AnswerRight(l)
  BY <1>1, <1>3, <1>4 DEF AnswersRight
<1>6. \A i \in 1..Len(stdout') : stdout'[i].is # "answer"
  <2> SUFFICES ASSUME NEW i \in 1..Len(stdout'), stdout'[i].is = "answer" PROVE FALSE
    OBVIOUS
  <2>1. i + 1 = 1
    BY <1>1, <1>3, <1>4 DEF AnswersRight
  <2> QED
    BY <1>3, <2>1
<1>7. \A i \in 1..Len(stdin) : stdin[i].kind = "interrupt"
  BY <1>1, <1>3, <1>4 DEF InputsRight, InputRight
<1>8. /\ flight' \in [kind : {"none", "start", "steer"}, turn : Nat, events : Seq(Nat),
                      retry : BOOLEAN, answer : {"none", "ok", "race", "refused"}]
      /\ flight'.events = flight.events /\ flight'.answer = l.what
  BY <1>1, <1>2, <1>4 DEF SinkType
<1>9. seen.thread
  BY <1>1, <1>5 DEF Attached, AnswerRight, InFlight
<1>10. SinkType'
  BY <1>1, <1>3, <1>8 DEF SinkType
<1>11. Attached' /\ Held'
  BY <1>1, <1>9 DEF Attached, Held
<1>12. InFlightRight'
  BY <1>1, <1>5, <1>8 DEF InFlightRight, AnswerRight
<1>13. InputsRight'
  BY <1>7 DEF InputsRight
<1>14. AnswersRight'
  BY <1>6 DEF AnswersRight
<1>15. Accounted'
  BY <1>1, <1>8 DEF Accounted
<1> QED
  BY <1>10, <1>11, <1>12, <1>13, <1>14, <1>15 DEF PipeInv

\* The connection ends: a request without an answer is rejected.
LEMMA RejectKeeps ==
  ASSUME PipeInv, open' = FALSE, flight' = Rejected(flight), stop' \in Stages,
         UNCHANGED <<received, pendingArgs, buffer, seen, stdin, stdout, codex, accepted,
                     dropped, before>>
  PROVE  PipeInv'
<1>1. /\ SinkType /\ Attached /\ Held /\ InFlightRight /\ InputsRight /\ AnswersRight /\ Accounted
  BY DEF PipeInv
<1>2. /\ flight' \in [kind : {"none", "start", "steer"}, turn : Nat, events : Seq(Nat),
                      retry : BOOLEAN, answer : {"none", "ok", "race", "refused"}]
      /\ flight'.events = flight.events
      /\ flight'.answer = flight.answer \/ flight'.answer = "refused"
      /\ flight = NoFlight => flight' = NoFlight
  BY <1>1 DEF Rejected, SinkType
<1>3. SinkType'
  BY <1>1, <1>2 DEF SinkType
<1>4. Attached' /\ Held'
  BY <1>1, <1>2 DEF Attached, Held
<1>5. InFlightRight'
  BY <1>1, <1>2 DEF InFlightRight
<1>6. InputsRight'
  <2>1. ASSUME NEW i \in 1..Len(stdin'), stdin'[i].kind # "interrupt"
        PROVE  InputRight(stdin[i])'
    <3>1. InputRight(stdin[i])
      BY <1>1, <2>1 DEF InputsRight
    <3> QED
      BY <1>2, <3>1 DEF InputRight
  <2> QED
    BY <1>1, <2>1 DEF InputsRight
<1>7. AnswersRight'
  BY DEF AnswersRight
<1>8. Accounted'
  BY <1>1, <1>2 DEF Accounted
<1> QED
  BY <1>3, <1>4, <1>5, <1>6, <1>7, <1>8 DEF PipeInv

\* turn/interrupt is no input.
LEMMA InterruptKeeps ==
  ASSUME PipeInv, NEW r \in [kind : {"interrupt"}, turn : Nat, events : Seq(Nat)],
         stdin' = Append(stdin, r), stop' \in Stages,
         UNCHANGED <<received, pendingArgs, buffer, flight, seen, stdout, open, codex, accepted,
                     dropped, before>>
  PROVE  PipeInv'
<1>1. /\ SinkType /\ Attached /\ Held /\ InFlightRight /\ InputsRight /\ AnswersRight /\ Accounted
      /\ stdin \in Seq([kind : Kinds, turn : Nat, events : Seq(Nat)])
  BY DEF PipeInv, SinkType
<1>2. r \in [kind : Kinds, turn : Nat, events : Seq(Nat)] /\ r.kind = "interrupt"
  BY DEF Kinds
<1>3. /\ stdin' \in Seq([kind : Kinds, turn : Nat, events : Seq(Nat)])
      /\ Len(stdin) \in Nat /\ Len(stdin') = Len(stdin) + 1
      /\ \A i \in 1..Len(stdin) : stdin'[i] = stdin[i]
      /\ stdin'[Len(stdin) + 1] = r
  BY <1>1, <1>2, AppendProperties, LenProperties
<1>4. \A i \in 1..Len(stdin') : stdin'[i].kind # "interrupt" =>
        i \in 1..Len(stdin) /\ stdin'[i] = stdin[i]
  <2>1. \A i \in 1..Len(stdin') : i \in 1..Len(stdin) \/ i = Len(stdin) + 1
    BY <1>3
  <2> QED
    BY <1>2, <1>3, <2>1
<1>5. SinkType'
  BY <1>1, <1>3 DEF SinkType
<1>6. Attached' /\ Held' /\ InFlightRight' /\ Accounted' /\ AnswersRight'
  BY <1>1 DEF Attached, Held, InFlightRight, Accounted, AnswersRight, AnswerRight, InFlight
<1>7. InputsRight'
  <2>1. ASSUME NEW i \in 1..Len(stdin'), stdin'[i].kind # "interrupt"
        PROVE  InputRight(stdin[i])'
    <3>1. InputRight(stdin[i]) /\ stdin'[i] = stdin[i]
      BY <1>1, <1>4, <2>1 DEF InputsRight
    <3> QED
      BY <3>1 DEF InputRight, InFlight
  <2>2. ASSUME NEW i \in 1..Len(stdin'), NEW j \in 1..Len(stdin'),
               stdin'[i].kind # "interrupt", stdin'[j].kind # "interrupt"
        PROVE  i = j
    BY <1>1, <1>4, <2>2 DEF InputsRight
  <2> QED
    BY <2>1, <2>2 DEF InputsRight
<1> QED
  BY <1>5, <1>6, <1>7 DEF PipeInv

LEMMA FinishKeeps == PipeInv /\ Finish => PipeInv'
<1> SUFFICES ASSUME PipeInv, Finish PROVE PipeInv'
  OBVIOUS
<1>1. /\ SinkType /\ Attached /\ Held /\ InFlightRight /\ InputsRight /\ AnswersRight /\ Accounted
  BY DEF PipeInv
<1>2. /\ flight' = NoFlight /\ stop' \in Stages /\ flight.answer # "none"
      /\ UNCHANGED <<received, pendingArgs, seen, stdin, stdout, open, codex, accepted, before>>
  BY <1>1 DEF Finish, Taken, GivenUp, Unloaded, SinkType, Stages
<1>3. flight'.events = <<>> /\ flight'.answer = "none"
  BY <1>2 DEF NoFlight
<1>4. \/ buffer' = buffer /\ dropped' = dropped /\ flight.answer = "ok"
      \/ buffer' = buffer /\ dropped' = dropped \cup Members(flight.events)
      \/ buffer' = flight.events \o buffer /\ dropped' = dropped /\ flight.answer = "race"
  BY DEF Finish, Taken, GivenUp, Unloaded, PutBack
<1>5. /\ flight.events \in Seq(Nat) /\ buffer \in Seq(Nat)
  BY <1>1 DEF SinkType
<1>6. /\ flight.events \o buffer \in Seq(Nat) /\ Increasing(flight.events \o buffer)
      /\ Members(flight.events \o buffer) = Members(flight.events) \cup Members(buffer)
  BY <1>1, <1>5, EventsJoined DEF InFlightRight, Held
<1>7. buffer' \in Seq(Nat)
  BY <1>4, <1>5, <1>6
<1>8. SinkType'
  <2>1. flight' \in [kind : {"none", "start", "steer"}, turn : Nat, events : Seq(Nat),
                     retry : BOOLEAN, answer : {"none", "ok", "race", "refused"}]
    BY <1>2, NoEvents DEF NoFlight
  <2> QED
    BY <1>1, <1>2, <1>7, <2>1 DEF SinkType
<1>9. seen.thread
  BY <1>1, <1>2 DEF Attached, NoFlight
<1>10. Attached'
  BY <1>1, <1>2, <1>9 DEF Attached
<1>11. Held'
  <2>1. /\ Increasing(buffer') /\ Members(buffer') \subseteq 1..received
        /\ Below(accepted, buffer')
    BY <1>1, <1>4, <1>6 DEF Held, InFlightRight, Below
  <2> QED
    BY <1>1, <1>2, <2>1 DEF Held
<1>12. InFlightRight'
  BY <1>2, <1>3, NoEvents DEF InFlightRight, Below
<1>13. ~open \/ \A i \in 1..Len(stdin) : stdin[i].kind = "interrupt"
  BY <1>1, <1>2 DEF InputsRight, InputRight
<1>14. InputsRight'
  <2>1. ASSUME NEW i \in 1..Len(stdin'), stdin'[i].kind # "interrupt"
        PROVE  InputRight(stdin[i])'
    <3>1. InputRight(stdin[i]) /\ ~open
      BY <1>1, <1>2, <1>13, <2>1 DEF InputsRight
    <3>2. buffer' = buffer
      BY <1>4, <3>1 DEF InputRight
    <3> QED
      BY <1>2, <1>3, <3>1, <3>2 DEF InputRight
  <2>2. ASSUME NEW i \in 1..Len(stdin'), NEW j \in 1..Len(stdin'),
               stdin'[i].kind # "interrupt", stdin'[j].kind # "interrupt"
        PROVE  i = j
    BY <1>1, <1>2, <2>2 DEF InputsRight
  <2> QED
    BY <2>1, <2>2 DEF InputsRight
<1>15. AnswersRight'
  <2>1. open => \A i \in 1..Len(stdout) : stdout[i].is # "answer"
    BY <1>1, <1>2 DEF AnswersRight, AnswerRight
  <2> QED
    BY <1>2, <2>1 DEF AnswersRight
<1>16. Accounted'
  <2>1. ASSUME NEW e \in 1..received
        PROVE  \/ e \in dropped'
               \/ e \in Members(accepted) \cup Members(buffer') \cup Members(pendingArgs)
    BY <1>1, <1>4, <1>6 DEF Accounted, InFlightRight
  <2> QED
    BY <1>2, <2>1 DEF Accounted
<1> QED
  BY <1>8, <1>10, <1>11, <1>12, <1>14, <1>15, <1>16 DEF PipeInv

\* The events of a race go out again.
LEMMA RetryKeeps == PipeInv /\ Retry => PipeInv'
<1> SUFFICES ASSUME PipeInv, Retry PROVE PipeInv'
  OBVIOUS
<1>1. /\ SinkType /\ Attached /\ Held /\ InFlightRight /\ InputsRight /\ AnswersRight /\ Accounted
  BY DEF PipeInv
<1>2. /\ flight.answer = "race" /\ open /\ seen.thread
      /\ UNCHANGED <<received, pendingArgs, buffer, seen, stdout, open, stop, codex, accepted,
                     dropped, before>>
  BY DEF Retry, Ready
<1>3. PICK k \in {"start", "steer"}, t \in Nat :
        /\ flight' = [kind |-> k, turn |-> t, events |-> flight.events, retry |-> TRUE,
                      answer |-> "none"]
        /\ stdin' = Append(stdin, [kind |-> k, turn |-> t, events |-> flight.events])
  BY <1>1 DEF Retry, Send, Input, SinkType
<1>4. PICK ev \in Seq(Nat) : ev = flight.events
  BY <1>1 DEF SinkType
<1>5. PICK r : r = [kind |-> k, turn |-> t, events |-> ev]
  OBVIOUS
<1>6. /\ r \in [kind : Kinds, turn : Nat, events : Seq(Nat)] /\ r.kind # "interrupt"
      /\ r.events = ev
  BY <1>5 DEF Kinds
<1>7. /\ stdin' \in Seq([kind : Kinds, turn : Nat, events : Seq(Nat)])
      /\ Len(stdin) \in Nat /\ Len(stdin') = Len(stdin) + 1 /\ stdin'[Len(stdin) + 1] = r
      /\ \A i \in 1..Len(stdin) : stdin'[i] = stdin[i]
  <2>1. stdin \in Seq([kind : Kinds, turn : Nat, events : Seq(Nat)]) /\ stdin' = Append(stdin, r)
    BY <1>1, <1>3, <1>4, <1>5 DEF SinkType
  <2> QED
    BY <1>6, <2>1, AppendProperties, LenProperties
<1>8. \A i \in 1..Len(stdin) : stdin[i].kind = "interrupt"
  BY <1>1, <1>2 DEF InputsRight, InputRight
<1>9. \A i \in 1..Len(stdin') : stdin'[i].kind # "interrupt" => i = Len(stdin) + 1
  <2>1. \A i \in 1..Len(stdin') : i \in 1..Len(stdin) \/ i = Len(stdin) + 1
    BY <1>7
  <2> QED
    BY <1>7, <1>8, <2>1
<1>10. \A i \in 1..Len(stdout) : stdout[i].is # "answer"
  BY <1>1, <1>2 DEF AnswersRight, AnswerRight
<1>11. /\ flight'.events = ev /\ flight'.answer = "none" /\ flight' # NoFlight
       /\ flight' \in [kind : {"none", "start", "steer"}, turn : Nat, events : Seq(Nat),
                       retry : BOOLEAN, answer : {"none", "ok", "race", "refused"}]
  BY <1>3, <1>4 DEF NoFlight
<1>12. /\ Increasing(ev) /\ Members(ev) \subseteq 1..received /\ Below(ev, buffer)
       /\ Below(accepted, ev)
  BY <1>1, <1>2, <1>4 DEF InFlightRight
<1>13. SinkType'
  BY <1>1, <1>2, <1>7, <1>11 DEF SinkType
<1>14. Attached' /\ Held'
  BY <1>1, <1>2 DEF Attached, Held
<1>15. InFlightRight'
  BY <1>2, <1>11, <1>12 DEF InFlightRight
<1>16. InputRight(r)'
  BY <1>2, <1>6, <1>10, <1>11, <1>12 DEF InputRight, InFlight
<1>17. InputsRight'
  <2>1. ASSUME NEW i \in 1..Len(stdin'), stdin'[i].kind # "interrupt"
        PROVE  InputRight(stdin[i])'
    <3>1. stdin'[i] = r
      BY <1>7, <1>9, <2>1
    <3> QED
      BY <1>16, <3>1 DEF InputRight, InFlight
  <2> QED
    BY <1>9, <2>1 DEF InputsRight
<1>18. AnswersRight'
  BY <1>2, <1>10 DEF AnswersRight
<1>19. Accounted'
  BY <1>1, <1>2, <1>4, <1>11 DEF Accounted
<1> QED
  BY <1>13, <1>14, <1>15, <1>17, <1>18, <1>19 DEF PipeInv

Processes == [alive : BOOLEAN, status : Statuses \cup {"starting"}, turn : Nat, turns : Nat]

\* codex speaks of its turns and its status, and perhaps takes an interrupt.
LEMMA TalkKeeps ==
  ASSUME PipeInv, NEW lines \in Seq(Lines), stdout' = stdout \o lines,
         \A i \in 1..Len(lines) : lines[i].is # "answer",
         stdin' = stdin \/ (stdin # <<>> /\ stdin' = Tail(stdin)), codex' \in Processes,
         UNCHANGED <<received, pendingArgs, buffer, flight, seen, open, stop, accepted, dropped,
                     before>>
  PROVE  PipeInv'
<1>1. /\ SinkType /\ Attached /\ Held /\ InFlightRight /\ InputsRight /\ AnswersRight /\ Accounted
      /\ stdin \in Seq([kind : Kinds, turn : Nat, events : Seq(Nat)]) /\ stdout \in Seq(Lines)
  BY DEF PipeInv, SinkType
<1>2. /\ stdout' \in Seq(Lines) /\ Len(stdout) \in Nat
      /\ \A i \in 1..Len(stdout') : stdout'[i].is = "answer" =>
           i \in 1..Len(stdout) /\ stdout'[i] = stdout[i]
  <2>1. /\ stdout' \in Seq(Lines) /\ Len(stdout) \in Nat
        /\ \A i \in 1..Len(stdout) : stdout'[i] = stdout[i]
        /\ \A i \in 1..Len(stdout') :
             \/ i \in 1..Len(stdout)
             \/ i > Len(stdout) /\ i - Len(stdout) \in 1..Len(lines)
                /\ stdout'[i] = lines[i - Len(stdout)]
    BY <1>1, BackCome
  <2> QED
    BY <2>1
<1>3. /\ stdin' \in Seq([kind : Kinds, turn : Nat, events : Seq(Nat)])
      /\ \E d \in {0, 1} : \A i \in 1..Len(stdin') :
           i + d \in 1..Len(stdin) /\ stdin'[i] = stdin[i + d]
  <2>1. CASE stdin' = stdin
    <3>1. \A i \in 1..Len(stdin') : i + 0 \in 1..Len(stdin) /\ stdin'[i] = stdin[i + 0]
      BY <2>1
    <3> QED
      BY <1>1, <2>1, <3>1
  <2>2. CASE stdin # <<>> /\ stdin' = Tail(stdin)
    BY <1>1, <2>2, FrontGone
  <2> QED
    BY <2>1, <2>2
<1>4. PICK d \in {0, 1} : \A i \in 1..Len(stdin') :
        i + d \in 1..Len(stdin) /\ stdin'[i] = stdin[i + d]
  BY <1>3
<1>5. SinkType'
  BY <1>1, <1>2, <1>3 DEF SinkType, Processes
<1>6. Attached' /\ Held' /\ InFlightRight' /\ Accounted'
  BY <1>1 DEF Attached, Held, InFlightRight, Accounted
<1>7. InputsRight'
  <2>1. ASSUME NEW i \in 1..Len(stdin'), stdin'[i].kind # "interrupt"
        PROVE  InputRight(stdin[i])'
    <3>1. InputRight(stdin[i + d]) /\ stdin'[i] = stdin[i + d]
      BY <1>1, <1>4, <2>1 DEF InputsRight
    <3>2. open => \A k \in 1..Len(stdout') : stdout'[k].is # "answer"
      BY <1>2, <3>1 DEF InputRight
    <3> QED
      BY <3>1, <3>2 DEF InputRight, InFlight
  <2>2. ASSUME NEW i \in 1..Len(stdin'), NEW j \in 1..Len(stdin'),
               stdin'[i].kind # "interrupt", stdin'[j].kind # "interrupt"
        PROVE  i = j
    <3>1. \A a, b \in 1..Len(stdin) :
            stdin[a].kind # "interrupt" /\ stdin[b].kind # "interrupt" => a = b
      BY <1>1 DEF InputsRight
    <3>2. /\ i + d \in 1..Len(stdin) /\ stdin[i + d].kind # "interrupt"
          /\ j + d \in 1..Len(stdin) /\ stdin[j + d].kind # "interrupt"
      BY <1>4, <2>2
    <3>3. i + d = j + d
      BY ONLY <3>1, <3>2
    <3> QED
      BY ONLY <3>3, i \in 1..Len(stdin'), j \in 1..Len(stdin'), d \in {0, 1}
  <2> QED
    BY <2>1, <2>2 DEF InputsRight
<1>8. AnswersRight'
  <2>1. ASSUME open, NEW i \in 1..Len(stdout'), stdout'[i].is = "answer"
        PROVE  AnswerRight(stdout[i])'
    <3>1. AnswerRight(stdout[i]) /\ stdout'[i] = stdout[i]
      BY <1>1, <1>2, <2>1 DEF AnswersRight
    <3> QED
      BY <3>1 DEF AnswerRight, InFlight
  <2>2. ASSUME open, NEW i \in 1..Len(stdout'), NEW j \in 1..Len(stdout'),
               stdout'[i].is = "answer", stdout'[j].is = "answer"
        PROVE  i = j
    BY <1>1, <1>2, <2>2 DEF AnswersRight
  <2> QED
    BY <2>1, <2>2 DEF AnswersRight
<1> QED
  BY <1>5, <1>6, <1>7, <1>8 DEF PipeInv

\* codex answers an input: it takes the events with an ok, or not.
LEMMA InputKeeps ==
  ASSUME PipeInv, NEW lines \in Seq(Lines), stdout' = stdout \o lines,
         stdin # <<>>, stdin' = Tail(stdin), Head(stdin).kind # "interrupt",
         NEW w \in {"ok", "race", "refused"},
         \A i \in 1..Len(lines) : lines[i].is = "answer" => lines[i].what = w,
         \A i, j \in 1..Len(lines) : lines[i].is = "answer" /\ lines[j].is = "answer" => i = j,
         accepted' = IF w = "ok" THEN accepted \o Head(stdin).events ELSE accepted,
         codex' \in Processes,
         UNCHANGED <<received, pendingArgs, buffer, flight, seen, open, stop, dropped, before>>
  PROVE  PipeInv'
<1>1. /\ SinkType /\ Attached /\ Held /\ InFlightRight /\ InputsRight /\ AnswersRight /\ Accounted
      /\ stdin \in Seq([kind : Kinds, turn : Nat, events : Seq(Nat)]) /\ stdout \in Seq(Lines)
      /\ accepted \in Seq(Nat)
  BY DEF PipeInv, SinkType
<1>2. PICK r : r = Head(stdin)
  OBVIOUS
<1>3. /\ stdin' \in Seq([kind : Kinds, turn : Nat, events : Seq(Nat)])
      /\ Len(stdin') \in Nat
      /\ r \in [kind : Kinds, turn : Nat, events : Seq(Nat)]
      /\ r = stdin[1] /\ 1 \in 1..Len(stdin)
      /\ \A i \in 1..Len(stdin') : i + 1 \in 1..Len(stdin) /\ stdin'[i] = stdin[i + 1]
  <2> DEFINE S == [kind : Kinds, turn : Nat, events : Seq(Nat)]
  <2>1. stdin \in Seq(S) /\ stdin # <<>> /\ stdin' = Tail(stdin)
    BY <1>1
  <2> HIDE DEF S
  <2>2. /\ stdin' \in Seq(S) /\ Len(stdin') \in Nat
        /\ Head(stdin) \in S /\ Head(stdin) = stdin[1] /\ 1 \in 1..Len(stdin)
        /\ \A i \in 1..Len(stdin') : i + 1 \in 1..Len(stdin) /\ stdin'[i] = stdin[i + 1]
    BY ONLY <2>1, FrontGone
  <2> QED
    BY <1>2, <2>2 DEF S
<1>4. InputRight(r)
  BY <1>1, <1>2, <1>3 DEF InputsRight
<1>5. \A i \in 1..Len(stdin') : stdin'[i].kind = "interrupt"
  <2> SUFFICES ASSUME NEW i \in 1..Len(stdin'), stdin'[i].kind # "interrupt" PROVE FALSE
    OBVIOUS
  <2>1. \A a, b \in 1..Len(stdin) :
          stdin[a].kind # "interrupt" /\ stdin[b].kind # "interrupt" => a = b
    BY <1>1 DEF InputsRight
  <2>2. /\ 1 \in 1..Len(stdin) /\ stdin[1].kind # "interrupt"
        /\ i + 1 \in 1..Len(stdin) /\ stdin[i + 1].kind # "interrupt"
    BY <1>2, <1>3
  <2>3. i + 1 = 1
    BY ONLY <2>1, <2>2
  <2> QED
    BY ONLY <2>3, i \in 1..Len(stdin')
<1>6. PICK ev \in Seq(Nat) : ev = r.events
  BY <1>3
<1>7. /\ Increasing(ev) /\ Members(ev) \subseteq 1..received
      /\ Below(accepted, ev) /\ Below(ev, buffer)
  BY <1>4, <1>6 DEF InputRight
<1>8. /\ accepted \o ev \in Seq(Nat) /\ Increasing(accepted \o ev)
      /\ Members(accepted \o ev) = Members(accepted) \cup Members(ev)
  BY <1>1, <1>7, EventsJoined DEF Held
<1>9. /\ accepted' \in Seq(Nat) /\ Increasing(accepted') /\ Members(accepted) \subseteq Members(accepted')
      /\ Members(accepted') \subseteq Members(accepted) \cup Members(ev)
      /\ w = "ok" => Members(ev) \subseteq Members(accepted')
      /\ w # "ok" => accepted' = accepted
  BY <1>1, <1>2, <1>6, <1>8 DEF Held
<1>10. /\ stdout' \in Seq(Lines) /\ Len(stdout) \in Nat /\ Len(lines) \in Nat
       /\ \A i \in 1..Len(stdout) : stdout'[i] = stdout[i]
       /\ \A i \in 1..Len(stdout') :
            \/ i \in 1..Len(stdout)
            \/ i > Len(stdout) /\ i - Len(stdout) \in 1..Len(lines)
               /\ stdout'[i] = lines[i - Len(stdout)]
  <2>1. stdout \in Seq(Lines) /\ lines \in Seq(Lines) /\ stdout' = stdout \o lines
    BY <1>1
  <2>2. /\ stdout' \in Seq(Lines) /\ Len(stdout) \in Nat /\ Len(lines) \in Nat
        /\ Len(stdout') = Len(stdout) + Len(lines)
        /\ \A i \in 1..Len(stdout) : i \in 1..Len(stdout') /\ stdout'[i] = stdout[i]
        /\ \A i \in 1..Len(stdout') :
             \/ i \in 1..Len(stdout)
             \/ i > Len(stdout) /\ i - Len(stdout) \in 1..Len(lines)
                /\ stdout'[i] = lines[i - Len(stdout)]
    BY ONLY <2>1, BackCome
  <2> QED
    BY ONLY <2>2
<1>11. SinkType'
  BY <1>1, <1>3, <1>9, <1>10 DEF SinkType, Processes
<1>12. Attached'
  BY <1>1, <1>4 DEF Attached, InputRight
<1>13. Held'
  BY <1>1, <1>7, <1>9 DEF Held, Below
<1>14. InFlightRight'
  BY <1>1, <1>4, <1>9 DEF InFlightRight, InputRight
<1>15. InputsRight'
  BY <1>5 DEF InputsRight
<1>16. ASSUME open, NEW i \in 1..Len(stdout'), stdout'[i].is = "answer"
       PROVE  i > Len(stdout) /\ i - Len(stdout) \in 1..Len(lines)
              /\ stdout'[i] = lines[i - Len(stdout)]
  BY <1>4, <1>10, <1>16 DEF InputRight
<1>17. AnswersRight'
  <2>1. ASSUME open, NEW i \in 1..Len(stdout'), stdout'[i].is = "answer"
        PROVE  AnswerRight(stdout[i])'
    <3>1. stdout'[i].what = w
      BY <1>16, <2>1
    <3>2. InFlight /\ flight.answer = "none" /\ flight.events = ev
      BY <1>4, <1>6, <2>1 DEF InputRight
    <3> QED
      BY <1>7, <1>9, <3>1, <3>2 DEF AnswerRight, InFlight
  <2>2. ASSUME open, NEW i \in 1..Len(stdout'), NEW j \in 1..Len(stdout'),
               stdout'[i].is = "answer", stdout'[j].is = "answer"
        PROVE  i = j
    <3>1. i - Len(stdout) = j - Len(stdout)
      BY <1>16, <2>2
    <3> QED
      BY <1>10, <3>1
  <2> QED
    BY <2>1, <2>2 DEF AnswersRight
<1>18. Accounted'
  BY <1>1, <1>9 DEF Accounted
<1> QED
  BY <1>11, <1>12, <1>13, <1>14, <1>15, <1>17, <1>18 DEF PipeInv

-----------------------------------------------------------------------------
(* The status of the thread, as codex has it, says it and the adapter reads  *)
(* it: codex is never active but after it was idle.                          *)

IsStatus(l) == l.is \in {"loaded", "status"}

\* Whoever shows s0 and reads the first n lines of q shows s.
Shown(q, n, s0, s) ==
  \/ s = s0 /\ \A k \in 1..n : ~IsStatus(q[k])
  \/ \E j \in 1..n : IsStatus(q[j]) /\ q[j].what = s /\ \A k \in j+1..n : ~IsStatus(q[k])

StatusInv ==
  /\ \A i \in 1..Len(stdout) : stdout[i].is = "loaded" => ~seen.thread
  /\ \A i, j \in 1..Len(stdout) : stdout[i].is = "loaded" /\ stdout[j].is = "loaded" => i = j
  /\ codex.status = "starting" =>
       ~seen.thread /\ \A i \in 1..Len(stdout) : ~IsStatus(stdout[i])
  /\ codex.status # "starting" => Shown(stdout, Len(stdout), seen.status, codex.status)
  /\ \A i \in 1..Len(stdout) : IsStatus(stdout[i]) /\ stdout[i].what = "active" =>
       Shown(stdout, i - 1, seen.status, "idle")

LEMMA ShownRead ==
  ASSUME NEW q, NEW t, NEW n \in Nat, \A i \in 1..n : t[i] = q[i + 1],
         NEW s0, NEW s, Shown(q, n + 1, s0, s)
  PROVE  Shown(t, n, IF IsStatus(q[1]) THEN q[1].what ELSE s0, s)
<1>1. CASE s = s0 /\ \A k \in 1..n+1 : ~IsStatus(q[k])
  <2>1. ~IsStatus(q[1])
    BY <1>1
  <2>2. \A k \in 1..n : ~IsStatus(t[k])
    <3> TAKE k \in 1..n
    <3>1. k + 1 \in 1..n+1
      OBVIOUS
    <3> QED
      BY <1>1, <3>1
  <2> QED
    BY <1>1, <2>1, <2>2 DEF Shown
<1>2. ASSUME NEW j \in 1..n+1, IsStatus(q[j]), q[j].what = s, \A k \in j+1..n+1 : ~IsStatus(q[k])
      PROVE  Shown(t, n, IF IsStatus(q[1]) THEN q[1].what ELSE s0, s)
  <2>1. ASSUME NEW m \in Nat, m + 1 >= j, NEW k \in m+1..n PROVE ~IsStatus(t[k])
    <3>1. k \in 1..n /\ k + 1 \in j+1..n+1
      BY <2>1
    <3> QED
      BY <1>2, <3>1
  <2>2. CASE j = 1
    <3>1. \A k \in 0+1..n : ~IsStatus(t[k])
      BY <2>1, <2>2
    <3> QED
      BY <1>2, <2>2, <3>1 DEF Shown
  <2>3. CASE j # 1
    <3>1. j - 1 \in 1..n /\ j - 1 \in Nat /\ (j - 1) + 1 = j
      BY <2>3
    <3>2. t[j - 1] = q[j]
      BY <3>1
    <3>3. \A k \in (j-1)+1..n : ~IsStatus(t[k])
      <4>1. PICK m \in Nat : m = j - 1 /\ m + 1 >= j
        BY <3>1
      <4>2. \A k \in m+1..n : ~IsStatus(t[k])
        BY <2>1, <4>1
      <4> QED
        BY <4>1, <4>2
    <3> QED
      BY <1>2, <3>1, <3>2, <3>3 DEF Shown
  <2> QED
    BY <2>2, <2>3
<1> QED
  BY <1>1, <1>2 DEF Shown

\* What is said later is read later.
LEMMA ShownBefore ==
  ASSUME NEW q, NEW t, NEW n \in Nat, \A i \in 1..n : t[i] = q[i], NEW s0, NEW s,
         Shown(q, n, s0, s)
  PROVE  Shown(t, n, s0, s)
<1>1. ASSUME NEW j \in 1..n, NEW k \in j+1..n PROVE k \in 1..n
  OBVIOUS
<1> QED
  BY <1>1 DEF Shown

LEMMA ShownOn ==
  ASSUME NEW q, NEW m \in Nat, NEW n \in Nat, m <= n, NEW s0, NEW s, Shown(q, m, s0, s),
         \A k \in m+1..n : ~IsStatus(q[k])
  PROVE  Shown(q, n, s0, s)
<1>1. ASSUME \A k \in 1..m : ~IsStatus(q[k]) PROVE \A k \in 1..n : ~IsStatus(q[k])
  <2> TAKE k \in 1..n
  <2>1. k \in 1..m \/ k \in m+1..n
    OBVIOUS
  <2> QED
    BY <1>1, <2>1
<1>2. ASSUME NEW j \in 1..m, \A k \in j+1..m : ~IsStatus(q[k])
      PROVE  j \in 1..n /\ \A k \in j+1..n : ~IsStatus(q[k])
  <2>1. ASSUME NEW k \in j+1..n PROVE ~IsStatus(q[k])
    <3>1. k \in j+1..m \/ k \in m+1..n
      OBVIOUS
    <3> QED
      BY <1>2, <3>1
  <2> QED
    BY <2>1
<1> QED
  BY <1>1, <1>2 DEF Shown

LEMMA StatusInit == Init => StatusInv
<1> SUFFICES ASSUME Init PROVE StatusInv
  OBVIOUS
<1>1. stdout = <<>> /\ Len(stdout) = 0 /\ 1..0 = {} /\ codex.status = "starting" /\ ~seen.thread
  BY EmptySeq DEF Init
<1> QED
  BY <1>1 DEF StatusInv

\* A line is read.
LEMMA StatusRead ==
  ASSUME SinkType, StatusInv, stdout # <<>>, stdout' = Tail(stdout), codex' = codex,
         NEW l, l = Head(stdout),
         seen'.status = IF IsStatus(l) THEN l.what ELSE seen.status,
         seen'.thread = (seen.thread \/ l.is = "loaded")
  PROVE  StatusInv'
<1> DEFINE n == Len(stdout')
<1>1. /\ n \in Nat /\ Len(stdout) = n + 1 /\ l = stdout[1] /\ 1 \in 1..Len(stdout)
      /\ \A i \in 1..n : i + 1 \in 1..Len(stdout) /\ stdout'[i] = stdout[i + 1]
  <2>1. stdout \in Seq(Lines)
    BY DEF SinkType
  <2> QED
    BY <2>1, FrontGone
<1> HIDE DEF n
<1>2. ASSUME NEW s, NEW m \in 0..n, Shown(stdout, m + 1, seen.status, s)
      PROVE  Shown(stdout', m, seen'.status, s)
  <2>1. m \in Nat /\ \A i \in 1..m : stdout'[i] = stdout[i + 1]
    BY <1>1
  <2>2. Shown(stdout', m, IF IsStatus(stdout[1]) THEN stdout[1].what ELSE seen.status, s)
    BY <1>2, <2>1, ShownRead
  <2> QED
    BY <1>1, <2>2
<1>3. \A i \in 1..n : stdout'[i].is = "loaded" => ~seen'.thread
  <2> SUFFICES ASSUME NEW i \in 1..n, stdout'[i].is = "loaded" PROVE ~seen'.thread
    OBVIOUS
  <2>1. stdout[i + 1].is = "loaded" /\ i + 1 # 1 /\ i + 1 \in 1..Len(stdout)
    BY <1>1
  <2>2. l.is # "loaded"
    BY <1>1, <2>1 DEF StatusInv
  <2> QED
    BY <2>1, <2>2 DEF StatusInv
<1>4. ASSUME NEW i \in 1..n, NEW j \in 1..n, stdout'[i].is = "loaded", stdout'[j].is = "loaded"
      PROVE  i = j
  <2>1. i + 1 = j + 1
    BY <1>1, <1>4 DEF StatusInv
  <2> QED
    BY <2>1
<1>5. ASSUME codex'.status = "starting"
      PROVE  ~seen'.thread /\ \A i \in 1..n : ~IsStatus(stdout'[i])
  <2>1. ~seen.thread /\ \A i \in 1..Len(stdout) : ~IsStatus(stdout[i])
    BY <1>5 DEF StatusInv
  <2> QED
    BY <1>1, <2>1 DEF IsStatus
<1>6. codex'.status # "starting" => Shown(stdout', n, seen'.status, codex'.status)
  BY <1>1, <1>2 DEF StatusInv
<1>7. ASSUME NEW i \in 1..n, IsStatus(stdout'[i]), stdout'[i].what = "active"
      PROVE  Shown(stdout', i - 1, seen'.status, "idle")
  <2>1. Shown(stdout, (i + 1) - 1, seen.status, "idle")
    BY <1>1, <1>7 DEF StatusInv
  <2>2. i - 1 \in 0..n /\ (i - 1) + 1 = (i + 1) - 1
    BY <1>1
  <2> QED
    BY <1>2, <2>1, <2>2
<1> QED
  BY <1>3, <1>4, <1>5, <1>6, <1>7 DEF StatusInv, n

\* What codex says of its status, and of an answer.
NoStatus(q) == \A i \in 1..Len(q) : ~IsStatus(q[i])
OneStatus(q, s) ==
  \E j \in 1..Len(q) : /\ q[j].is = "status" /\ q[j].what = s
                       /\ \A i \in 1..Len(q) : i # j => ~IsStatus(q[i])
NoAnswer(q) == \A i \in 1..Len(q) : q[i].is # "answer"
OneAnswer(q, w) ==
  \E j \in 1..Len(q) : /\ q[j].is = "answer" /\ q[j].what = w
                       /\ \A i \in 1..Len(q) : i # j => q[i].is # "answer"

LEMMA StatusSaid ==
  ASSUME SinkType, StatusInv, NEW lines \in Seq(Lines), stdout' = stdout \o lines,
         UNCHANGED seen, codex.status # "starting", codex'.status # "starting",
         \/ NoStatus(lines) /\ codex'.status = codex.status
         \/ /\ OneStatus(lines, codex'.status)
            /\ codex'.status = "active" => codex.status = "idle"
  PROVE  StatusInv'
<1> DEFINE m == Len(stdout)
           n == Len(lines)
<1>1. /\ m \in Nat /\ n \in Nat /\ Len(stdout') = m + n
      /\ \A i \in 1..m : i \in 1..m+n /\ stdout'[i] = stdout[i]
      /\ \A i \in 1..n : m + i \in 1..m+n /\ stdout'[m + i] = lines[i]
      /\ \A i \in 1..m+n : \/ i \in 1..m
                           \/ i > m /\ i - m \in 1..n /\ stdout'[i] = lines[i - m]
  <2>1. stdout \in Seq(Lines)
    BY DEF SinkType
  <2> QED
    BY <2>1, BackCome
<1> HIDE DEF m, n
<1>2. \A i \in 1..n : lines[i].is # "loaded"
  BY DEF NoStatus, OneStatus, IsStatus, n
<1>3. \A i \in 1..m+n : stdout'[i].is = "loaded" => i \in 1..m /\ stdout[i].is = "loaded"
  BY <1>1, <1>2
<1>4. \A k, s : k \in 0..m /\ Shown(stdout, k, seen.status, s) => Shown(stdout', k, seen'.status, s)
  <2> SUFFICES ASSUME NEW k \in 0..m, NEW s, Shown(stdout, k, seen.status, s)
               PROVE  Shown(stdout', k, seen'.status, s)
    OBVIOUS
  <2>1. k \in Nat /\ \A i \in 1..k : stdout'[i] = stdout[i]
    BY <1>1
  <2> QED
    BY <2>1, ShownBefore
<1>5. Shown(stdout', m, seen'.status, codex.status)
  BY <1>1, <1>4 DEF StatusInv, m
<1>6. ASSUME NEW j \in 1..n, \A i \in 1..n : i # j => ~IsStatus(lines[i]),
             NEW k \in m+1..m+n, k # m + j
      PROVE  ~IsStatus(stdout'[k])
  <2>1. PICK i \in 1..n : i # j /\ m + i = k
    <3>0. m \in Nat /\ n \in Nat /\ j \in 1..n /\ k \in m+1..m+n /\ k # m + j
      BY <1>1, <1>6
    <3>1. k - m \in 1..n /\ k - m # j /\ m + (k - m) = k
      BY ONLY <3>0
    <3> QED
      BY <3>1
  <2>2. stdout'[k] = lines[i]
    BY <1>1, <2>1
  <2> QED
    BY <1>6, <2>1, <2>2
<1>7. Shown(stdout', m + n, seen'.status, codex'.status)
  <2>1. CASE NoStatus(lines) /\ codex'.status = codex.status
    <3>1. \A k \in m+1..m+n : ~IsStatus(stdout'[k])
      <4> TAKE k \in m+1..m+n
      <4>1. PICK i \in 1..n : m + i = k
        <5>1. k - m \in 1..n /\ m + (k - m) = k
          BY <1>1
        <5> QED
          BY <5>1
      <4>2. stdout'[k] = lines[i]
        BY <1>1, <4>1
      <4> QED
        BY <2>1, <4>1, <4>2 DEF NoStatus, n
    <3>2. m \in Nat /\ m + n \in Nat /\ m <= m + n
      BY <1>1
    <3> QED
      BY <1>5, <2>1, <3>1, <3>2, ShownOn
  <2>2. CASE OneStatus(lines, codex'.status)
    <3>1. PICK j \in 1..n : /\ lines[j].is = "status" /\ lines[j].what = codex'.status
                            /\ \A i \in 1..n : i # j => ~IsStatus(lines[i])
      BY <2>2 DEF OneStatus, n
    <3>2. m + j \in 1..m+n /\ stdout'[m + j] = lines[j]
      BY <1>1
    <3>3. ASSUME NEW k \in (m+j)+1..m+n PROVE ~IsStatus(stdout'[k])
      <4>1. k \in m+1..m+n /\ k # m + j
        BY <1>1
      <4> QED
        BY <1>6, <3>1, <4>1
    <3> QED
      BY <3>1, <3>2, <3>3 DEF Shown, IsStatus
  <2> QED
    BY <2>1, <2>2
<1>8. ASSUME NEW i \in 1..m+n, IsStatus(stdout'[i]), stdout'[i].what = "active"
      PROVE  Shown(stdout', i - 1, seen'.status, "idle")
  <2>1. CASE i \in 1..m
    <3>1. stdout'[i] = stdout[i] /\ i - 1 \in 0..m
      BY <1>1, <2>1
    <3>2. Shown(stdout, i - 1, seen.status, "idle")
      BY <1>8, <2>1, <3>1 DEF StatusInv, m
    <3> QED
      BY <1>4, <3>1, <3>2
  <2>2. CASE i > m /\ i - m \in 1..n /\ stdout'[i] = lines[i - m]
    <3>0. OneStatus(lines, codex'.status)
      BY <1>8, <2>2 DEF NoStatus, n
    <3>1. PICK j \in 1..n : /\ lines[j].is = "status" /\ lines[j].what = codex'.status
                            /\ \A h \in 1..n : h # j => ~IsStatus(lines[h])
      BY <3>0 DEF OneStatus, n
    <3>2. i - m = j
      BY <1>8, <2>2, <3>1
    <3>3. codex'.status = "active" /\ codex.status = "idle"
      <4>1. ~NoStatus(lines)
        BY <3>1 DEF NoStatus, IsStatus, n
      <4>2. codex'.status = "active"
        BY <1>8, <2>2, <3>1, <3>2
      <4> QED
        BY <4>1, <4>2
    <3>4. m \in Nat /\ i - 1 \in Nat /\ m <= i - 1
      BY <1>1, <2>2
    <3>5. ASSUME NEW k \in m+1..i-1 PROVE ~IsStatus(stdout'[k])
      <4>1. k \in m+1..m+n /\ k # m + j
        BY <1>1, <3>2, <3>4
      <4> QED
        BY <1>6, <3>1, <4>1
    <3> QED
      BY <1>5, <3>3, <3>4, <3>5, ShownOn
  <2> QED
    BY <1>1, <2>1, <2>2
<1> QED
  BY <1>1, <1>3, <1>7, <1>8 DEF StatusInv, m

\* Nobody speaks or reads.
LEMMA StatusStays ==
  StatusInv /\ UNCHANGED <<stdout, seen>> /\ codex'.status = codex.status => StatusInv'
BY DEF StatusInv

-----------------------------------------------------------------------------
(* No turn is interrupted before the flush of the teardown is over.          *)

HushInv ==
  stop \in {"no", "waits", "waitsLater", "owns"} =>
    /\ \A i \in 1..Len(stdin) : stdin[i].kind # "interrupt"
    /\ \A i \in 1..Len(stdout) : stdout[i].is # "interrupted"

Hushed(q) == \A i \in 1..Len(q) : q[i].is # "interrupted"

LEMMA HushSaid ==
  ASSUME SinkType, HushInv, NEW lines \in Seq(Lines), stdout' = stdout \o lines, stop' = stop,
         stdin' = stdin \/ (stdin # <<>> /\ stdin' = Tail(stdin)),
         Hushed(lines) \/ (stdin # <<>> /\ Head(stdin).kind = "interrupt")
  PROVE  HushInv'
<1> SUFFICES ASSUME stop \in {"no", "waits", "waitsLater", "owns"}
             PROVE  /\ \A i \in 1..Len(stdin') : stdin'[i].kind # "interrupt"
                    /\ \A i \in 1..Len(stdout') : stdout'[i].is # "interrupted"
  BY DEF HushInv
<1>1. /\ \A i \in 1..Len(stdin) : stdin[i].kind # "interrupt"
      /\ \A i \in 1..Len(stdout) : stdout[i].is # "interrupted"
      /\ stdin \in Seq([kind : Kinds, turn : Nat, events : Seq(Nat)]) /\ stdout \in Seq(Lines)
  BY DEF HushInv, SinkType
<1>2. stdin # <<>> => /\ 1 \in 1..Len(stdin) /\ Head(stdin) = stdin[1]
                      /\ \A i \in 1..Len(Tail(stdin)) :
                           i + 1 \in 1..Len(stdin) /\ Tail(stdin)[i] = stdin[i + 1]
  BY <1>1, FrontGone
<1>3. Hushed(lines)
  BY <1>1, <1>2
<1>4. \A i \in 1..Len(stdin') : stdin'[i].kind # "interrupt"
  BY <1>1, <1>2
<1>5. \A i \in 1..Len(stdout') : \/ i \in 1..Len(stdout) /\ stdout'[i] = stdout[i]
                                 \/ /\ i - Len(stdout) \in 1..Len(lines)
                                    /\ stdout'[i] = lines[i - Len(stdout)]
  BY <1>1, BackCome
<1> QED
  BY <1>1, <1>3, <1>4, <1>5 DEF Hushed

-----------------------------------------------------------------------------
(* The lines of each step of codex.                                          *)

LEMMA LineIs ==
  /\ \A s \in Statuses : /\ Line("status", s) \in Lines /\ Line("loaded", s) \in Lines
                         /\ Line("status", s).is = "status" /\ Line("status", s).what = s
                         /\ Line("loaded", s).is = "loaded" /\ Line("loaded", s).what = s
  /\ \A t \in Nat : Line("turn", t) \in Lines /\ Line("turn", t).is = "turn"
  /\ \A w \in {"ok", "race", "refused"} :
       /\ Line("answer", w) \in Lines
       /\ Line("answer", w).is = "answer" /\ Line("answer", w).what = w
  /\ Line("interrupted", "") \in Lines /\ Line("interrupted", "").is = "interrupted"
BY DEF Line, Lines

LEMMA OneLine ==
  ASSUME NEW x \in Lines, NEW q, q = <<x>>
  PROVE  q \in Seq(Lines) /\ Len(q) = 1 /\ q[1] = x /\ \A i \in 1..Len(q) : i = 1
OBVIOUS

LEMMA TwoLines ==
  ASSUME NEW x \in Lines, NEW y \in Lines, NEW q, q = <<x, y>>
  PROVE  /\ q \in Seq(Lines) /\ Len(q) = 2 /\ q[1] = x /\ q[2] = y
         /\ \A i \in 1..Len(q) : i = 1 \/ i = 2
OBVIOUS

LEMMA ThreeLines ==
  ASSUME NEW x \in Lines, NEW y \in Lines, NEW z \in Lines, NEW q, q = <<x, y, z>>
  PROVE  /\ q \in Seq(Lines) /\ Len(q) = 3 /\ q[1] = x /\ q[2] = y /\ q[3] = z
         /\ \A i \in 1..Len(q) : i = 1 \/ i = 2 \/ i = 3
OBVIOUS

\* One line, two, or three, of which one is a status.
LEMMA StatusAlone ==
  ASSUME NEW s \in Statuses, NEW q, q = <<Line("status", s)>>
  PROVE  q \in Seq(Lines) /\ OneStatus(q, s) /\ NoAnswer(q) /\ Hushed(q)
<1>1. PICK x \in Lines : x = Line("status", s) /\ x.is = "status" /\ x.what = s
  BY LineIs
<1>2. q \in Seq(Lines) /\ Len(q) = 1 /\ q[1] = x /\ \A i \in 1..Len(q) : i = 1
  BY <1>1, OneLine
<1> QED
  BY <1>1, <1>2 DEF OneStatus, NoAnswer, Hushed

LEMMA TurnAndStatus ==
  ASSUME NEW s \in Statuses, NEW t \in Nat, NEW q,
         q \in {<<Line("turn", t), Line("status", s)>>, <<Line("status", s), Line("turn", t)>>}
  PROVE  q \in Seq(Lines) /\ OneStatus(q, s) /\ NoAnswer(q) /\ Hushed(q)
<1>1. PICK x \in Lines : x = Line("status", s) /\ x.is = "status" /\ x.what = s
  BY LineIs
<1>2. PICK y \in Lines : y = Line("turn", t) /\ y.is = "turn"
  BY LineIs
<1>3. CASE q = <<y, x>>
  <2>1. /\ q \in Seq(Lines) /\ Len(q) = 2 /\ q[1] = y /\ q[2] = x
        /\ \A i \in 1..Len(q) : i = 1 \/ i = 2
    BY <1>3, TwoLines
  <2> QED
    BY <1>1, <1>2, <2>1 DEF OneStatus, NoAnswer, IsStatus, Hushed
<1>4. CASE q = <<x, y>>
  <2>1. /\ q \in Seq(Lines) /\ Len(q) = 2 /\ q[1] = x /\ q[2] = y
        /\ \A i \in 1..Len(q) : i = 1 \/ i = 2
    BY <1>4, TwoLines
  <2> QED
    BY <1>1, <1>2, <2>1 DEF OneStatus, NoAnswer, IsStatus, Hushed
<1> QED
  BY <1>1, <1>2, <1>3, <1>4

LEMMA AnswerAlone ==
  ASSUME NEW w \in {"ok", "race", "refused"}, NEW q, q = <<Line("answer", w)>>
  PROVE  q \in Seq(Lines) /\ NoStatus(q) /\ OneAnswer(q, w) /\ Hushed(q)
<1>1. PICK x \in Lines : x = Line("answer", w) /\ x.is = "answer" /\ x.what = w
  BY LineIs
<1>2. q \in Seq(Lines) /\ Len(q) = 1 /\ q[1] = x /\ \A i \in 1..Len(q) : i = 1
  BY <1>1, OneLine
<1> QED
  BY <1>1, <1>2 DEF NoStatus, OneAnswer, IsStatus, Hushed

\* The beginning of a turn, in any order.
LEMMA BeginLines ==
  ASSUME NEW t \in Nat, NEW q, NEW x, x = Line("answer", "ok"), NEW y, y = Line("status", "active"),
         NEW z, z = Line("turn", t),
         q \in {<<x, y, z>>, <<x, z, y>>, <<y, x, z>>, <<y, z, x>>, <<z, x, y>>, <<z, y, x>>}
  PROVE  q \in Seq(Lines) /\ OneStatus(q, "active") /\ OneAnswer(q, "ok") /\ Hushed(q)
<1>1. /\ x \in Lines /\ x.is = "answer" /\ x.what = "ok"
      /\ y \in Lines /\ y.is = "status" /\ y.what = "active"
      /\ z \in Lines /\ z.is = "turn"
  BY LineIs DEF Statuses
<1>2. ~IsStatus(x) /\ ~IsStatus(z)
  BY <1>1 DEF IsStatus
<1>3. PICK a \in {x, y, z}, b \in {x, y, z}, c \in {x, y, z} :
        q = <<a, b, c>> /\ a # b /\ a # c /\ b # c
  BY <1>1
<1>4. /\ q \in Seq(Lines) /\ Len(q) = 3 /\ q[1] = a /\ q[2] = b /\ q[3] = c
      /\ \A i \in 1..Len(q) : i = 1 \/ i = 2 \/ i = 3
  BY <1>1, <1>3, ThreeLines
<1>5. PICK j \in 1..Len(q) : q[j] = y
  BY <1>3, <1>4
<1>6. PICK k \in 1..Len(q) : q[k] = x
  BY <1>3, <1>4
<1>7. \A i \in 1..Len(q) : (i # j => q[i] \in {x, z}) /\ (i # k => q[i] \in {y, z})
  BY <1>3, <1>4, <1>5, <1>6
<1>8. OneStatus(q, "active")
  BY <1>1, <1>2, <1>5, <1>7 DEF OneStatus
<1>9. OneAnswer(q, "ok")
  BY <1>1, <1>6, <1>7 DEF OneAnswer
<1>10. Hushed(q)
  BY <1>1, <1>3, <1>4 DEF Hushed
<1> QED
  BY <1>4, <1>8, <1>9, <1>10

CodexInv == PipeInv /\ StatusInv /\ HushInv

\* A step that only talks.
LEMMA TalkStep ==
  ASSUME CodexInv, OfCodex, NEW lines \in Seq(Lines), stdout' = stdout \o lines,
         Hushed(lines) \/ (stdin # <<>> /\ Head(stdin).kind = "interrupt"), NoAnswer(lines),
         stdin' = stdin \/ (stdin # <<>> /\ stdin' = Tail(stdin)),
         accepted' = accepted, received' = received, codex' \in Processes,
         codex.status # "starting", codex'.status # "starting",
         \/ NoStatus(lines) /\ codex'.status = codex.status
         \/ OneStatus(lines, codex'.status) /\ codex'.status # "active"
  PROVE  CodexInv'
<1>1. UNCHANGED <<received, pendingArgs, buffer, flight, seen, open, stop, accepted, dropped, before>>
  BY DEF OfCodex, sink
<1>2. PipeInv'
  BY <1>1, TalkKeeps DEF NoAnswer, CodexInv
<1>3. StatusInv'
  BY <1>1, StatusSaid DEF PipeInv, CodexInv
<1>4. HushInv'
  BY <1>1, HushSaid DEF PipeInv, CodexInv
<1> QED
  BY <1>2, <1>3, <1>4 DEF CodexInv

\* A step that answers an input.
LEMMA AnswerStep ==
  ASSUME CodexInv, OfCodex, NEW lines \in Seq(Lines), stdout' = stdout \o lines, Hushed(lines),
         NEW w \in {"ok", "race", "refused"}, OneAnswer(lines, w),
         stdin # <<>>, stdin' = Tail(stdin), Head(stdin).kind # "interrupt",
         accepted' = IF w = "ok" THEN accepted \o Head(stdin).events ELSE accepted,
         codex' \in Processes, codex.status # "starting", codex'.status # "starting",
         \/ NoStatus(lines) /\ codex'.status = codex.status
         \/ OneStatus(lines, codex'.status) /\ codex.status = "idle"
  PROVE  CodexInv'
<1>1. UNCHANGED <<received, pendingArgs, buffer, flight, seen, open, stop, dropped, before>>
  BY DEF OfCodex, sink
<1>2. /\ \A i \in 1..Len(lines) : lines[i].is = "answer" => lines[i].what = w
      /\ \A i, j \in 1..Len(lines) : lines[i].is = "answer" /\ lines[j].is = "answer" => i = j
  BY DEF OneAnswer
<1>3. PipeInv'
  BY <1>1, <1>2, InputKeeps DEF CodexInv
<1>4. StatusInv'
  BY <1>1, StatusSaid DEF PipeInv, CodexInv
<1>5. HushInv'
  BY <1>1, HushSaid DEF PipeInv, CodexInv
<1> QED
  BY <1>3, <1>4, <1>5 DEF CodexInv

LEMMA LoadKeeps == CodexInv /\ Load => CodexInv'
<1> SUFFICES ASSUME CodexInv, Load PROVE CodexInv'
  OBVIOUS
<1>0. PipeInv /\ StatusInv /\ HushInv
  BY DEF CodexInv
<1>1. PICK s \in {"notLoaded", "idle"} :
        codex' = [codex EXCEPT !.status = s] /\ stdout' = stdout \o <<Line("loaded", s)>>
  BY DEF Load, Says
<1>2. PICK l \in Lines : l = Line("loaded", s) /\ l.is = "loaded" /\ l.what = s
  BY LineIs DEF Statuses
<1>3. PICK lines : lines = <<l>>
  OBVIOUS
<1>4. /\ lines \in Seq(Lines) /\ Len(lines) = 1 /\ lines[1] = l /\ \A i \in 1..Len(lines) : i = 1
      /\ stdout' = stdout \o lines
  BY <1>1, <1>2, <1>3, OneLine
<1>5. /\ UNCHANGED <<received, pendingArgs, buffer, flight, seen, open, stop, accepted, dropped,
                     before, stdin>>
      /\ codex.status = "starting"
  BY DEF Load, OfCodex, sink
<1>6. codex' \in Processes /\ codex'.status = s
  BY <1>0, <1>1 DEF PipeInv, SinkType, Processes, Statuses
<1>7. PipeInv'
  <2>1. \A i \in 1..Len(lines) : lines[i].is # "answer"
    BY <1>2, <1>4
  <2> QED
    BY <1>0, <1>4, <1>5, <1>6, <2>1, TalkKeeps
<1> DEFINE m == Len(stdout)
<1>8. /\ m \in Nat /\ Len(stdout') = m + 1 /\ stdout'[m + 1] = l
      /\ \A i \in 1..m : stdout'[i] = stdout[i]
  <2>1. stdout \in Seq(Lines)
    BY <1>0 DEF PipeInv, SinkType
  <2>2. stdout' = Append(stdout, l)
    BY <1>3, <1>4, <2>1
  <2> QED
    BY <2>1, <2>2, AppendProperties, LenProperties
<1> HIDE DEF m
<1>9. ~seen.thread /\ \A i \in 1..m : ~IsStatus(stdout'[i])
  BY <1>0, <1>5, <1>8 DEF StatusInv, m
<1>10. \A i \in 1..m+1 : IsStatus(stdout'[i]) \/ stdout'[i].is = "loaded" => i = m + 1
  BY <1>8, <1>9 DEF IsStatus
<1>11. Shown(stdout', m + 1, seen'.status, codex'.status)
  <2>1. m + 1 \in 1..m+1 /\ IsStatus(stdout'[m + 1]) /\ stdout'[m + 1].what = codex'.status
    BY <1>2, <1>6, <1>8 DEF IsStatus
  <2>2. \A k \in (m+1)+1..m+1 : FALSE
    BY <1>8
  <2> QED
    BY <2>1, <2>2 DEF Shown
<1>12. \A i \in 1..m+1 : ~(IsStatus(stdout'[i]) /\ stdout'[i].what = "active")
  BY <1>2, <1>8, <1>10
<1>13. StatusInv'
  BY <1>5, <1>6, <1>8, <1>9, <1>10, <1>11, <1>12 DEF StatusInv
<1>14. HushInv'
  <2>1. Hushed(lines)
    BY <1>2, <1>4 DEF Hushed
  <2> QED
    BY <1>0, <1>4, <1>5, <2>1, HushSaid DEF PipeInv
<1> QED
  BY <1>7, <1>13, <1>14 DEF CodexInv

LEMMA HandleKeeps == CodexInv /\ Handle => CodexInv'
<1> SUFFICES ASSUME CodexInv, Handle PROVE CodexInv'
  OBVIOUS
<1> DEFINE r == Head(stdin)
<1>0. PipeInv /\ StatusInv /\ HushInv
  BY DEF CodexInv
<1>1. /\ OfCodex /\ stdin # <<>> /\ stdin' = Tail(stdin)
      /\ Begin(r) \/ Join(r) \/ Misfit(r) \/ Stop(r)
      /\ received' = received
      /\ codex \in Processes
  BY <1>0 DEF Handle, OfCodex, PipeInv, SinkType, Processes
<1>2. CASE Begin(r)
  <2>1. PICK x, y, z : x = Line("answer", "ok") /\ y = Line("status", "active")
                       /\ z = Line("turn", codex.turns + 1)
    OBVIOUS
  <2>2. PICK lines \in {<<x, y, z>>, <<x, z, y>>, <<y, x, z>>, <<y, z, x>>, <<z, x, y>>, <<z, y, x>>} :
          stdout' = stdout \o lines
    BY <1>2, <2>1 DEF Begin, Says
  <2>3. PICK n \in Nat : n = codex.turns + 1
    BY <1>1 DEF Processes
  <2>4. /\ lines \in Seq(Lines) /\ OneStatus(lines, "active") /\ OneAnswer(lines, "ok")
        /\ Hushed(lines)
    BY <2>1, <2>2, <2>3, BeginLines
  <2>5. /\ codex' = [codex EXCEPT !.status = "active", !.turn = n, !.turns = n]
        /\ codex.status = "idle" /\ r.kind # "interrupt" /\ accepted' = accepted \o r.events
    BY <1>2, <2>3 DEF Begin, Take
  <2>6. codex' \in Processes /\ codex'.status = "active"
    BY <1>1, <2>5 DEF Processes, Statuses
  <2> QED
    BY <1>1, <2>2, <2>4, <2>5, <2>6, AnswerStep
<1>3. ASSUME NEW w \in {"ok", "race", "refused"}, stdout' = stdout \o <<Line("answer", w)>>,
             codex' = codex, r.kind # "interrupt", codex.status # "starting",
             accepted' = IF w = "ok" THEN accepted \o r.events ELSE accepted
      PROVE  CodexInv'
  <2>1. PICK lines : lines = <<Line("answer", w)>>
    OBVIOUS
  <2>2. lines \in Seq(Lines) /\ NoStatus(lines) /\ OneAnswer(lines, w) /\ Hushed(lines)
    BY <2>1, AnswerAlone
  <2> QED
    BY <1>1, <1>3, <2>1, <2>2, AnswerStep
<1>4. codex.status # "starting" \/ r.kind = "interrupt"
  <2>1. r.kind = "interrupt" \/ seen.thread
    <3>1. stdin \in Seq([kind : Kinds, turn : Nat, events : Seq(Nat)])
      BY <1>0 DEF PipeInv, SinkType
    <3>2. r = stdin[1] /\ 1 \in 1..Len(stdin)
      BY <1>1, <3>1, FrontGone
    <3> QED
      BY <1>0, <3>2 DEF PipeInv, InputsRight, InputRight
  <2> QED
    BY <1>0, <2>1 DEF StatusInv
<1>5. CASE Join(r)
  BY <1>3, <1>4, <1>5 DEF Join, Take, Says
<1>6. CASE Misfit(r)
  <2>1. CASE r.kind = "start" /\ Refuse("refused")
    BY <1>3, <1>4, <2>1 DEF Refuse, Says
  <2>2. CASE r.kind = "steer" /\ Refuse("race")
    BY <1>3, <1>4, <2>2 DEF Refuse, Says
  <2> QED
    BY <1>6, <2>1, <2>2 DEF Misfit
<1>7. CASE Stop(r)
  <2>1. codex' = [codex EXCEPT !.status = IF @ = "active" THEN "idle" ELSE @, !.turn = 0]
        /\ accepted' = accepted
    BY <1>7 DEF Stop
  <2>2. codex' \in Processes /\ codex'.status = IF codex.status = "active" THEN "idle" ELSE codex.status
    BY <1>1, <2>1 DEF Processes, Statuses
  <2>0. r.kind = "interrupt"
    BY <1>7 DEF Stop
  <2>3. PICK x \in Lines : x = Line("interrupted", "") /\ x.is = "interrupted"
    BY LineIs
  <2>4. CASE codex.status = "active"
    <3>1. PICK y \in Lines : y = Line("turn", 0) /\ y.is = "turn"
      BY LineIs
    <3>2. PICK z \in Lines : z = Line("status", "idle") /\ z.is = "status" /\ z.what = "idle"
      BY LineIs DEF Statuses
    <3>3. PICK lines : lines = <<x, y, z>> /\ stdout' = stdout \o lines
      BY <1>7, <2>3, <2>4, <3>1, <3>2 DEF Stop, Says
    <3>4. /\ lines \in Seq(Lines) /\ Len(lines) = 3
          /\ lines[1] = x /\ lines[2] = y /\ lines[3] = z
          /\ \A i \in 1..Len(lines) : i = 1 \/ i = 2 \/ i = 3
      BY <3>3, ThreeLines
    <3>5. OneStatus(lines, "idle") /\ NoAnswer(lines)
      <4>1. ~IsStatus(x) /\ ~IsStatus(y)
        BY <2>3, <3>1 DEF IsStatus
      <4>2. 3 \in 1..Len(lines) /\ \A i \in 1..Len(lines) : i # 3 => ~IsStatus(lines[i])
        BY <3>4, <4>1
      <4>3. OneStatus(lines, "idle")
        BY <3>2, <3>4, <4>2 DEF OneStatus
      <4>4. \A i \in 1..Len(lines) : lines[i].is # "answer"
        BY <2>3, <3>1, <3>2, <3>4
      <4> QED
        BY <4>3, <4>4 DEF NoAnswer
    <3>6. codex.status # "starting" /\ codex'.status = "idle"
      BY <2>2, <2>4
    <3> QED
      BY <1>1, <2>0, <2>1, <2>2, <3>3, <3>4, <3>5, <3>6, TalkStep
  <2>5. CASE codex.status # "active"
    <3>1. PICK lines : lines = <<x>> /\ stdout' = stdout \o lines
      BY <1>7, <2>3, <2>5 DEF Stop, Says
    <3>2. lines \in Seq(Lines) /\ Len(lines) = 1 /\ lines[1] = x /\ \A i \in 1..Len(lines) : i = 1
      BY <3>1, OneLine
    <3>3. NoStatus(lines) /\ NoAnswer(lines)
      BY <2>3, <3>2 DEF NoStatus, NoAnswer, IsStatus
    <3>4. CASE codex.status # "starting"
      BY <1>1, <2>0, <2>1, <2>2, <2>5, <3>1, <3>2, <3>3, <3>4, TalkStep
    <3>5. CASE codex.status = "starting"
      <4>1. PipeInv'
        <5>1. UNCHANGED <<received, pendingArgs, buffer, flight, seen, open, stop, accepted,
                          dropped, before>>
          BY <1>1, <2>1 DEF OfCodex, sink
        <5> QED
          BY <1>0, <1>1, <2>2, <3>1, <3>2, <3>3, <5>1, TalkKeeps DEF NoAnswer
      <4>2. StatusInv'
        <5>1. ~seen.thread /\ \A i \in 1..Len(stdout) : ~IsStatus(stdout[i])
          BY <1>0, <3>5 DEF StatusInv
        <5>2. stdout \in Seq(Lines)
          BY <1>0 DEF PipeInv, SinkType
        <5>3. \A i \in 1..Len(stdout') : ~IsStatus(stdout'[i])
          <6>1. \A i \in 1..Len(stdout') : \/ i \in 1..Len(stdout) /\ stdout'[i] = stdout[i]
                                           \/ stdout'[i] = x
            BY <3>1, <3>2, <5>2, BackCome
          <6> QED
            BY <2>3, <5>1, <6>1 DEF IsStatus
        <5> QED
          BY <1>1, <2>2, <3>5, <5>1, <5>3 DEF StatusInv, IsStatus, OfCodex
      <4>3. HushInv'
        BY <1>0, <1>1, <2>0, <3>1, <3>2, HushSaid DEF PipeInv, OfCodex
      <4> QED
        BY <4>1, <4>2, <4>3 DEF CodexInv
    <3> QED
      BY <3>4, <3>5
  <2> QED
    BY <2>4, <2>5
<1> QED
  BY <1>1, <1>2, <1>5, <1>6, <1>7

LEMMA CodexKeeps == CodexInv /\ Codex => CodexInv'
<1> SUFFICES ASSUME CodexInv, Codex PROVE CodexInv'
  OBVIOUS
<1>1. codex \in Processes
  BY DEF CodexInv, PipeInv, SinkType, Processes
<1>2. CASE EndTurn
  <2>1. PICK lines \in {<<Line("turn", 0), Line("status", "idle")>>,
                        <<Line("status", "idle"), Line("turn", 0)>>} : stdout' = stdout \o lines
    BY <1>2 DEF EndTurn, SaysBoth, Says
  <2>2. lines \in Seq(Lines) /\ OneStatus(lines, "idle") /\ NoAnswer(lines) /\ Hushed(lines)
    BY <2>1, TurnAndStatus DEF Statuses
  <2>3. /\ OfCodex /\ codex.status = "active" /\ stdin' = stdin /\ accepted' = accepted
        /\ codex' = [codex EXCEPT !.status = "idle", !.turn = 0] /\ received' = received
    BY <1>2 DEF EndTurn, OfCodex
  <2>4. codex' \in Processes /\ codex'.status = "idle"
    BY <1>1, <2>3 DEF Processes, Statuses
  <2> QED
    BY <2>1, <2>2, <2>3, <2>4, TalkStep
<1>3. CASE Stumble
  <2>1. PICK s \in {"notLoaded", "systemError"} :
          /\ codex' = [codex EXCEPT !.status = s, !.turn = 0]
          /\ \/ Says(<<Line("status", s)>>)
             \/ codex.turn # 0 /\ SaysBoth(Line("turn", 0), Line("status", s))
    BY <1>3 DEF Stumble
  <2>2. s \in Statuses
    BY DEF Statuses
  <2>3. PICK lines : /\ stdout' = stdout \o lines
                     /\ lines \in Seq(Lines) /\ OneStatus(lines, s) /\ NoAnswer(lines)
                     /\ Hushed(lines)
    BY <2>1, <2>2, StatusAlone, TurnAndStatus DEF SaysBoth, Says
  <2>4. /\ OfCodex /\ codex.status # "starting" /\ stdin' = stdin /\ accepted' = accepted
        /\ received' = received
    BY <1>3 DEF Stumble, OfCodex
  <2>5. codex' \in Processes /\ codex'.status = s
    BY <1>1, <2>1, <2>2 DEF Processes
  <2> QED
    BY <2>3, <2>4, <2>5, TalkStep
<1>4. CASE Recover
  <2>1. PICK lines : lines = <<Line("status", "idle")>> /\ stdout' = stdout \o lines
    BY <1>4 DEF Recover, Says
  <2>2. lines \in Seq(Lines) /\ OneStatus(lines, "idle") /\ NoAnswer(lines) /\ Hushed(lines)
    BY <2>1, StatusAlone DEF Statuses
  <2>3. /\ OfCodex /\ codex.status # "starting" /\ stdin' = stdin /\ accepted' = accepted
        /\ codex' = [codex EXCEPT !.status = "idle"] /\ received' = received
    BY <1>4 DEF Recover, OfCodex
  <2>4. codex' \in Processes /\ codex'.status = "idle"
    BY <1>1, <2>3 DEF Processes, Statuses
  <2> QED
    BY <2>1, <2>2, <2>3, <2>4, TalkStep
<1>5. CASE Exit
  <2>1. /\ codex' = [codex EXCEPT !.alive = FALSE]
        /\ UNCHANGED <<received, pendingArgs, buffer, flight, seen, open, stop, accepted,
                       dropped, before, stdin, stdout>>
    BY <1>5 DEF Exit, OfCodex, sink
  <2>2. codex' \in Processes /\ codex'.status = codex.status
    BY <1>1, <2>1 DEF Processes
  <2>0. PipeInv /\ StatusInv /\ HushInv
    BY DEF CodexInv
  <2>3. PipeInv'
    <3>1. SinkType'
      BY <2>0, <2>1, <2>2 DEF PipeInv, SinkType, Processes
    <3>2. Attached' /\ Held' /\ InFlightRight' /\ Accounted'
      BY <2>0, <2>1 DEF PipeInv, Attached, Held, InFlightRight, Accounted
    <3>3. InputsRight'
      BY <2>0, <2>1 DEF PipeInv, InputsRight, InputRight, InFlight
    <3>4. AnswersRight'
      BY <2>0, <2>1 DEF PipeInv, AnswersRight, AnswerRight, InFlight
    <3> QED
      BY <3>1, <3>2, <3>3, <3>4 DEF PipeInv
  <2>4. StatusInv'
    BY <2>0, <2>1, <2>2, StatusStays
  <2>5. HushInv'
    BY <2>0, <2>1 DEF HushInv
  <2> QED
    BY <2>3, <2>4, <2>5 DEF CodexInv
<1> QED
  BY <1>2, <1>3, <1>4, <1>5, LoadKeeps, HandleKeeps DEF Codex

-----------------------------------------------------------------------------
(* The steps of the runner.                                                  *)

Early == {"no", "waits", "waitsLater", "owns"}
Inputs == [kind : {"start", "steer"}, turn : Nat, events : Seq(Nat)]

LEMMA HushKept ==
  ASSUME SinkType, HushInv, stop' \in Early => stop \in Early,
         stdout' = stdout \/ (stdout # <<>> /\ stdout' = Tail(stdout)),
         stdin' = stdin \/ \E r \in Inputs : stdin' = Append(stdin, r)
  PROVE  HushInv'
<1> SUFFICES ASSUME stop' \in Early
             PROVE  /\ \A i \in 1..Len(stdin') : stdin'[i].kind # "interrupt"
                    /\ \A i \in 1..Len(stdout') : stdout'[i].is # "interrupted"
  BY DEF HushInv, Early
<1>1. /\ \A i \in 1..Len(stdin) : stdin[i].kind # "interrupt"
      /\ \A i \in 1..Len(stdout) : stdout[i].is # "interrupted"
      /\ stdin \in Seq([kind : Kinds, turn : Nat, events : Seq(Nat)]) /\ stdout \in Seq(Lines)
  BY DEF HushInv, SinkType, Early
<1>2. CASE stdout' = stdout /\ stdin' = stdin
  BY <1>1, <1>2
<1>3. \A i \in 1..Len(stdout') : stdout'[i].is # "interrupted"
  <2>1. CASE stdout # <<>> /\ stdout' = Tail(stdout)
    <3>1. \A i \in 1..Len(stdout') : i + 1 \in 1..Len(stdout) /\ stdout'[i] = stdout[i + 1]
      BY <1>1, <2>1, FrontGone
    <3> QED
      BY <1>1, <3>1
  <2> QED
    BY <1>1, <2>1
<1>4. \A i \in 1..Len(stdin') : stdin'[i].kind # "interrupt"
  <2>1. ASSUME NEW r \in Inputs, stdin' = Append(stdin, r)
        PROVE  \A i \in 1..Len(stdin') : stdin'[i].kind # "interrupt"
    <3>1. r \in [kind : Kinds, turn : Nat, events : Seq(Nat)] /\ r.kind # "interrupt"
      BY DEF Inputs, Kinds
    <3>2. /\ Len(stdin') = Len(stdin) + 1 /\ stdin'[Len(stdin) + 1] = r /\ Len(stdin) \in Nat
          /\ \A i \in 1..Len(stdin) : stdin'[i] = stdin[i]
      BY <1>1, <2>1, <3>1, AppendProperties, LenProperties
    <3>3. \A i \in 1..Len(stdin') : i \in 1..Len(stdin) \/ i = Len(stdin) + 1
      BY <3>2
    <3> QED
      BY <1>1, <3>1, <3>2, <3>3
  <2> QED
    BY <1>1, <2>1
<1> QED
  BY <1>3, <1>4

LEMMA MovesSend ==
  ASSUME SinkType, NEW s \in Seen, Moves(s)
  PROVE  stdin' = stdin \/ \E r \in Inputs : stdin' = Append(stdin, r)
<1>1. CASE Nothing
  BY <1>1 DEF Nothing
<1>2. CASE Dispatch(s)
  <2>1. CASE stdin' = stdin
    BY <2>1
  <2>2. ASSUME NEW k \in {"start", "steer"}, NEW t \in Nat,
               stdin' = Append(stdin, [kind |-> k, turn |-> t, events |-> buffer])
        PROVE  \E r \in Inputs : stdin' = Append(stdin, r)
    <3>1. [kind |-> k, turn |-> t, events |-> buffer] \in Inputs
      BY DEF Inputs, SinkType
    <3> QED
      BY <2>2, <3>1
  <2>3. \/ stdin' = stdin
        \/ \E k \in {"start", "steer"}, t \in Nat :
             stdin' = Append(stdin, [kind |-> k, turn |-> t, events |-> buffer])
    BY <1>2, DispatchIs DEF Seen
  <2> QED
    BY <2>1, <2>2, <2>3
<1> QED
  BY <1>1, <1>2 DEF Moves

\* A step that flushes, or does not, and reads nothing.
LEMMA FlushStep ==
  ASSUME CodexInv, Moves(seen), stop' \in Stages, stop' \in Early => stop \in Early,
         before' \in {before, received},
         UNCHANGED <<received, pendingArgs, open, accepted, codex, stdout, seen>>
  PROVE  CodexInv'
<1>1. PipeInv /\ StatusInv /\ HushInv /\ SinkType /\ seen \in Seen
  BY DEF CodexInv, PipeInv, SinkType, Seen
<1>2. stdout' \in Seq(Lines) /\ Len(stdout) \in Nat /\ Len(stdout') + 0 = Len(stdout)
  BY <1>1, LenProperties DEF SinkType
<1>3. \A i \in 1..Len(stdout') : i + 0 \in 1..Len(stdout) /\ stdout'[i] = stdout[i + 0]
  BY <1>2
<1>4. PipeInv'
  BY <1>1, <1>2, <1>3, MovesKeep
<1>5. StatusInv'
  BY <1>1, StatusStays
<1>6. HushInv'
  BY <1>1, MovesSend, HushKept
<1> QED
  BY <1>4, <1>5, <1>6 DEF CodexInv

\* A line is read that is no answer to an input, and does not load the thread.
LEMMA ReadStep ==
  ASSUME CodexInv, stdout # <<>>, NEW l, l = Head(stdout), stdout' = Tail(stdout),
         l.is # "loaded", NEW s \in Seen, seen' = s, s.thread = seen.thread,
         s.status = IF IsStatus(l) THEN l.what ELSE seen.status, Moves(s),
         stop' \in Stages, stop' \in Early => stop \in Early,
         UNCHANGED <<received, pendingArgs, open, accepted, codex, before>>
  PROVE  CodexInv'
<1>1. PipeInv /\ StatusInv /\ HushInv /\ SinkType
  BY DEF CodexInv, PipeInv
<1>2. stdout \in Seq(Lines)
  BY <1>1 DEF SinkType
<1>3. /\ stdout' \in Seq(Lines) /\ Len(stdout') + 1 = Len(stdout)
      /\ \A i \in 1..Len(stdout') : i + 1 \in 1..Len(stdout) /\ stdout'[i] = stdout[i + 1]
  BY <1>2, FrontGone
<1>4. seen' \in Seen /\ seen'.thread = seen.thread /\ before' \in {before, received}
  OBVIOUS
<1>5. PipeInv'
  BY <1>1, <1>3, <1>4, MovesKeep
<1>6. StatusInv'
  <2>1. seen.thread \in BOOLEAN /\ seen'.thread = seen.thread /\ l.is # "loaded"
    BY <1>1 DEF SinkType
  <2>2. seen'.thread = (seen.thread \/ l.is = "loaded")
    BY ONLY <2>1
  <2>3. seen'.status = IF IsStatus(l) THEN l.what ELSE seen.status
    OBVIOUS
  <2>4. codex' = codex
    OBVIOUS
  <2> QED
    BY <1>1, <2>2, <2>3, <2>4, StatusRead
<1>7. HushInv'
  BY <1>1, MovesSend, HushKept
<1> QED
  BY <1>5, <1>6, <1>7 DEF CodexInv

LEMMA FlushIs ==
  ASSUME NEW s, Flush(s) PROVE Moves(s)
BY DEF Flush, Moves

LEMMA LineShape ==
  ASSUME NEW l \in Lines
  PROVE  /\ IsStatus(l) => l.what \in Statuses
         /\ l.is = "turn" => l.what \in Nat /\ ~IsStatus(l)
         /\ l.is \in {"answer", "interrupted"} => ~IsStatus(l)
BY DEF Lines, IsStatus

LEMMA ReadKeeps == CodexInv /\ Read => CodexInv'
<1> SUFFICES ASSUME CodexInv, Read PROVE CodexInv'
  OBVIOUS
<1>1. /\ PipeInv /\ StatusInv /\ HushInv /\ SinkType
      /\ seen \in Seen /\ stop \in Stages /\ stdout \in Seq(Lines)
  BY DEF CodexInv, PipeInv, SinkType, Seen
<1>2. PICK l \in Lines : l = Head(stdout) /\ l = stdout[1] /\ 1 \in 1..Len(stdout)
  BY <1>1, FrontGone DEF Read
<1>3. /\ open /\ stdout # <<>> /\ stdout' = Tail(stdout)
      /\ UNCHANGED <<received, open, codex, accepted, before>>
      /\ ReadLoaded(l) \/ ReadStatus(l) \/ ReadTurn(l) \/ ReadAnswer(l)
  BY <1>2 DEF Read
<1>4. CASE ReadLoaded(l)
  <2>1. /\ l.is = "loaded" /\ seen' = [seen EXCEPT !.thread = TRUE, !.status = l.what]
        /\ stop' = stop /\ stdin' = stdin
    BY <1>4 DEF ReadLoaded
  <2>2. ~seen.thread
    BY <1>1, <1>2, <2>1 DEF StatusInv
  <2>3. IsStatus(l) /\ l.what \in Statuses
    BY <2>1, LineShape DEF IsStatus
  <2>4. PipeInv'
    BY <1>1, <1>3, <1>4, <2>2, <2>3, AttachKeeps
  <2>5. StatusInv'
    <3>1. seen'.status = IF IsStatus(l) THEN l.what ELSE seen.status
      BY <1>1, <2>1, <2>3 DEF Seen
    <3>2. seen'.thread = TRUE
      BY <1>1, <2>1 DEF Seen
    <3>3. seen'.thread = (seen.thread \/ l.is = "loaded")
      BY ONLY <2>1, <3>2
    <3>4. codex' = codex
      BY <1>3
    <3> QED
      BY <1>1, <1>2, <1>3, <3>1, <3>3, <3>4, StatusRead
  <2>6. HushInv'
    BY <1>1, <1>3, <2>1, HushKept
  <2> QED
    BY <2>4, <2>5, <2>6 DEF CodexInv
<1>5. CASE ReadStatus(l)
  <2>1. l.is = "status" /\ seen' = [seen EXCEPT !.status = l.what] /\ UNCHANGED <<pendingArgs, stop>>
    BY <1>5 DEF ReadStatus
  <2>2. IsStatus(l) /\ l.what \in Statuses /\ l.is # "loaded"
    BY <2>1, LineShape DEF IsStatus
  <2>3. PICK s \in Seen : s = seen' /\ s.status = l.what /\ s.thread = seen.thread
    BY <1>1, <2>1, <2>2 DEF Seen
  <2>4. Moves(s)
    <3>1. Nothing \/ Flush(s)
      BY <1>5, <2>3 DEF ReadStatus, ApplyStatus, NoteStatus
    <3> QED
      BY <3>1, FlushIs DEF Moves
  <2> QED
    BY <1>1, <1>2, <1>3, <2>1, <2>2, <2>3, <2>4, ReadStep
<1>6. CASE ReadTurn(l)
  <2>1. /\ l.is = "turn" /\ seen' = [seen EXCEPT !.turn = l.what]
        /\ UNCHANGED <<pendingArgs, stop, buffer, flight, stdin, dropped>>
    BY <1>6 DEF ReadTurn, sink
  <2>2. ~IsStatus(l) /\ l.what \in Nat /\ l.is # "loaded"
    BY <2>1, LineShape DEF IsStatus
  <2>3. PICK s \in Seen : s = seen' /\ s.status = seen.status /\ s.thread = seen.thread
    BY <1>1, <2>1, <2>2 DEF Seen
  <2>4. Moves(s)
    BY <2>1 DEF Moves, Nothing
  <2> QED
    BY <1>1, <1>2, <1>3, <2>1, <2>2, <2>3, <2>4, ReadStep
<1>7. CASE ReadAnswer(l) /\ l.is = "interrupted"
  <2>1. /\ stop' = "interrupted"
        /\ UNCHANGED <<pendingArgs, seen, buffer, flight, stdin, dropped>>
    BY <1>7 DEF ReadAnswer
  <2>2. ~IsStatus(l) /\ l.is # "loaded"
    BY <1>7, LineShape
  <2>3. Moves(seen) /\ stop' \in Stages /\ stop' \notin Early
    BY <2>1 DEF Moves, Nothing, Stages, Early
  <2>4. PICK s \in Seen : s = seen' /\ s = seen
    BY <1>1, <2>1
  <2>5. Moves(s) /\ s.thread = seen.thread
        /\ s.status = IF IsStatus(l) THEN l.what ELSE seen.status
    BY <2>2, <2>3, <2>4
  <2> QED
    BY <1>2, <1>3, <2>1, <2>2, <2>3, <2>4, <2>5, ReadStep
<1>8. CASE ReadAnswer(l) /\ l.is = "answer"
  <2>1. /\ flight' = [flight EXCEPT !.answer = l.what]
        /\ UNCHANGED <<pendingArgs, buffer, seen, stdin, dropped, stop>>
    BY <1>8 DEF ReadAnswer
  <2>2. ~IsStatus(l) /\ l.is # "loaded"
    BY <1>8, LineShape
  <2>3. PipeInv'
    BY <1>1, <1>2, <1>3, <1>8, <2>1, AnswerKeeps
  <2>4. StatusInv'
    <3>1. seen'.status = IF IsStatus(l) THEN l.what ELSE seen.status
      BY <2>1, <2>2
    <3>2. seen.thread \in BOOLEAN /\ seen'.thread = seen.thread
      BY <1>1, <2>1 DEF Seen
    <3>3. seen'.thread = (seen.thread \/ l.is = "loaded")
      BY ONLY <2>2, <3>2
    <3>4. codex' = codex
      BY <1>3
    <3> QED
      BY <1>1, <1>2, <1>3, <3>1, <3>3, <3>4, StatusRead
  <2>5. HushInv'
    BY <1>1, <1>3, <2>1, HushKept
  <2> QED
    BY <2>3, <2>4, <2>5 DEF CodexInv
<1>9. ReadAnswer(l) => l.is = "interrupted" \/ l.is = "answer"
  BY DEF ReadAnswer
<1> QED
  BY <1>3, <1>4, <1>5, <1>6, <1>7, <1>8, <1>9

\* A step after which the same lines are to be read, and no more requests.
LEMMA StillStep ==
  ASSUME CodexInv, PipeInv', stop' \in Early => stop \in Early,
         UNCHANGED <<stdin, stdout, seen, codex>>
  PROVE  CodexInv'
<1>1. SinkType /\ StatusInv /\ HushInv
  BY DEF CodexInv, PipeInv
<1>2. StatusInv' /\ HushInv'
  BY <1>1, StatusStays, HushKept
<1> QED
  BY <1>2 DEF CodexInv

LEMMA InterruptInv == CodexInv /\ Interrupt => CodexInv'
<1> SUFFICES ASSUME CodexInv, Interrupt PROVE CodexInv'
  OBVIOUS
<1>1. /\ PipeInv /\ StatusInv /\ HushInv /\ SinkType
      /\ UNCHANGED <<received, pendingArgs, buffer, flight, seen, stdout, open, codex, accepted,
                     dropped, before>>
  BY DEF CodexInv, PipeInv, Interrupt, sink
<1>2. stop' \in Stages /\ stop' \notin Early
  BY DEF Interrupt, Stages, Early
<1>3. CASE stdin' = stdin
  <2>1. PipeInv'
    <3>1. Len(stdout) \in Nat /\ Len(stdout') + 0 = Len(stdout) /\ stdout' \in Seq(Lines)
          /\ \A i \in 1..Len(stdout') : i + 0 \in 1..Len(stdout) /\ stdout'[i] = stdout[i + 0]
      BY <1>1, LenProperties DEF SinkType
    <3>2. Moves(seen) /\ seen \in Seen
      BY <1>1, <1>3 DEF Moves, Nothing, SinkType, Seen
    <3> QED
      BY <1>1, <1>2, <3>1, <3>2, MovesKeep
  <2> QED
    BY <1>1, <1>2, <1>3, <2>1, StillStep
<1>4. CASE stdin' # stdin
  <2>1. PICK r \in [kind : {"interrupt"}, turn : Nat, events : Seq(Nat)] : stdin' = Append(stdin, r)
    <3>1. stdin' = Append(stdin, [kind |-> "interrupt", turn |-> seen.turn, events |-> <<>>])
      BY <1>4 DEF Interrupt
    <3>2. [kind |-> "interrupt", turn |-> seen.turn, events |-> <<>>] \in
            [kind : {"interrupt"}, turn : Nat, events : Seq(Nat)]
      BY <1>1, NoEvents DEF SinkType
    <3> QED
      BY <3>1, <3>2
  <2>2. PipeInv'
    BY <1>1, <1>2, <2>1, InterruptKeeps
  <2>3. StatusInv'
    BY <1>1, StatusStays
  <2>4. HushInv'
    BY <1>2 DEF HushInv, Early
  <2> QED
    BY <2>2, <2>3, <2>4 DEF CodexInv
<1> QED
  BY <1>3, <1>4

LEMMA FlushingKeeps ==
  CodexInv /\ (Fire \/ Resume \/ ResumeFinal \/ Teardown) => CodexInv'
<1> SUFFICES ASSUME CodexInv, Fire \/ Resume \/ ResumeFinal \/ Teardown PROVE CodexInv'
  OBVIOUS
<1>1. stop \in Stages
  BY DEF CodexInv, PipeInv, SinkType
<1>2. CASE Fire
  <2>1. /\ Moves(seen) /\ stop' = stop
        /\ UNCHANGED <<received, pendingArgs, open, accepted, codex, stdout, seen, before>>
    BY <1>2, FlushIs DEF Fire
  <2> QED
    BY <1>1, <2>1, FlushStep
<1>3. CASE Resume
  <2>1. /\ Moves(seen)
        /\ UNCHANGED <<received, pendingArgs, open, accepted, codex, stdout, seen, before>>
    BY <1>3 DEF Resume, Moves
  <2>2. stop' \in {stop, "flushed"}
    BY <1>3 DEF Resume
  <2>3. stop' \in Stages /\ (stop' \in Early => stop \in Early)
    BY <1>1, <2>2 DEF Stages, Early
  <2> QED
    BY <2>1, <2>3, FlushStep
<1>4. CASE ResumeFinal
  <2>1. /\ Moves(seen)
        /\ UNCHANGED <<received, pendingArgs, open, accepted, codex, stdout, seen, before>>
    BY <1>4 DEF ResumeFinal, Moves
  <2>2. stop' \in Stages /\ stop \in Early
    BY <1>4 DEF ResumeFinal, Stages, Early
  <2> QED
    BY <2>1, <2>2, FlushStep
<1>5. CASE Teardown
  <2>1. /\ Moves(seen) /\ before' = received
        /\ UNCHANGED <<received, pendingArgs, open, accepted, codex, stdout, seen>>
    BY <1>5 DEF Teardown, FinalFlush, Moves
  <2>2. stop' \in Stages /\ stop \in Early
    BY <1>5 DEF Teardown, FinalFlush, Stages, Early
  <2> QED
    BY <2>1, <2>2, FlushStep
<1> QED
  BY <1>2, <1>3, <1>4, <1>5

LEMMA RunnerKeeps ==
  CodexInv /\ (Receive \/ Finish \/ Retry \/ StdoutEnds \/ StdinBreaks \/ Close) => CodexInv'
<1> SUFFICES ASSUME CodexInv, Receive \/ Finish \/ Retry \/ StdoutEnds \/ StdinBreaks \/ Close
             PROVE  CodexInv'
  OBVIOUS
<1>1. PipeInv /\ StatusInv /\ HushInv /\ SinkType /\ stop \in Stages
  BY DEF CodexInv, PipeInv, SinkType
<1>2. CASE Receive
  BY <1>1, <1>2, ReceiveKeeps, StillStep DEF Receive
<1>3. CASE Finish
  <2>1. stop' \in Early => stop \in Early
    BY <1>3 DEF Finish, Early
  <2>2. UNCHANGED <<stdin, stdout, seen, codex>>
    BY <1>3 DEF Finish
  <2> QED
    BY <1>1, <1>3, <2>1, <2>2, FinishKeeps, StillStep
<1>4. CASE Retry
  <2>1. UNCHANGED <<stdout, seen, codex, stop>>
    BY <1>4 DEF Retry
  <2>2. PipeInv' /\ StatusInv'
    BY <1>1, <1>4, <2>1, RetryKeeps, StatusStays
  <2>3. \E r \in Inputs : stdin' = Append(stdin, r)
    <3>1. PICK k \in {"start", "steer"}, t \in Nat :
            stdin' = Append(stdin, [kind |-> k, turn |-> t, events |-> flight.events])
      BY <1>1, <1>4 DEF Retry, Send, Input, SinkType
    <3>2. [kind |-> k, turn |-> t, events |-> flight.events] \in Inputs
      BY <1>1 DEF Inputs, SinkType
    <3> QED
      BY <3>1, <3>2
  <2>4. HushInv'
    BY <1>1, <2>1, <2>3, HushKept
  <2> QED
    BY <2>2, <2>4 DEF CodexInv
<1>5. ASSUME open' = FALSE, flight' = Rejected(flight), stop' \in {stop, "interrupted", "closed"},
             UNCHANGED <<received, pendingArgs, buffer, seen, stdin, stdout, codex, accepted,
                         dropped, before>>
      PROVE  CodexInv'
  <2>1. stop' \in Stages /\ (stop' \in Early => stop \in Early)
    BY <1>1, <1>5 DEF Stages, Early
  <2>2. PipeInv'
    BY <1>1, <1>5, <2>1, RejectKeeps
  <2> QED
    BY <1>5, <2>1, <2>2, StillStep
<1>6. CASE StdoutEnds \/ StdinBreaks
  BY <1>5, <1>6 DEF StdoutEnds, StdinBreaks, Cleanup
<1>7. CASE Close
  BY <1>5, <1>7 DEF Close
<1> QED
  BY <1>2, <1>3, <1>4, <1>6, <1>7

LEMMA StepKeeps == CodexInv /\ [Next]_vars => CodexInv'
<1>1. CodexInv /\ UNCHANGED vars => CodexInv'
  <2> SUFFICES ASSUME CodexInv, UNCHANGED vars PROVE CodexInv'
    OBVIOUS
  <2>1. UNCHANGED <<received, pendingArgs, open, accepted, codex, stdout, seen, before, stop,
                    buffer, flight, stdin, dropped>>
    BY DEF vars, sink
  <2>2. Moves(seen) /\ stop \in Stages
    BY <2>1 DEF Moves, Nothing, CodexInv, PipeInv, SinkType
  <2> QED
    BY <2>1, <2>2, FlushStep
<1> QED
  BY <1>1, ReadKeeps, FlushingKeeps, RunnerKeeps, InterruptInv, CodexKeeps DEF Next

LEMMA CodexInvariant == Spec => []CodexInv
<1>1. Init => CodexInv
  <2>1. Init => HushInv
    <3> SUFFICES ASSUME Init PROVE HushInv
      OBVIOUS
    <3>1. stdin = <<>> /\ stdout = <<>> /\ Len(<<>>) = 0 /\ 1..0 = {}
      BY EmptySeq DEF Init
    <3> QED
      BY <3>1 DEF HushInv
  <2> QED
    BY <2>1, PipeInit, StatusInit DEF CodexInv
<1> QED
  BY <1>1, StepKeeps, PTL DEF Spec

\* codex takes the events in the order of the stream, and none twice, whatever is
\* put back, retried, refused, or rejected with the connection (flush and
\* dispatchOnce of channel-sink.ts).
THEOREM EventsAreTakenInOrder == Spec => []TakenInOrder
<1>1. CodexInv => TakenInOrder
  BY DEF CodexInv, PipeInv, Held, Increasing, TakenInOrder
<1> QED
  BY <1>1, CodexInvariant, PTL

-----------------------------------------------------------------------------
(* What the flush of the teardown leaves in the buffer.                      *)

\* Something of the buffer came before the teardown.
OldInBuffer == \E e \in Members(buffer) : e <= before

LeftInv ==
  /\ stop # "no" => seen.thread \/ ~open
  /\ stop = "closed" => ~open
  /\ stop = "owns" => ~OldInBuffer
  /\ stop \in {"flushed", "interrupting", "interrupted", "closed"} /\ OldInBuffer =>
       /\ ~InFlight
       /\ \/ seen.status = "notLoaded"
          \/ stop \in {"flushed", "closed"} /\ seen.status = "active" /\ seen.turn = 0

LEMMA DispatchLeaves ==
  ASSUME NEW s, Dispatch(s)
  PROVE  \/ ~Ready(s) /\ buffer' = buffer /\ flight' = flight
         \/ Ready(s) /\ buffer' = <<>>
BY DEF Dispatch

LEMMA MovesLeave ==
  ASSUME NEW s, Moves(s)
  PROVE  (buffer' = buffer /\ flight' = flight) \/ buffer' = <<>>
BY DispatchLeaves DEF Moves, Nothing

\* An empty buffer holds nothing old.
LEMMA NothingOld == (buffer' = <<>> => ~OldInBuffer') /\ (buffer = <<>> => ~OldInBuffer)
BY NoEvents DEF OldInBuffer

LEMMA OldStays ==
  ASSUME buffer' = buffer, before' = before
  PROVE  OldInBuffer' <=> OldInBuffer
BY DEF OldInBuffer, Members

\* The adapter sees a thread, and no way to send: it is unloaded, or it is active
\* and its turn is not known yet.
LEMMA NotReady ==
  ASSUME PipeInv, buffer # <<>>, NEW s \in Seen, s.thread = seen.thread, ~Ready(s)
  PROVE  s.status = "notLoaded" \/ (s.status = "active" /\ s.turn = 0)
BY DEF PipeInv, Attached, Ready

\* A flush leaves the buffer as it is, or empty.
LEMMA LeftByMoves ==
  ASSUME LeftInv, Moves(seen), UNCHANGED <<seen, open, before, stop>>
  PROVE  LeftInv'
<1>1. CASE buffer' = <<>>
  BY <1>1, NothingOld DEF LeftInv
<1>2. CASE buffer' = buffer /\ flight' = flight
  <2>1. (OldInBuffer' <=> OldInBuffer) /\ (InFlight' <=> InFlight)
    BY <1>2, OldStays DEF InFlight
  <2> QED
    BY <2>1 DEF LeftInv
<1> QED
  BY <1>1, <1>2, MovesLeave

\* The end of the flush of the teardown, when it need not wait for another one.
LEMMA LeftByFlush ==
  ASSUME PipeInv, UNCHANGED <<seen, open>>, seen.thread \/ ~open, ~InFlight,
         (buffer = <<>> /\ Nothing) \/ Dispatch(seen),
         stop' = IF flight' = NoFlight THEN "flushed" ELSE "owns"
  PROVE  LeftInv'
<1>1. CASE buffer' = <<>>
  <2>1. ~OldInBuffer'
    BY <1>1, NothingOld
  <2> QED
    BY <2>1 DEF LeftInv
<1>2. CASE buffer' # <<>>
  <2>1. ~Ready(seen) /\ buffer' = buffer /\ flight' = flight /\ buffer # <<>>
    BY <1>2, DispatchLeaves DEF Nothing
  <2>2. seen.status = "notLoaded" \/ (seen.status = "active" /\ seen.turn = 0)
    <3>1. seen \in Seen
      BY DEF PipeInv, SinkType, Seen
    <3> QED
      BY <2>1, <3>1, NotReady
  <2>3. stop' = "flushed" /\ ~InFlight'
    BY <2>1 DEF InFlight
  <2> QED
    BY <2>2, <2>3 DEF LeftInv
<1> QED
  BY <1>1, <1>2

LEMMA LeftFlushing ==
  CodexInv /\ LeftInv /\ (Fire \/ Resume \/ ResumeFinal \/ Teardown) => LeftInv'
<1> SUFFICES ASSUME CodexInv, LeftInv, Fire \/ Resume \/ ResumeFinal \/ Teardown PROVE LeftInv'
  OBVIOUS
<1>1. PipeInv
  BY DEF CodexInv
<1>2. CASE Fire
  <2>1. Moves(seen) /\ UNCHANGED <<seen, open, before, stop>>
    BY <1>2, FlushIs DEF Fire
  <2> QED
    BY <2>1, LeftByMoves
<1>3. CASE Resume
  <2>1. Moves(seen) /\ UNCHANGED <<seen, open, before>> /\ ~InFlight
    BY <1>3 DEF Resume, Moves
  <2>2. CASE stop' = stop
    BY <2>1, <2>2, LeftByMoves
  <2>3. CASE stop' # stop
    <3>1. stop = "waitsLater" /\ stop' = "flushed" /\ flight' # NoFlight
      BY <1>3, <2>3 DEF Resume
    <3>2. ~OldInBuffer'
      BY <2>1, <3>1, MovesLeave, NothingOld DEF InFlight
    <3> QED
      BY <2>1, <3>1, <3>2 DEF LeftInv
  <2> QED
    BY <2>2, <2>3
<1>4. CASE ResumeFinal
  <2>1. /\ UNCHANGED <<seen, open>> /\ ~InFlight /\ stop # "no"
        /\ (buffer = <<>> /\ Nothing) \/ Dispatch(seen)
        /\ stop' = IF flight' = NoFlight THEN "flushed" ELSE "owns"
    BY <1>4 DEF ResumeFinal
  <2>2. seen.thread \/ ~open
    BY <2>1 DEF LeftInv
  <2> QED
    BY <1>1, <2>1, <2>2, LeftByFlush
<1>5. CASE Teardown
  <2>1. UNCHANGED <<seen, open>> /\ (seen.thread \/ ~open) /\ FinalFlush
    BY <1>5 DEF Teardown
  <2>2. CASE buffer = <<>> /\ Nothing /\ stop' = "flushed"
    <3>1. ~OldInBuffer'
      BY <2>2, NothingOld DEF Nothing
    <3> QED
      BY <2>1, <2>2, <3>1 DEF LeftInv
  <2>3. CASE stop' \in {"waits", "waitsLater"}
    BY <2>1, <2>3 DEF LeftInv
  <2>4. CASE ~InFlight /\ Dispatch(seen) /\ stop' = IF flight' = NoFlight THEN "flushed" ELSE "owns"
    BY <1>1, <2>1, <2>4, LeftByFlush
  <2> QED
    BY <2>1, <2>2, <2>3, <2>4 DEF FinalFlush
<1> QED
  BY <1>2, <1>3, <1>4, <1>5

LEMMA LeftReading == CodexInv /\ LeftInv /\ Read => LeftInv'
<1> SUFFICES ASSUME CodexInv, LeftInv, Read PROVE LeftInv'
  OBVIOUS
<1>1. /\ PipeInv /\ StatusInv /\ HushInv /\ SinkType
      /\ seen \in Seen /\ stdout \in Seq(Lines)
  BY DEF CodexInv, PipeInv, SinkType, Seen
<1>2. PICK l \in Lines : l = Head(stdout) /\ l = stdout[1] /\ 1 \in 1..Len(stdout)
  BY <1>1, FrontGone DEF Read
<1>3. /\ open /\ open' = open /\ before' = before
      /\ ReadLoaded(l) \/ ReadStatus(l) \/ ReadTurn(l) \/ ReadAnswer(l)
      /\ stop # "flushed" /\ stop # "closed"
  BY <1>2 DEF Read, LeftInv, Awakened
<1>4. stop # "no" => seen.thread
  BY <1>3 DEF LeftInv
<1>5. CASE ReadLoaded(l)
  <2>1. stop' = stop /\ l.is = "loaded"
    BY <1>5 DEF ReadLoaded
  <2>2. stop = "no"
    BY <1>1, <1>2, <1>4, <2>1 DEF StatusInv
  <2> QED
    BY <2>1, <2>2 DEF LeftInv
\* In the stages where old events may be left, the thread is not loaded, and a
\* status read next cannot be that of a turn.
<1>6. CASE ReadStatus(l)
  <2>1. l.is = "status" /\ seen' = [seen EXCEPT !.status = l.what] /\ stop' = stop
    BY <1>6 DEF ReadStatus
  <2>2. IsStatus(l) /\ l.what \in Statuses
    BY <2>1, LineShape DEF IsStatus
  <2>3. PICK s \in Seen : s = seen' /\ s.status = l.what /\ s.thread = seen.thread
    BY <1>1, <2>1, <2>2 DEF Seen
  <2>4. CASE buffer' = <<>>
    <3>1. ~OldInBuffer'
      BY <2>4, NothingOld
    <3> QED
      BY <1>3, <1>4, <2>1, <2>3, <3>1 DEF LeftInv
  <2>5. CASE buffer' # <<>>
    <3>1. Nothing \/ Flush(s)
      BY <1>6, <2>3 DEF ReadStatus, ApplyStatus, NoteStatus
    <3>2. buffer' = buffer /\ flight' = flight /\ buffer # <<>>
      BY <2>5, <3>1, FlushIs, MovesLeave DEF Nothing
    <3>3. (OldInBuffer' <=> OldInBuffer) /\ (InFlight' <=> InFlight)
      BY <1>3, <3>2, OldStays DEF InFlight
    <3>4. ASSUME stop \in {"interrupting", "interrupted"}, OldInBuffer
          PROVE  ~InFlight /\ s.status = "notLoaded"
      <4>1. ~InFlight /\ seen.status = "notLoaded"
        BY <1>3, <3>4 DEF LeftInv
      <4>2. l.what # "active"
        <5>1. Shown(stdout, 0, seen.status, "idle") => seen.status = "idle"
          BY DEF Shown
        <5>2. l.what = "active" => Shown(stdout, 1 - 1, seen.status, "idle")
          BY <1>1, <1>2, <2>2 DEF StatusInv
        <5> QED
          BY <4>1, <5>1, <5>2
      <4>3. CASE s.status = "notLoaded"
        BY <4>1, <4>3
      <4>4. CASE s.status # "notLoaded"
        <5>1. Flush(s)
          BY <1>6, <2>3, <4>4 DEF ReadStatus, ApplyStatus
        <5>2. Dispatch(s)
          BY <3>2, <4>1, <5>1 DEF Flush
        <5>3. ~Ready(s)
          BY <2>5, <5>2, DispatchLeaves
        <5> QED
          BY <1>1, <2>3, <3>2, <4>2, <4>4, <5>3, NotReady
      <4> QED
        BY <4>3, <4>4
    <3> QED
      BY <1>3, <1>4, <2>1, <2>3, <3>3, <3>4 DEF LeftInv
  <2> QED
    BY <2>4, <2>5
<1>7. CASE ReadTurn(l)
  <2>1. /\ seen' = [seen EXCEPT !.turn = l.what]
        /\ UNCHANGED <<stop, buffer, flight>>
    BY <1>7 DEF ReadTurn, sink
  <2>2. seen'.status = seen.status /\ seen'.thread = seen.thread
    BY <1>1, <2>1 DEF Seen
  <2>3. (OldInBuffer' <=> OldInBuffer) /\ (InFlight' <=> InFlight)
    BY <1>3, <2>1, OldStays DEF InFlight
  <2> QED
    BY <1>3, <1>4, <2>1, <2>2, <2>3 DEF LeftInv
<1>8. CASE ReadAnswer(l) /\ l.is = "interrupted"
  <2>1. stop' = "interrupted" /\ UNCHANGED <<seen, buffer, flight>>
    BY <1>8 DEF ReadAnswer
  <2>2. stop \in {"interrupting", "interrupted"}
    <3>1. stop \notin {"no", "waits", "waitsLater", "owns"}
      BY <1>1, <1>2, <1>8 DEF HushInv
    <3> QED
      BY <1>1, <1>3, <3>1 DEF SinkType, Stages
  <2>3. (OldInBuffer' <=> OldInBuffer) /\ (InFlight' <=> InFlight)
    BY <1>3, <2>1, OldStays DEF InFlight
  <2> QED
    BY <1>3, <1>4, <2>1, <2>2, <2>3 DEF LeftInv
<1>9. CASE ReadAnswer(l) /\ l.is = "answer"
  <2>1. UNCHANGED <<stop, seen, buffer>>
    BY <1>9 DEF ReadAnswer
  <2>2. InFlight
    BY <1>1, <1>2, <1>3, <1>9 DEF PipeInv, AnswersRight, AnswerRight
  <2>3. OldInBuffer' <=> OldInBuffer
    BY <1>3, <2>1, OldStays
  <2> QED
    BY <1>3, <1>4, <2>1, <2>2, <2>3 DEF LeftInv
<1>10. ReadAnswer(l) => l.is = "interrupted" \/ l.is = "answer"
  BY DEF ReadAnswer
<1> QED
  BY <1>3, <1>5, <1>6, <1>7, <1>8, <1>9, <1>10

LEMMA LeftOtherwise ==
  CodexInv /\ LeftInv
  /\ (Receive \/ Finish \/ Retry \/ StdoutEnds \/ StdinBreaks \/ Interrupt \/ Close)
    => LeftInv'
<1> SUFFICES ASSUME CodexInv, LeftInv,
                    Receive \/ Finish \/ Retry \/ StdoutEnds \/ StdinBreaks \/ Interrupt \/ Close
             PROVE  LeftInv'
  OBVIOUS
<1>1. SinkType /\ before <= received
  BY DEF CodexInv, PipeInv, Held
<1>2. CASE Receive
  <2>1. UNCHANGED <<seen, open, before, stop, flight>> /\ received' = received + 1
    BY <1>2 DEF Receive
  <2>2. OldInBuffer' => OldInBuffer
    <3>1. CASE buffer' = buffer
      BY <2>1, <3>1, OldStays
    <3>2. CASE buffer' = Append(buffer, received')
      <4>1. buffer \in Seq(Nat) /\ received' \in Nat /\ before \in Nat /\ received \in Nat
        BY <1>1, <2>1 DEF SinkType
      <4>2. Members(buffer') = Members(buffer) \cup {received'}
        BY <3>2, <4>1, EventsAppended
      <4>3. ~(received' <= before)
        BY <1>1, <2>1, <4>1
      <4> QED
        BY <2>1, <4>2, <4>3 DEF OldInBuffer
    <3> QED
      BY <1>2, <3>1, <3>2 DEF Receive
  <2>3. InFlight' <=> InFlight
    BY <2>1 DEF InFlight
  <2> QED
    BY <2>1, <2>2, <2>3 DEF LeftInv
<1>3. CASE Finish
  <2>1. /\ UNCHANGED <<seen, open, before>> /\ flight' = NoFlight
        /\ stop' = IF stop = "owns" THEN "flushed" ELSE stop
        /\ Taken \/ GivenUp \/ Unloaded
    BY <1>3 DEF Finish
  <2>2. InFlight /\ ~InFlight'
    BY <2>1 DEF InFlight, NoFlight, Taken, GivenUp, Unloaded
  <2>3. stop \in {"owns", "flushed", "interrupting", "interrupted", "closed"} => ~OldInBuffer
    BY <2>2 DEF LeftInv
  <2>4. CASE buffer' = buffer
    <3>1. OldInBuffer' <=> OldInBuffer
      BY <2>1, <2>4, OldStays
    <3> QED
      BY <2>1, <2>3, <3>1 DEF LeftInv
  <2>5. CASE Unloaded
    <3>1. seen.status = "notLoaded"
      BY <2>5 DEF Unloaded
    <3> QED
      BY <2>1, <2>2, <3>1 DEF LeftInv
  <2> QED
    BY <2>1, <2>4, <2>5 DEF Taken, GivenUp
<1>4. CASE Retry
  <2>1. UNCHANGED <<seen, open, before, buffer, stop>> /\ InFlight
    BY <1>4 DEF Retry, InFlight, NoFlight
  <2>2. OldInBuffer' <=> OldInBuffer
    BY <2>1, OldStays
  <2> QED
    BY <2>1, <2>2 DEF LeftInv
<1>5. ASSUME UNCHANGED <<seen, buffer, before>>, open' \in {open, FALSE}, InFlight' <=> InFlight,
             \/ stop' = stop
             \/ stop = "interrupting" /\ stop' = "interrupted"
             \/ stop = "interrupted" /\ stop' = "closed" /\ ~open'
             \/ stop = "flushed" /\ stop' = "closed" /\ ~open' /\ seen.turn = 0
             \/ stop = "flushed" /\ stop' \in {"interrupting", "interrupted"} /\ seen.turn # 0
      PROVE  LeftInv'
  <2>1. OldInBuffer' <=> OldInBuffer
    BY <1>5, OldStays
  <2>2. ~open => ~open'
    BY ONLY open' \in {open, FALSE}, <1>5
  <2>3. UNCHANGED <<seen.thread, seen.status, seen.turn>>
    BY <1>5
  <2>4. (stop' # "no" => seen'.thread \/ ~open') /\ (stop' = "closed" => ~open')
    BY ONLY <1>5, <2>2, <2>3, LeftInv DEF LeftInv
  <2>5. stop' = "owns" => ~OldInBuffer'
    BY <1>5, <2>1 DEF LeftInv
  <2>6. ASSUME stop' \in {"flushed", "interrupting", "interrupted", "closed"}, OldInBuffer'
        PROVE  /\ ~InFlight'
               /\ \/ seen'.status = "notLoaded"
                  \/ stop' \in {"flushed", "closed"} /\ seen'.status = "active" /\ seen'.turn = 0
    <3>1. stop \in {"flushed", "interrupting", "interrupted", "closed"} /\ OldInBuffer
      BY <1>5, <2>1, <2>6
    <3>2. /\ ~InFlight
          /\ \/ seen.status = "notLoaded"
             \/ stop \in {"flushed", "closed"} /\ seen.status = "active" /\ seen.turn = 0
      BY <3>1 DEF LeftInv
    <3> QED
      BY <1>5, <2>3, <3>2
  <2> QED
    BY <2>4, <2>5, <2>6 DEF LeftInv
<1>6. flight' = Rejected(flight) => (InFlight' <=> InFlight)
  <2> SUFFICES ASSUME flight' = Rejected(flight), flight # NoFlight, flight.answer = "none"
               PROVE  flight' # NoFlight
    BY DEF Rejected, InFlight
  <2>1. flight'.answer = "refused"
    BY <1>1 DEF Rejected, SinkType
  <2> QED
    BY <2>1 DEF NoFlight
<1>7. CASE StdoutEnds \/ StdinBreaks
  BY <1>5, <1>6, <1>7 DEF StdoutEnds, StdinBreaks, Cleanup
<1>8. CASE Interrupt
  BY <1>5, <1>8 DEF Interrupt, sink, InFlight
<1>9. CASE Close
  BY <1>5, <1>6, <1>9 DEF Close
<1> QED
  BY <1>2, <1>3, <1>4, <1>7, <1>8, <1>9

LEMMA LeftInvariant == Spec => []LeftInv
<1>1. Init => LeftInv
  BY NothingOld DEF Init, LeftInv
<1>2. CodexInv /\ LeftInv /\ [Next]_vars => LeftInv'
  <2>1. ASSUME LeftInv, UNCHANGED <<seen, buffer, flight, before, open, stop>> PROVE LeftInv'
    <3>1. (OldInBuffer' <=> OldInBuffer) /\ (InFlight' <=> InFlight)
      BY <2>1, OldStays DEF InFlight
    <3> QED
      BY <2>1, <3>1 DEF LeftInv
  <2>2. Codex => UNCHANGED <<seen, buffer, flight, before, open, stop>>
    BY DEF Codex, Load, Handle, EndTurn, Stumble, Recover, Exit, OfCodex, sink
  <2>3. UNCHANGED vars => UNCHANGED <<seen, buffer, flight, before, open, stop>>
    BY DEF vars, sink
  <2> QED
    BY <2>1, <2>2, <2>3, LeftFlushing, LeftReading, LeftOtherwise DEF Next
<1> QED
  BY <1>1, <1>2, CodexInvariant, PTL DEF Spec

\* Once the connection is closed and what was under way is settled, an event that
\* came before the teardown was taken by codex or given up with a line in the log,
\* unless there was no thread, none loaded, or one active with its turn not yet
\* known (teardown of codex.ts, flushNow of channel-sink.ts).
THEOREM NothingLeftBehind == Spec => []FlushedAtTheEnd
<1>1. CodexInv /\ LeftInv => FlushedAtTheEnd
  <2> SUFFICES ASSUME CodexInv, LeftInv, stop = "closed", ~InFlight, NEW e \in 1..before
               PROVE  \/ e \in Members(accepted) \cup dropped
                      \/ e \in Members(buffer) \cup Members(pendingArgs) /\ ~Ready(seen)
    BY DEF FlushedAtTheEnd
  <2>1. Attached /\ Accounted /\ e \in 1..received /\ e <= before
    BY DEF CodexInv, PipeInv, Held, SinkType
  <2>2. Members(flight.events) = {}
    BY NoEvents DEF InFlight, NoFlight
  <2>3. \/ e \in Members(accepted) \cup dropped
        \/ e \in Members(buffer) \/ e \in Members(pendingArgs)
    BY <2>1, <2>2 DEF Accounted
  <2>4. ASSUME e \in Members(buffer) PROVE ~Ready(seen)
    BY <2>1, <2>4 DEF LeftInv, OldInBuffer, Ready
  <2>5. ASSUME e \in Members(pendingArgs) PROVE ~Ready(seen)
    BY <2>1, <2>5, NoEvents DEF Attached, Ready
  <2> QED
    BY <2>3, <2>4, <2>5
<1> QED
  BY <1>1, CodexInvariant, LeftInvariant, PTL

-----------------------------------------------------------------------------
(* Types within their bounds: nobody knows of a turn that codex has not      *)
(* begun, and a turn begins only with events that were never taken before.   *)

Asks == [kind : Kinds, turn : Nat, events : Seq(Nat)]
Asked(q, n) ==
  \A i \in 1..Len(q) : q[i].turn <= n /\ (q[i].kind = "interrupt" <=> q[i].events = <<>>)
Told(q, n) == \A i \in 1..Len(q) : q[i].is = "turn" => q[i].what <= n
Sent(f, n) == f.turn <= n /\ (f # NoFlight => f.events # <<>>)

Bounded ==
  /\ received <= MaxEvents /\ troubles \in 0..MaxTroubles
  /\ timer \in BOOLEAN /\ waiting \in BOOLEAN
  /\ dropped \subseteq 1..received

TurnsKnown ==
  /\ codex.turns <= Len(accepted) /\ codex.turn <= codex.turns
  /\ seen.turn <= codex.turns /\ Sent(flight, codex.turns)
  /\ Asked(stdin, codex.turns) /\ Told(stdout, codex.turns)

\* Numbers that grow and go no further than n are no more than n.
LEMMA FewEvents ==
  ASSUME NEW q \in Seq(Nat), NEW n \in Nat, Increasing(q), Members(q) \subseteq 1..n
  PROVE  Len(q) \in Nat /\ Len(q) <= n
<1>1. PICK m \in Nat : m = Len(q) /\ DOMAIN q = 1..m /\ q \in [1..m -> Nat]
  BY LenProperties
<1>2. \A i \in 1..m : q[i] \in 1..n
  BY <1>1 DEF Members
<1>3. q \in [1..m -> 1..n]
  BY <1>1, <1>2
<1>4. \A i, j \in 1..m : q[i] = q[j] => i = j
  <2> SUFFICES ASSUME NEW i \in 1..m, NEW j \in 1..m, i < j PROVE q[i] # q[j]
    OBVIOUS
  <2> QED
    BY <1>1, <1>2 DEF Increasing
<1>5. q \in Injection(1..m, 1..n)
  BY <1>1, <1>3, <1>4 DEF Injection, IsInjective
<1>6. IsFiniteSet(1..n) /\ Cardinality(1..n) = n /\ Cardinality(1..m) = m
  BY FS_Interval
<1>7. Cardinality(1..m) <= Cardinality(1..n)
  BY <1>5, <1>6, FS_Injection
<1> QED
  BY <1>1, <1>6, <1>7

LEMMA AskedLess ==
  ASSUME NEW q \in Seq(Asks), q # <<>>, NEW n \in Nat, Asked(q, n), NEW m \in Nat, n <= m
  PROVE  /\ Asked(q, m) /\ Asked(Tail(q), m)
         /\ Head(q) \in Asks /\ (Head(q).kind = "interrupt" <=> Head(q).events = <<>>)
<1>1. PICK t : t = Tail(q)
  OBVIOUS
<1>2. /\ Head(q) \in Asks /\ Head(q) = q[1] /\ 1 \in 1..Len(q)
      /\ \A i \in 1..Len(t) : i + 1 \in 1..Len(q) /\ t[i] = q[i + 1]
      /\ \A i \in 1..Len(q) : q[i] \in Asks
  BY <1>1, FrontGone
<1>3. \A r \in Asks : r.turn \in Nat
  BY DEF Asks
<1>4. \A i \in 1..Len(q) : q[i].turn <= m /\ (q[i].kind = "interrupt" <=> q[i].events = <<>>)
  BY <1>2, <1>3 DEF Asked
<1> QED
  BY <1>1, <1>2, <1>4 DEF Asked

LEMMA AskedMore ==
  ASSUME NEW q \in Seq(Asks), NEW n \in Nat, Asked(q, n),
         NEW r \in Asks, r.turn <= n, r.kind = "interrupt" <=> r.events = <<>>
  PROVE  Asked(Append(q, r), n)
<1>1. PICK t : t = Append(q, r)
  OBVIOUS
<1>2. /\ Len(t) = Len(q) + 1 /\ Len(q) \in Nat /\ t[Len(q) + 1] = r
      /\ \A i \in 1..Len(q) : t[i] = q[i]
  BY <1>1, AppendProperties, LenProperties
<1>3. \A i \in 1..Len(t) : i \in 1..Len(q) \/ i = Len(q) + 1
  BY <1>2
<1> QED
  BY <1>1, <1>2, <1>3 DEF Asked

LEMMA ToldRead ==
  ASSUME NEW q \in Seq(Lines), q # <<>>, NEW n \in Nat, Told(q, n)
  PROVE  Told(Tail(q), n) /\ Head(q) \in Lines /\ (Head(q).is = "turn" => Head(q).what <= n)
<1>1. PICK t : t = Tail(q)
  OBVIOUS
<1>2. /\ Head(q) \in Lines /\ Head(q) = q[1] /\ 1 \in 1..Len(q)
      /\ \A i \in 1..Len(t) : i + 1 \in 1..Len(q) /\ t[i] = q[i + 1]
  BY <1>1, FrontGone
<1> QED
  BY <1>1, <1>2 DEF Told

LEMMA ToldMore ==
  ASSUME NEW q \in Seq(Lines), NEW n \in Nat, Told(q, n), NEW m \in Nat, n <= m,
         NEW lines \in Seq(Lines), Told(lines, m)
  PROVE  Told(q \o lines, m)
<1>1. PICK t : t = q \o lines
  OBVIOUS
<1>2. \A i \in 1..Len(t) : \/ i \in 1..Len(q) /\ t[i] = q[i]
                           \/ i - Len(q) \in 1..Len(lines) /\ t[i] = lines[i - Len(q)]
  BY <1>1, BackCome
<1>3. \A i \in 1..Len(q) : q[i].is = "turn" => q[i].what \in Nat
  BY ElementOfSeq, LineShape
<1>4. \A i \in 1..Len(q) : q[i].is = "turn" => q[i].what <= m
  BY <1>3 DEF Told
<1> QED
  BY <1>1, <1>2, <1>4 DEF Told


\* What the runner sends is about a turn it has seen, and never empty.
LEMMA InputSent ==
  ASSUME NEW s \in Seen, NEW n \in Nat, s.turn <= n, NEW events \in Seq(Nat), events # <<>>,
         NEW retry \in BOOLEAN, NEW q \in Seq(Asks), Asked(q, n),
         NEW f, f = Input(s, events, retry),
         NEW t, t = Append(q, [kind |-> f.kind, turn |-> f.turn, events |-> f.events])
  PROVE  Sent(f, n) /\ Asked(t, n)
<1>0. s.turn \in Nat
  BY DEF Seen
<1>1. /\ f.turn \in Nat /\ f.turn <= n /\ f.events = events /\ f.kind \in {"start", "steer"}
  <2>1. /\ f.turn = IF s.status = "idle" THEN 0 ELSE s.turn
        /\ f.kind = IF s.status = "idle" THEN "start" ELSE "steer"
        /\ f.events = events
    BY DEF Input
  <2> QED
    BY <1>0, <2>1
<1>2. PICK r : r = [kind |-> f.kind, turn |-> f.turn, events |-> f.events]
  OBVIOUS
<1>3. r \in Asks
  BY <1>1, <1>2 DEF Asks, Kinds
<1>4. r.turn <= n /\ r.events # <<>> /\ r.kind # "interrupt"
  BY <1>1, <1>2
<1> QED
  BY <1>1, <1>2, <1>3, <1>4, AskedMore DEF Sent

\* What is under way after a step that may dispatch the buffer.
Dispatches(s) == Nothing \/ (buffer # <<>> /\ Dispatch(s))

LEMMA DispatchSent ==
  ASSUME SinkType, NEW s \in Seen, Dispatches(s), NEW n \in Nat, s.turn <= n,
         Sent(flight, n), Asked(stdin, n)
  PROVE  /\ Sent(flight', n) /\ Asked(stdin', n)
         /\ dropped' \subseteq dropped \cup Members(buffer)
<1>1. CASE UNCHANGED <<flight, stdin>> /\ dropped' \subseteq dropped \cup Members(buffer)
  BY <1>1
<1>2. CASE /\ buffer # <<>> /\ dropped' = dropped /\ flight' = Input(s, buffer, FALSE)
           /\ stdin' = Append(stdin, [kind |-> flight'.kind, turn |-> flight'.turn,
                                      events |-> flight'.events])
  <2>1. buffer \in Seq(Nat) /\ stdin \in Seq(Asks)
    BY DEF SinkType, Asks
  <2> QED
    BY <1>2, <2>1, InputSent
<1> QED
  BY <1>1, <1>2 DEF Dispatches, Nothing, Dispatch, Send

BoundInv == CodexInv /\ Bounded /\ TurnsKnown

LEMMA BoundFacts ==
  ASSUME BoundInv
  PROVE  /\ SinkType /\ seen \in Seen /\ codex \in Processes
         /\ codex.turns \in Nat /\ codex.turn \in Nat /\ seen.turn \in Nat
         /\ received \in Nat /\ accepted \in Seq(Nat)
         /\ stdin \in Seq(Asks) /\ stdout \in Seq(Lines)
         /\ Members(buffer) \subseteq 1..received /\ Members(flight.events) \subseteq 1..received
BY DEF BoundInv, CodexInv, PipeInv, SinkType, Held, InFlightRight, Asks, Seen, Processes

\* A step of the runner that sends nothing, or what DispatchSent allows.
LEMMA SentKept ==
  ASSUME BoundInv, UNCHANGED <<codex, accepted>>, seen'.turn <= codex.turns,
         Sent(flight', codex.turns), Asked(stdin', codex.turns), Told(stdout', codex.turns)
  PROVE  TurnsKnown'
BY DEF BoundInv, TurnsKnown

LEMMA DispatchBounded ==
  ASSUME BoundInv, NEW s \in Seen, s.turn <= codex.turns, Dispatches(s), seen' = s,
         timer' \in BOOLEAN, waiting' \in BOOLEAN, Told(stdout', codex.turns),
         UNCHANGED <<received, troubles, codex, accepted>>
  PROVE  Bounded' /\ TurnsKnown'
<1>1. /\ SinkType /\ codex.turns \in Nat /\ Members(buffer) \subseteq 1..received
      /\ Sent(flight, codex.turns) /\ Asked(stdin, codex.turns)
  BY BoundFacts DEF BoundInv, TurnsKnown
<1>2. /\ Sent(flight', codex.turns) /\ Asked(stdin', codex.turns)
      /\ dropped' \subseteq dropped \cup Members(buffer)
  BY <1>1, DispatchSent
<1>3. TurnsKnown'
  BY <1>2, SentKept
<1>4. Bounded'
  BY <1>1, <1>2 DEF BoundInv, Bounded
<1> QED
  BY <1>3, <1>4


LEMMA NoFlightSent == \A n \in Nat : Sent(NoFlight, n)
BY DEF Sent, NoFlight

LEMMA FlushBounded ==
  ASSUME NEW s, Flush(s), timer \in BOOLEAN, waiting \in BOOLEAN
  PROVE  Dispatches(s) /\ timer' \in BOOLEAN /\ waiting' \in BOOLEAN
BY DEF Flush, Dispatches, InFlight

LEMMA ReadBounded == BoundInv /\ Read => Bounded' /\ TurnsKnown'
<1> SUFFICES ASSUME BoundInv, Read PROVE Bounded' /\ TurnsKnown'
  OBVIOUS
<1>1. /\ SinkType /\ seen \in Seen /\ codex.turns \in Nat /\ seen.turn \in Nat
      /\ stdin \in Seq(Asks) /\ stdout \in Seq(Lines)
      /\ Bounded /\ seen.turn <= codex.turns /\ Sent(flight, codex.turns)
      /\ Asked(stdin, codex.turns) /\ Told(stdout, codex.turns)
  BY BoundFacts DEF BoundInv, TurnsKnown
<1>2. PICK l : /\ stdout # <<>> /\ l = Head(stdout) /\ stdout' = Tail(stdout)
               /\ ReadLoaded(l) \/ ReadStatus(l) \/ ReadTurn(l) \/ ReadAnswer(l)
               /\ UNCHANGED <<received, codex, troubles, accepted>>
  BY DEF Read
<1>3. /\ Told(stdout', codex.turns) /\ l \in Lines
      /\ l.is = "turn" => l.what \in Nat /\ l.what <= codex.turns
      /\ IsStatus(l) => l.what \in Statuses
  BY <1>1, <1>2, ToldRead, LineShape
<1>4. CASE ReadLoaded(l)
  <2>1. /\ seen' = [seen EXCEPT !.thread = TRUE, !.status = l.what]
        /\ timer' \in BOOLEAN /\ UNCHANGED <<flight, waiting, stdin, dropped>>
    BY <1>4 DEF ReadLoaded
  <2>2. seen'.turn = seen.turn
    BY <1>1, <2>1 DEF Seen
  <2>3. TurnsKnown'
    BY <1>1, <1>2, <1>3, <2>1, <2>2, SentKept
  <2> QED
    BY <1>1, <1>2, <2>1, <2>3 DEF Bounded
<1>5. CASE ReadStatus(l)
  <2>1. PICK s : s = [seen EXCEPT !.status = l.what] /\ seen' = s /\ ApplyStatus(s) /\ IsStatus(l)
    BY <1>5 DEF ReadStatus, IsStatus
  <2>2. s \in Seen /\ s.turn = seen.turn
    BY <1>1, <1>3, <2>1 DEF Seen
  <2>3. timer \in BOOLEAN /\ waiting \in BOOLEAN
    BY <1>1 DEF Bounded
  <2>4. Dispatches(s) /\ timer' \in BOOLEAN /\ waiting' \in BOOLEAN
    <3>1. CASE NoteStatus(s)
      BY <2>3, <3>1 DEF NoteStatus, Dispatches
    <3>2. CASE Flush(s)
      BY <2>3, <3>2, FlushBounded
    <3> QED
      BY <2>1, <3>1, <3>2 DEF ApplyStatus
  <2> QED
    BY <1>1, <1>2, <1>3, <2>1, <2>2, <2>4, DispatchBounded
<1>6. CASE ReadTurn(l)
  <2>1. /\ l.is = "turn" /\ seen' = [seen EXCEPT !.turn = l.what]
        /\ UNCHANGED <<timer, flight, waiting, stdin, dropped>>
    BY <1>6 DEF ReadTurn, sink
  <2>2. seen'.turn <= codex.turns
    BY <1>1, <1>3, <2>1 DEF Seen
  <2>3. TurnsKnown'
    BY <1>1, <1>2, <1>3, <2>1, <2>2, SentKept
  <2> QED
    BY <1>1, <1>2, <2>1, <2>3 DEF Bounded
<1>7. CASE ReadAnswer(l)
  <2>1. /\ UNCHANGED <<timer, waiting, seen, stdin, dropped>>
        /\ flight' = flight \/ (l.is = "answer" /\ flight' = [flight EXCEPT !.answer = l.what])
    BY <1>7 DEF ReadAnswer
  <2>2. l.is = "answer" => InFlight
    <3>1. CASE l.is = "answer"
      <4>1. 1 \in 1..Len(stdout) /\ Head(stdout) = stdout[1]
        BY <1>1, <1>2, FrontGone
      <4>2. open /\ AnswersRight
        BY DEF Read, BoundInv, CodexInv, PipeInv
      <4> QED
        BY <1>2, <3>1, <4>1, <4>2 DEF AnswersRight, AnswerRight
    <3> QED
      BY <3>1
  <2>3. Sent(flight', codex.turns)
    <3>1. CASE flight' = flight
      BY <1>1, <3>1
    <3>2. CASE l.is = "answer" /\ flight' = [flight EXCEPT !.answer = l.what]
      <4>1. flight'.turn = flight.turn /\ flight'.events = flight.events /\ flight # NoFlight
        BY <1>1, <2>2, <3>2 DEF SinkType, InFlight
      <4> QED
        BY <1>1, <4>1 DEF Sent
    <3> QED
      BY <2>1, <3>1, <3>2
  <2>4. TurnsKnown'
    BY <1>1, <1>2, <1>3, <2>1, <2>3, SentKept
  <2> QED
    BY <1>1, <1>2, <2>1, <2>4 DEF Bounded
<1> QED
  BY <1>2, <1>4, <1>5, <1>6, <1>7

\* What ends, goes on after or begins a flush.
LEMMA FlushingBounded ==
  ASSUME BoundInv, Fire \/ Finish \/ Retry \/ Resume \/ Teardown \/ ResumeFinal
  PROVE  Bounded' /\ TurnsKnown'
<1>1. /\ SinkType /\ seen \in Seen /\ codex.turns \in Nat /\ seen.turn \in Nat
      /\ stdin \in Seq(Asks) /\ Members(flight.events) \subseteq 1..received
      /\ Bounded /\ seen.turn <= codex.turns /\ Sent(flight, codex.turns)
      /\ Asked(stdin, codex.turns) /\ Told(stdout, codex.turns)
  BY BoundFacts DEF BoundInv, TurnsKnown
<1>2. timer \in BOOLEAN /\ waiting \in BOOLEAN
  BY <1>1 DEF Bounded
<1>3. UNCHANGED <<received, troubles, codex, accepted, seen, stdout>>
  BY DEF Fire, Finish, Retry, Resume, Teardown, ResumeFinal
<1>4. CASE Dispatches(seen) /\ timer' \in BOOLEAN /\ waiting' \in BOOLEAN
  BY <1>1, <1>3, <1>4, DispatchBounded
<1>5. CASE Fire
  BY <1>2, <1>4, <1>5, FlushBounded DEF Fire
<1>6. CASE Resume
  <2>1. Dispatches(seen) /\ timer' = timer /\ waiting' = FALSE
    BY <1>6 DEF Resume, Dispatches
  <2> QED
    BY <1>2, <1>4, <2>1
<1>7. CASE Teardown
  <2>1. Dispatches(seen) /\ timer' = FALSE /\ waiting' = waiting
    BY <1>7 DEF Teardown, FinalFlush, Dispatches
  <2> QED
    BY <1>2, <1>4, <2>1
<1>8. CASE ResumeFinal
  <2>1. Dispatches(seen) /\ timer' = timer /\ waiting' = waiting
    BY <1>8 DEF ResumeFinal, Dispatches
  <2> QED
    BY <1>2, <1>4, <2>1
<1>9. CASE Finish
  <2>1. /\ UNCHANGED <<timer, waiting, stdin>> /\ flight' = NoFlight
        /\ dropped' \subseteq dropped \cup Members(flight.events)
    BY <1>9 DEF Finish, Taken, GivenUp, Unloaded
  <2>2. TurnsKnown'
    BY <1>1, <1>3, <2>1, NoFlightSent, SentKept
  <2> QED
    BY <1>1, <1>3, <2>1, <2>2 DEF Bounded
<1>10. CASE Retry
  <2>1. /\ UNCHANGED <<timer, waiting, dropped>> /\ flight.answer = "race"
        /\ flight' = Input(seen, flight.events, TRUE)
        /\ stdin' = Append(stdin, [kind |-> flight'.kind, turn |-> flight'.turn,
                                   events |-> flight'.events])
    BY <1>10 DEF Retry, Send
  <2>2. flight.events \in Seq(Nat) /\ flight.events # <<>>
    BY <1>1, <2>1 DEF SinkType, Sent, NoFlight
  <2>3. Sent(flight', codex.turns) /\ Asked(stdin', codex.turns)
    BY <1>1, <2>1, <2>2, InputSent
  <2>4. TurnsKnown'
    BY <1>1, <1>3, <2>3, SentKept
  <2> QED
    BY <1>1, <1>3, <2>1, <2>4 DEF Bounded
<1> QED
  BY <1>5, <1>6, <1>7, <1>8, <1>9, <1>10


\* What comes in, and what ends.
LEMMA RunnerBounded ==
  ASSUME BoundInv, Receive \/ StdoutEnds \/ StdinBreaks \/ Interrupt \/ Close
  PROVE  Bounded' /\ TurnsKnown'
<1>1. /\ SinkType /\ codex.turns \in Nat /\ seen.turn \in Nat /\ received \in Nat
      /\ stdin \in Seq(Asks)
      /\ Bounded /\ seen.turn <= codex.turns /\ Sent(flight, codex.turns)
      /\ Asked(stdin, codex.turns) /\ Told(stdout, codex.turns)
  BY BoundFacts DEF BoundInv, TurnsKnown
<1>2. UNCHANGED <<troubles, codex, accepted, seen, stdout, dropped, waiting>>
  BY DEF Receive, StdoutEnds, StdinBreaks, Cleanup, Interrupt, Close, sink
<1>3. ASSUME UNCHANGED <<received, timer>>, Sent(flight', codex.turns), Asked(stdin', codex.turns)
      PROVE  Bounded' /\ TurnsKnown'
  <2>1. TurnsKnown'
    BY <1>1, <1>2, <1>3, SentKept
  <2> QED
    BY <1>1, <1>2, <1>3, <2>1 DEF Bounded
<1>4. CASE Receive
  <2>1. /\ received < MaxEvents /\ received' = received + 1 /\ (timer' = TRUE \/ timer' = timer)
        /\ UNCHANGED <<flight, stdin>>
    BY <1>4 DEF Receive
  <2>2. TurnsKnown'
    BY <1>1, <1>2, <2>1, SentKept
  <2>3. received' <= MaxEvents
    BY <1>1, <2>1, BoundsAssumption
  <2>4. dropped' \subseteq 1..received'
    <3>1. 1..received \subseteq 1..received'
      BY <1>1, <2>1
    <3> QED
      BY <1>1, <1>2, <3>1 DEF Bounded
  <2> QED
    BY <1>1, <1>2, <2>1, <2>2, <2>3, <2>4 DEF Bounded
<1>5. Sent(Rejected(flight), codex.turns)
  <2>1. CASE flight = NoFlight
    BY <1>1, <2>1 DEF Rejected
  <2>2. CASE flight # NoFlight
    <3>1. Rejected(flight).turn = flight.turn /\ Rejected(flight).events = flight.events
      BY <1>1 DEF Rejected, SinkType
    <3> QED
      BY <1>1, <2>2, <3>1 DEF Sent
  <2> QED
    BY <2>1, <2>2
<1>6. CASE StdoutEnds \/ StdinBreaks
  BY <1>1, <1>3, <1>5, <1>6 DEF StdoutEnds, StdinBreaks, Cleanup
<1>7. CASE Close
  BY <1>1, <1>3, <1>5, <1>7 DEF Close
<1>8. CASE Interrupt
  <2>1. PICK r : r = [kind |-> "interrupt", turn |-> seen.turn, events |-> <<>>]
    OBVIOUS
  <2>2. r \in Asks /\ r.turn <= codex.turns /\ r.kind = "interrupt" /\ r.events = <<>>
    BY <1>1, <2>1, NoEvents DEF Asks, Kinds
  <2>3. UNCHANGED <<received, timer, flight>> /\ (stdin' = stdin \/ stdin' = Append(stdin, r))
    BY <1>8, <2>1 DEF Interrupt, sink
  <2>4. Asked(stdin', codex.turns)
    BY <1>1, <2>2, <2>3, AskedMore
  <2> QED
    BY <1>1, <1>3, <2>3, <2>4
<1> QED
  BY <1>4, <1>6, <1>7, <1>8

\* A step of codex speaks only of turns it has begun.
LEMMA CodexSays ==
  ASSUME BoundInv, OfCodex, stdin' = stdin \/ (stdin # <<>> /\ stdin' = Tail(stdin)),
         NEW lines \in Seq(Lines), stdout' = stdout \o lines, Told(lines, codex'.turns),
         codex'.turns \in Nat, codex.turns <= codex'.turns, codex'.turn <= codex'.turns,
         codex'.turns <= Len(accepted'), troubles' \in 0..MaxTroubles
  PROVE  Bounded' /\ TurnsKnown'
<1>1. /\ SinkType /\ codex.turns \in Nat /\ seen.turn \in Nat
      /\ stdin \in Seq(Asks) /\ stdout \in Seq(Lines)
      /\ Bounded /\ seen.turn <= codex.turns /\ Sent(flight, codex.turns)
      /\ Asked(stdin, codex.turns) /\ Told(stdout, codex.turns)
  BY BoundFacts DEF BoundInv, TurnsKnown
<1>2. UNCHANGED <<received, timer, waiting, flight, seen, dropped>>
  BY DEF OfCodex, sink
<1>3. Asked(stdin', codex'.turns) /\ Told(stdout', codex'.turns)
  <2>1. Asked(stdin, codex'.turns)
    <3>1. CASE stdin = <<>>
      BY <3>1, EmptySeq DEF Asked
    <3>2. CASE stdin # <<>>
      BY <1>1, <3>2, AskedLess
    <3> QED
      BY <3>1, <3>2
  <2>2. Asked(stdin', codex'.turns)
    BY <1>1, <2>1, AskedLess
  <2>3. Told(stdout', codex'.turns)
    BY <1>1, ToldMore
  <2> QED
    BY <2>2, <2>3
<1>4. Sent(flight', codex'.turns)
  <2>1. flight.turn \in Nat
    BY <1>1 DEF SinkType
  <2> QED
    BY <1>1, <1>2, <2>1 DEF Sent
<1>5. seen'.turn <= codex'.turns
  BY <1>1, <1>2
<1>6. TurnsKnown'
  BY <1>3, <1>4, <1>5 DEF TurnsKnown
<1> QED
  BY <1>1, <1>2, <1>6 DEF Bounded


\* A line that is no news of a turn, and one of a turn begun.
Fits(l, n) == l \in Lines /\ (l.is = "turn" => l.what <= n)

LEMMA FitLines ==
  ASSUME NEW n \in Nat
  PROVE  /\ \A s \in Statuses : Fits(Line("status", s), n) /\ Fits(Line("loaded", s), n)
         /\ \A t \in 0..n : Fits(Line("turn", t), n)
         /\ \A w \in {"ok", "race", "refused"} : Fits(Line("answer", w), n)
         /\ Fits(Line("interrupted", ""), n)
<1>1. \A t \in 0..n : t \in Nat /\ t <= n
  OBVIOUS
<1>2. \A t : Line("turn", t).what = t
  BY DEF Line
<1>3. \A l \in Lines : l.is # "turn" => Fits(l, n)
  BY DEF Fits
<1>4. \A s \in Statuses : Fits(Line("status", s), n) /\ Fits(Line("loaded", s), n)
  <2> TAKE s \in Statuses
  <2>1. /\ Line("status", s) \in Lines /\ Line("status", s).is # "turn"
        /\ Line("loaded", s) \in Lines /\ Line("loaded", s).is # "turn"
    BY LineIs
  <2> QED
    BY <1>3, <2>1
<1>5. \A t \in 0..n : Fits(Line("turn", t), n)
  <2> TAKE t \in 0..n
  <2>1. t \in Nat /\ t <= n
    BY <1>1
  <2>2. Line("turn", t) \in Lines
    BY <2>1, LineIs
  <2>3. Line("turn", t).what = t
    BY <1>2
  <2> QED
    BY <2>1, <2>2, <2>3 DEF Fits
<1>6. \A w \in {"ok", "race", "refused"} : Fits(Line("answer", w), n)
  <2> TAKE w \in {"ok", "race", "refused"}
  <2>1. Line("answer", w) \in Lines /\ Line("answer", w).is # "turn"
    BY LineIs
  <2> QED
    BY <1>3, <2>1
<1>7. Line("interrupted", "") \in Lines /\ Line("interrupted", "").is # "turn"
  BY LineIs
<1> QED
  BY <1>3, <1>4, <1>5, <1>6, <1>7

LEMMA FitOne ==
  ASSUME NEW n, NEW x, Fits(x, n)
  PROVE  <<x>> \in Seq(Lines) /\ Told(<<x>>, n)
<1>1. PICK q : q = <<x>>
  OBVIOUS
<1>2. q \in Seq(Lines) /\ q[1] = x /\ \A i \in 1..Len(q) : i = 1
  BY <1>1, OneLine DEF Fits
<1> QED
  BY <1>1, <1>2 DEF Fits, Told

LEMMA FitTwo ==
  ASSUME NEW n, NEW x, Fits(x, n), NEW y, Fits(y, n)
  PROVE  <<x, y>> \in Seq(Lines) /\ Told(<<x, y>>, n)
<1>1. PICK q : q = <<x, y>>
  OBVIOUS
<1>2. q \in Seq(Lines) /\ q[1] = x /\ q[2] = y /\ \A i \in 1..Len(q) : i = 1 \/ i = 2
  BY <1>1, TwoLines DEF Fits
<1> QED
  BY <1>1, <1>2 DEF Fits, Told

LEMMA FitThree ==
  ASSUME NEW n, NEW x, Fits(x, n), NEW y, Fits(y, n), NEW z, Fits(z, n)
  PROVE  <<x, y, z>> \in Seq(Lines) /\ Told(<<x, y, z>>, n)
<1>1. PICK q : q = <<x, y, z>>
  OBVIOUS
<1>2. /\ q \in Seq(Lines) /\ q[1] = x /\ q[2] = y /\ q[3] = z
      /\ \A i \in 1..Len(q) : i = 1 \/ i = 2 \/ i = 3
  BY <1>1, ThreeLines DEF Fits
<1> QED
  BY <1>1, <1>2 DEF Fits, Told

\* A step of codex that takes no event begins no turn.
LEMMA CodexTells ==
  ASSUME BoundInv, OfCodex, stdin' = stdin \/ (stdin # <<>> /\ stdin' = Tail(stdin)),
         NEW lines, lines \in Seq(Lines) /\ Told(lines, codex.turns), stdout' = stdout \o lines,
         codex'.turns = codex.turns, codex'.turn \in {0, codex.turn},
         accepted' = accepted, troubles' \in 0..MaxTroubles
  PROVE  Bounded' /\ TurnsKnown'
<1>1. codex.turns \in Nat /\ codex.turns <= Len(accepted) /\ codex.turn <= codex.turns
  BY BoundFacts DEF BoundInv, TurnsKnown
<1>2. codex'.turn <= codex'.turns /\ codex.turns <= codex'.turns /\ codex'.turns \in Nat
  BY <1>1
<1> QED
  BY <1>1, <1>2, CodexSays


LEMMA HandleBounded == BoundInv /\ Handle => Bounded' /\ TurnsKnown'
<1> SUFFICES ASSUME BoundInv, Handle PROVE Bounded' /\ TurnsKnown'
  OBVIOUS
<1>1. /\ codex \in Processes /\ codex.turns \in Nat /\ stdin \in Seq(Asks) /\ accepted \in Seq(Nat)
      /\ codex.turns <= Len(accepted) /\ Asked(stdin, codex.turns) /\ troubles \in 0..MaxTroubles
  BY BoundFacts DEF BoundInv, TurnsKnown, Bounded
<1>2. PICK r : /\ r = Head(stdin) /\ OfCodex /\ stdin # <<>> /\ stdin' = Tail(stdin)
               /\ Begin(r) \/ Join(r) \/ Misfit(r) \/ Stop(r)
               /\ troubles' = troubles
  BY DEF Handle
<1>3. PICK n \in Nat : n = codex.turns
  BY <1>1
<1>4. CASE Begin(r)
  <2>1. PICK x, y, z : /\ x = Line("answer", "ok") /\ y = Line("status", "active")
                       /\ z = Line("turn", n + 1)
    OBVIOUS
  <2>2. Fits(x, n + 1) /\ Fits(y, n + 1) /\ Fits(z, n + 1)
    <3>1. PICK m \in Nat : m = n + 1 /\ m \in 0..m
      OBVIOUS
    <3>2. Fits(Line("answer", "ok"), m) /\ Fits(Line("turn", m), m)
      BY <3>1, FitLines
    <3>3. Fits(Line("status", "active"), m)
      BY FitLines DEF Statuses
    <3> QED
      BY <2>1, <3>1, <3>2, <3>3
  <2>3. PICK lines : /\ stdout' = stdout \o lines
                     /\ lines \in {<<x, y, z>>, <<x, z, y>>, <<y, x, z>>, <<y, z, x>>,
                                   <<z, x, y>>, <<z, y, x>>}
    BY <1>3, <1>4, <2>1 DEF Begin, Says
  <2>4. lines \in Seq(Lines) /\ Told(lines, n + 1)
    <3>1. \A a, b, c : Fits(a, n + 1) /\ Fits(b, n + 1) /\ Fits(c, n + 1)
                         => <<a, b, c>> \in Seq(Lines) /\ Told(<<a, b, c>>, n + 1)
      BY FitThree
    <3> QED
      BY <2>2, <2>3, <3>1
  <2>5. codex'.turns = n + 1 /\ codex'.turn = n + 1
    BY <1>1, <1>3, <1>4 DEF Begin, Processes
  <2>6. r.kind # "interrupt" /\ accepted' = accepted \o r.events
    BY <1>4 DEF Begin, Take
  <2>7. r.events \in Seq(Nat) /\ r.events # <<>>
    <3>1. r \in Asks /\ (r.kind = "interrupt" <=> r.events = <<>>)
      BY <1>1, <1>2, AskedLess
    <3> QED
      BY <2>6, <3>1 DEF Asks
  <2>8. n + 1 <= Len(accepted')
    <3>1. Len(accepted') = Len(accepted) + Len(r.events) /\ Len(accepted) \in Nat
      BY <1>1, <2>6, <2>7, BackCome
    <3>2. Len(r.events) \in Nat /\ Len(r.events) # 0
      BY <2>7, EmptySeq, LenProperties
    <3> QED
      BY <1>1, <1>3, <3>1, <3>2
  <2>9. /\ Told(lines, codex'.turns) /\ codex'.turns \in Nat /\ codex.turns <= codex'.turns
        /\ codex'.turn <= codex'.turns /\ codex'.turns <= Len(accepted')
    BY <1>3, <2>4, <2>5, <2>8
  <2> QED
    BY <1>1, <1>2, <2>3, <2>4, <2>9, CodexSays
<1>5. ASSUME NEW w \in {"ok", "race", "refused"}, stdout' = stdout \o <<Line("answer", w)>>,
             codex' = codex, accepted' = accepted \/ accepted' = accepted \o r.events
      PROVE  Bounded' /\ TurnsKnown'
  <2>1. <<Line("answer", w)>> \in Seq(Lines) /\ Told(<<Line("answer", w)>>, n)
    BY FitLines, FitOne
  <2>2. Len(accepted) <= Len(accepted')
    <3>1. r \in Asks
      BY <1>1, <1>2, AskedLess
    <3>2. r.events \in Seq(Nat)
      BY <3>1 DEF Asks
    <3>3. /\ Len(accepted) \in Nat /\ Len(r.events) \in Nat
          /\ Len(accepted \o r.events) = Len(accepted) + Len(r.events)
      BY <1>1, <3>2, BackCome
    <3> QED
      BY <1>5, <3>3
  <2>3. PICK a, b : a = Len(accepted) /\ b = Len(accepted') /\ a \in Nat /\ b \in Nat /\ a <= b
    <3>1. Len(accepted) \in Nat /\ accepted' \in Seq(Nat)
      <4>1. r.events \in Seq(Nat)
        <5>1. r \in Asks
          BY <1>1, <1>2, AskedLess
        <5> QED
          BY <5>1 DEF Asks
      <4> QED
        BY <1>1, <1>5, <4>1, BackCome, LenProperties
    <3> QED
      BY <2>2, <3>1, LenProperties
  <2>4. codex.turn <= codex.turns
    BY DEF BoundInv, TurnsKnown
  <2>5. /\ Told(<<Line("answer", w)>>, codex'.turns) /\ codex'.turns \in Nat
        /\ codex.turns <= codex'.turns /\ codex'.turn <= codex'.turns
        /\ codex'.turns <= Len(accepted')
    BY <1>1, <1>3, <1>5, <2>1, <2>3, <2>4
  <2> QED
    BY <1>1, <1>2, <1>5, <2>1, <2>5, CodexSays
<1>6. CASE Join(r)
  BY <1>5, <1>6 DEF Join, Take, Says
<1>7. CASE Misfit(r)
  <2>1. CASE Refuse("refused")
    BY <1>5, <2>1 DEF Refuse, Says
  <2>2. CASE Refuse("race")
    BY <1>5, <2>2 DEF Refuse, Says
  <2> QED
    BY <1>7, <2>1, <2>2 DEF Misfit
<1>8. CASE Stop(r)
  <2>1. PICK x, y, z : /\ x = Line("interrupted", "") /\ y = Line("turn", 0)
                       /\ z = Line("status", "idle")
    OBVIOUS
  <2>2. Fits(x, n) /\ Fits(y, n) /\ Fits(z, n)
    <3>1. 0 \in 0..n
      OBVIOUS
    <3> QED
      BY <2>1, <3>1, FitLines DEF Statuses
  <2>3. PICK lines : stdout' = stdout \o lines /\ lines \in {<<x, y, z>>, <<x>>}
    BY <1>8, <2>1 DEF Stop, Says
  <2>4. lines \in Seq(Lines) /\ Told(lines, codex.turns)
    BY <1>3, <2>2, <2>3, FitOne, FitThree
  <2>5. codex'.turns = codex.turns /\ codex'.turn = 0 /\ accepted' = accepted
    BY <1>1, <1>8 DEF Stop, Processes
  <2> QED
    BY <1>1, <1>2, <2>3, <2>4, <2>5, CodexTells
<1> QED
  BY <1>2, <1>4, <1>6, <1>7, <1>8


LEMMA CodexBounded == BoundInv /\ Codex => Bounded' /\ TurnsKnown'
<1> SUFFICES ASSUME BoundInv, Load \/ EndTurn \/ Stumble \/ Recover \/ Exit
             PROVE  Bounded' /\ TurnsKnown'
  BY HandleBounded DEF Codex
<1>1. /\ codex \in Processes /\ codex.turns \in Nat /\ stdout \in Seq(Lines)
      /\ troubles \in 0..MaxTroubles /\ 0 \in 0..codex.turns
  BY BoundFacts DEF BoundInv, Bounded
<1>2. OfCodex /\ stdin' = stdin /\ accepted' = accepted
  BY DEF Load, EndTurn, Stumble, Recover, Exit
<1>3. codex'.turns = codex.turns /\ codex'.turn \in {0, codex.turn}
  BY <1>1 DEF Load, EndTurn, Stumble, Recover, Exit, Processes
<1>4. troubles' \in 0..MaxTroubles
  <2>1. troubles' = troubles \/ (troubles < MaxTroubles /\ troubles' = troubles + 1)
    BY DEF Load, EndTurn, Stumble, Recover, Exit
  <2> QED
    BY <1>1, <2>1, BoundsAssumption
<1>5. ASSUME NEW lines, lines \in Seq(Lines) /\ Told(lines, codex.turns),
             stdout' = stdout \o lines
      PROVE  Bounded' /\ TurnsKnown'
  BY <1>2, <1>3, <1>4, <1>5, CodexTells
<1>6. \A x : Fits(x, codex.turns) => <<x>> \in Seq(Lines) /\ Told(<<x>>, codex.turns)
  BY FitOne
<1>7. \A x, y : Fits(x, codex.turns) /\ Fits(y, codex.turns)
                  => <<x, y>> \in Seq(Lines) /\ Told(<<x, y>>, codex.turns)
  BY FitTwo
<1>8. /\ \A s \in Statuses : /\ Fits(Line("status", s), codex.turns)
                             /\ Fits(Line("loaded", s), codex.turns)
      /\ Fits(Line("turn", 0), codex.turns)
  BY <1>1, FitLines
<1>9. ASSUME NEW s \in Statuses, SaysBoth(Line("turn", 0), Line("status", s))
      PROVE  Bounded' /\ TurnsKnown'
  <2>1. Fits(Line("turn", 0), codex.turns) /\ Fits(Line("status", s), codex.turns)
    BY <1>8
  <2>2. PICK lines : /\ lines \in {<<Line("turn", 0), Line("status", s)>>,
                                   <<Line("status", s), Line("turn", 0)>>}
                     /\ stdout' = stdout \o lines
    BY <1>9 DEF SaysBoth, Says
  <2> QED
    BY <1>5, <1>7, <2>1, <2>2
<1>10. ASSUME NEW l, Fits(l, codex.turns), stdout' = stdout \o <<l>>
       PROVE  Bounded' /\ TurnsKnown'
  BY <1>5, <1>6, <1>10
<1>11. CASE Load
  <2>1. PICK s \in Statuses : stdout' = stdout \o <<Line("loaded", s)>>
    BY <1>11 DEF Load, Says, Statuses
  <2> QED
    BY <1>8, <1>10, <2>1
<1>12. CASE EndTurn
  BY <1>9, <1>12 DEF EndTurn, Statuses
<1>13. CASE Stumble
  <2>1. PICK s \in Statuses : \/ stdout' = stdout \o <<Line("status", s)>>
                              \/ SaysBoth(Line("turn", 0), Line("status", s))
    BY <1>13 DEF Stumble, Says, Statuses
  <2> QED
    BY <1>8, <1>9, <1>10, <2>1
<1>14. CASE Recover
  <2>1. "idle" \in Statuses /\ stdout' = stdout \o <<Line("status", "idle")>>
    BY <1>14 DEF Recover, Says, Statuses
  <2> QED
    BY <1>8, <1>10, <2>1
<1>15. CASE Exit
  <2>1. PICK lines : lines = <<>> /\ lines \in Seq(Lines) /\ Len(lines) = 0
    BY EmptySeq
  <2>2. stdout' = stdout \o lines
    BY <1>1, <1>15, <2>1 DEF Exit
  <2>3. Told(lines, codex.turns)
    BY <2>1 DEF Told
  <2> QED
    BY <1>5, <2>1, <2>2, <2>3
<1> QED
  BY <1>11, <1>12, <1>13, <1>14, <1>15

LEMMA BoundInvariant == Spec => []BoundInv
<1>1. Init => BoundInv
  <2> SUFFICES ASSUME Init PROVE BoundInv
    OBVIOUS
  <2>1. CodexInv
    <3>1. HushInv
      BY EmptySeq DEF Init, HushInv
    <3> QED
      BY <3>1, PipeInit, StatusInit DEF CodexInv
  <2>2. Bounded
    <3>1. /\ received = 0 /\ troubles = 0 /\ dropped = {}
          /\ timer = FALSE /\ waiting = FALSE
      BY DEF Init
    <3>2. received <= MaxEvents /\ troubles \in 0..MaxTroubles
      BY <3>1, BoundsAssumption
    <3> QED
      BY <3>1, <3>2 DEF Bounded
  <2>3. Len(<<>>) = 0 /\ Asked(<<>>, 0) /\ Told(<<>>, 0)
    BY EmptySeq DEF Asked, Told
  <2>4. TurnsKnown
    <3>1. /\ codex.turns = 0 /\ codex.turn = 0 /\ seen.turn = 0 /\ flight = NoFlight
          /\ stdin = <<>> /\ stdout = <<>> /\ accepted = <<>>
      BY DEF Init
    <3> QED
      BY <2>3, <3>1, NoFlightSent DEF TurnsKnown
  <2> QED
    BY <2>1, <2>2, <2>4 DEF BoundInv
<1>2. BoundInv /\ [Next]_vars => BoundInv'
  <2>1. BoundInv /\ [Next]_vars => CodexInv'
    BY StepKeeps DEF BoundInv
  <2>2. BoundInv /\ [Next]_vars => Bounded' /\ TurnsKnown'
    <3>1. BoundInv /\ UNCHANGED vars => Bounded' /\ TurnsKnown'
      BY DEF BoundInv, Bounded, TurnsKnown, vars, sink, Asked, Told, Sent
    <3> QED
      BY <3>1, ReadBounded, FlushingBounded, RunnerBounded, CodexBounded DEF Next
  <2> QED
    BY <2>1, <2>2 DEF BoundInv
<1> QED
  BY <1>1, <1>2, PTL DEF Spec

\* No sequence outgrows the stream, an event taken is one that was received, and a
\* turn that anybody speaks of is one that codex began (channel-sink.ts, adapter.ts).
THEOREM CodexTypeCorrect == Spec => []TypeOK
<1>1. BoundInv => TypeOK
  <2> SUFFICES ASSUME BoundInv PROVE TypeOK
    OBVIOUS
  <2>1. /\ SinkType /\ Held /\ InFlightRight /\ Bounded /\ TurnsKnown
        /\ received \in Nat /\ received <= MaxEvents /\ before \in Nat /\ before <= received
        /\ codex.turns \in Nat
    BY DEF BoundInv, CodexInv, PipeInv, SinkType, Held, Bounded, Processes
  <2>2. codex.turns <= MaxEvents
    <3>1. Members(accepted) \subseteq 1..received /\ Increasing(accepted) /\ accepted \in Seq(Nat)
      BY <2>1 DEF Held, SinkType
    <3>2. Len(accepted) \in Nat /\ Len(accepted) <= received
      BY <2>1, <3>1, FewEvents
    <3> QED
      BY <2>1, <3>2, BoundsAssumption DEF TurnsKnown
  <2>3. \A t \in Nat : t <= codex.turns => t \in Turns
    BY <2>1, <2>2, BoundsAssumption DEF Turns
  <2>4. \A e \in 1..received : e \in Events
    BY <2>1, BoundsAssumption DEF Events
  <2>5. \A q \in Seq(Nat) : Members(q) \subseteq 1..received => q \in Seq(Events)
    <3> SUFFICES ASSUME NEW q \in Seq(Nat), Members(q) \subseteq 1..received
                 PROVE  q \in Seq(Events)
      OBVIOUS
    <3>1. q \in [1..Len(q) -> Nat] /\ Len(q) \in Nat
      BY LenProperties
    <3>2. \A i \in 1..Len(q) : q[i] \in Events
      BY <2>4, <3>1 DEF Members
    <3> QED
      BY <3>1, <3>2, SeqDef
  <2>6. {pendingArgs, buffer, accepted} \subseteq Seq(Events)
    BY <2>1, <2>5 DEF SinkType, Held
  <2>7. flight \in Flights
    <3>1. flight.turn \in Turns /\ flight.events \in Seq(Events)
      BY <2>1, <2>3, <2>5 DEF SinkType, InFlightRight, TurnsKnown, Sent
    <3> QED
      BY <2>1, <3>1 DEF SinkType, Flights
  <2>8. stdin \in Seq(Requests)
    <3>1. stdin \in Seq(Asks) /\ InputsRight /\ Asked(stdin, codex.turns)
      BY <2>1 DEF SinkType, Asks, BoundInv, CodexInv, PipeInv, TurnsKnown
    <3>2. stdin \in [1..Len(stdin) -> Asks] /\ Len(stdin) \in Nat
      BY <3>1, LenProperties
    <3>3. ASSUME NEW i \in 1..Len(stdin) PROVE stdin[i] \in Requests
      <4>1. PICK r \in Asks : r = stdin[i]
        BY <3>2
      <4>2. r.turn \in Turns
        BY <2>3, <3>1, <4>1 DEF Asked, Asks
      <4>3. Members(r.events) \subseteq 1..received
        <5>1. CASE r.kind = "interrupt"
          BY <3>1, <4>1, <5>1, NoEvents DEF Asked
        <5>2. CASE r.kind # "interrupt"
          BY <3>1, <4>1, <5>2 DEF InputsRight, InputRight
        <5> QED
          BY <5>1, <5>2
      <4>4. r.events \in Seq(Events)
        BY <2>5, <4>3 DEF Asks
      <4> QED
        BY <4>1, <4>2, <4>4 DEF Asks, Requests
    <3> QED
      BY <3>2, <3>3, SeqDef
  <2>9. codex \in [alive : BOOLEAN, status : Statuses \cup {"starting"}, turn : Turns, turns : Turns]
    <3>1. codex \in Processes /\ codex.turn <= codex.turns
      BY <2>1 DEF SinkType, Processes, TurnsKnown
    <3>2. codex.turn \in Turns /\ codex.turns \in Turns
      BY <2>1, <2>3, <3>1 DEF Processes
    <3> QED
      BY <3>1, <3>2 DEF Processes
  <2>10. seen \in [thread : BOOLEAN, status : Statuses, turn : Turns]
    <3>1. seen \in Seen /\ seen.turn <= codex.turns
      BY <2>1 DEF SinkType, Seen, TurnsKnown
    <3>2. seen.turn \in Turns
      BY <2>3, <3>1 DEF Seen
    <3> QED
      BY <3>1, <3>2 DEF Seen
  <2>11. dropped \subseteq Events /\ received \in 0..MaxEvents /\ before \in 0..MaxEvents
    BY <2>1, <2>4, BoundsAssumption DEF Bounded
  <2>12. {timer, waiting, open} \subseteq BOOLEAN
    BY <2>1 DEF Bounded, SinkType
  <2>13. stop \in Stages /\ troubles \in 0..MaxTroubles
    BY <2>1 DEF Bounded, SinkType
  <2> QED
    BY <2>6, <2>7, <2>8, <2>9, <2>10, <2>11, <2>12, <2>13 DEF TypeOK
<1> QED
  BY <1>1, BoundInvariant, PTL
=============================================================================
