----------------------------- MODULE Transcript -----------------------------
(***************************************************************************)
(* The transcript of one viewer: the event log of the broker               *)
(* (core/src/broker.ts, apps/server/src/sqlite-event-log.ts), the live     *)
(* socket and its backfill (web-shell/src/lib/live.ts), the message store  *)
(* (messages.ts) and the paging of a thread (thread-history.ts).           *)
(*                                                                         *)
(* A message is its position in the log.  The log has the rows that his    *)
(* unfiltered history query can return: those sent to him or by him, and   *)
(* every row sent to no one by name, be it of a channel he is not in or of *)
(* an objective he takes no part in.  Those are stored when they are       *)
(* fetched, but no frame of them comes: whether a message is addressed to  *)
(* the viewer is drawn at its push, so that he may join and leave.  A push *)
(* appends and fans out in one step: nothing it awaits lets another        *)
(* request in.  A frame is lost with its socket only.  A request for       *)
(* history is asked, served with what the log holds at that moment, and    *)
(* answered later, or it fails or is refused at any moment; answers come   *)
(* in any order.                                                           *)
(***************************************************************************)
EXTENDS Integers, Sequences, FiniteSets

CONSTANTS
  Threads,
  Shared,        \* those with messages for others only: named channels and objectives
  Paged,         \* those with a history of their own: all but objectives and the self-DM
  BootLimit,     \* messages asked for when the page is loaded
  BackfillLimit, \* historyLimit: messages asked for on each connection
  PageSize,      \* messages of one page of a thread
  MaxMessages,   \* bound: messages pushed
  MaxTs,         \* bound: the clock; messages may share a time
  MaxBreaks,     \* bound: sockets that close
  MaxFails       \* bound: requests for history that fail

ASSUME ThreadsAssumption == Paged \subseteq Threads /\ Shared \subseteq Threads
ASSUME LimitsAssumption == {BootLimit, BackfillLimit, PageSize} \subseteq Nat \ {0}
ASSUME BoundAssumption == {MaxMessages, MaxTs, MaxBreaks, MaxFails} \subseteq Nat

VARIABLES
  log,        \* table events
  link,       \* the socket: down, served (subscribed at the broker), or open
  wire,       \* frames sent to the socket and not received
  fetches,    \* requests for history under way
  store,      \* messagesByThread
  paging,     \* threadHistory
  backfillError, \* streamBackfillError # null
  booted,     \* the page's own request is answered: startSubscribe has been called
  beyond,     \* history: messages a request should have brought and did not
  failed,     \* history: the connection of the last backfill that failed
  breaks, fails

transcriptVars == <<log, link, wire, fetches, store, paging, backfillError, booted, beyond,
                    failed, breaks, fails>>

Posted == 1..Len(log)
Ts(m) == log[m].ts
Of(t) == {m \in Posted : log[m].thread = t}
Mine == {m \in Posted : log[m].mine}  \* the viewer is among the recipients
Held(t) == {store[t][i] : i \in 1..Len(store[t])}
AllHeld == UNION {Held(t) : t \in Threads}

Never == MaxTs + 1  \* no `before`: later than every message
Asked == {0}        \* a request that is not served: no page has this message

Paging == [loading : BOOLEAN, exhausted : BOOLEAN, hydrated : BOOLEAN]

TranscriptTypeOK ==
  /\ log \in Seq([ts : 1..MaxTs, thread : Threads, mine : BOOLEAN]) /\ Len(log) <= MaxMessages
  /\ link \in {"down", "served", "open"}
  /\ wire \in Seq(Posted)
  /\ \A f \in fetches : f.page = Asked \/ f.page \subseteq Posted
  /\ \A t \in Threads : Held(t) \subseteq Of(t)
  /\ paging \in [Threads -> Paging]
  /\ {backfillError, booted} \subseteq BOOLEAN
  /\ beyond \subseteq Posted
  /\ breaks \in 0..MaxBreaks /\ failed \in 0..MaxBreaks + 1 /\ fails \in 0..MaxFails

Boot == [kind |-> "boot", connection |-> 0, page |-> Asked]
Backfill == [kind |-> "backfill", connection |-> breaks + 1, page |-> Asked]
Page(t, before, first) ==
  [kind |-> "page", thread |-> t, before |-> before, first |-> first, page |-> Asked]

TranscriptInit ==
  /\ log = <<>>
  /\ link = "down" /\ wire = <<>>
  /\ fetches = {Boot}
  /\ store = [t \in Threads |-> <<>>]
  /\ paging = [t \in Threads |-> [loading |-> FALSE, exhausted |-> FALSE, hydrated |-> FALSE]]
  /\ backfillError = FALSE /\ booted = FALSE
  /\ beyond = {} /\ failed = 0
  /\ breaks = 0 /\ fails = 0
-----------------------------------------------------------------------------
\* Array.prototype.sort by ts: stable.
Sorted(q) ==
  LET Earlier(i, j) == Ts(q[i]) < Ts(q[j]) \/ (Ts(q[i]) = Ts(q[j]) /\ i < j)
      Rank(i) == Cardinality({j \in 1..Len(q) : Earlier(j, i)}) + 1
  IN [r \in 1..Len(q) |-> q[CHOOSE i \in 1..Len(q) : Rank(i) = r]]

\* An answer lists the latest message first.
NewestFirst(S) ==
  [i \in 1..Cardinality(S) |-> CHOOSE m \in S : Cardinality({k \in S : k > m}) = i - 1]

Fresh(t, S) == Sorted(NewestFirst((S \cap Of(t)) \ Held(t)))

\* Mutant: the fast path compares with the head of the thread.
AfterTheHead(q, fresh) == q = <<>> \/ Ts(fresh[1]) >= Ts(q[1])
AfterTheTail(q, fresh) == q = <<>> \/ Ts(fresh[1]) >= Ts(q[Len(q)])

\* appendMessages, one thread.
Appended(t, S) ==
  LET q == store[t]
      fresh == Fresh(t, S) IN
  IF fresh = <<>> THEN q
  ELSE IF AfterTheTail(q, fresh) THEN q \o fresh ELSE Sorted(q \o fresh)

\* prependMessages, one thread.
Prepended(t, S) ==
  LET q == store[t]
      fresh == Fresh(t, S) IN
  IF fresh = <<>> THEN q
  ELSE IF q = <<>> \/ Ts(fresh[Len(fresh)]) <= Ts(q[1]) THEN fresh \o q
  ELSE Sorted(fresh \o q)

\* ORDER BY ts DESC LIMIT n, of some messages.
Latest(S, n) == {m \in S : Cardinality({k \in S : k > m}) < n}
-----------------------------------------------------------------------------
\* broker.push: append, and a frame to the subscriber if it is for the viewer.
Push(t) ==
  /\ Len(log) < MaxMessages
  /\ \E ts \in 1..MaxTs, mine \in (IF t \in Shared THEN BOOLEAN ELSE {TRUE}) :
       /\ log # <<>> => ts >= Ts(Len(log))
       /\ log' = Append(log, [ts |-> ts, thread |-> t, mine |-> mine])
       /\ wire' = IF mine /\ link # "down" THEN Append(wire, Len(log) + 1) ELSE wire
  /\ UNCHANGED <<link, fetches, store, paging, backfillError, booted, beyond, failed, breaks,
                 fails>>

\* The upgrade of /subscribe: the broker knows the subscriber from here on.
Serve ==
  /\ booted /\ link = "down"
  /\ link' = "served"
  /\ UNCHANGED <<log, wire, fetches, store, paging, backfillError, booted, beyond, failed, breaks,
                 fails>>

\* Mutant of Opened: only the first connection asks for what it may have missed.
OpenedOnce == IF breaks = 0 THEN {Backfill} ELSE {}
Opened == {Backfill}

\* The open event.
Open ==
  /\ link = "served"
  /\ link' = "open"
  /\ fetches' = fetches \cup Opened
  /\ UNCHANGED <<log, wire, store, paging, backfillError, booted, beyond, failed, breaks, fails>>

\* A frame arrives.
Receive ==
  /\ link = "open" /\ wire # <<>>
  /\ wire' = Tail(wire)
  /\ store' = [t \in Threads |-> Appended(t, {Head(wire)})]
  /\ UNCHANGED <<log, link, fetches, paging, backfillError, booted, beyond, failed, breaks, fails>>

\* The socket closes, and its frames are gone.  Serve is the next attempt.
Break ==
  /\ link # "down"
  /\ breaks < MaxBreaks /\ breaks' = breaks + 1
  /\ link' = "down" /\ wire' = <<>>
  /\ UNCHANGED <<log, fetches, store, paging, backfillError, booted, beyond, failed, fails>>
-----------------------------------------------------------------------------
\* hydrateThread, on every visit of a thread.
Hydrate(t) ==
  /\ ~paging[t].hydrated /\ ~paging[t].loading
  /\ \/ /\ t \in Paged
        /\ fetches' = fetches \cup {Page(t, Never, TRUE)}
        /\ paging' = [paging EXCEPT ![t].loading = TRUE]
     \/ /\ t \notin Paged
        /\ paging' = [paging EXCEPT ![t].hydrated = TRUE, ![t].exhausted = TRUE]
        /\ UNCHANGED fetches
  /\ UNCHANGED <<log, link, wire, store, backfillError, booted, beyond, failed, breaks, fails>>

\* loadOlderThreadMessages.
LoadOlder(t) ==
  /\ t \in Paged /\ ~paging[t].exhausted /\ ~paging[t].loading
  /\ fetches' = fetches \cup
       {Page(t, IF store[t] = <<>> THEN Never ELSE Ts(store[t][1]), FALSE)}
  /\ paging' = [paging EXCEPT ![t].loading = TRUE]
  /\ UNCHANGED <<log, link, wire, store, backfillError, booted, beyond, failed, breaks, fails>>

\* GET /history.  The feed of boot and backfill is not limited to what is for the
\* viewer; nor is a page of a channel, once he may read it.
Window(f) ==
  CASE f.kind = "boot"     -> Latest(Posted, BootLimit)
    [] f.kind = "backfill" -> Latest(Posted, BackfillLimit)
    [] f.kind = "page"     -> Latest({m \in Of(f.thread) : Ts(m) < f.before}, PageSize)

\* What the viewer holds of a thread, or will once the answers under way arrive.
Known(t) == Held(t) \cup (Of(t) \cap UNION {f.page : f \in fetches})

\* No older page of the thread will be asked for.
Ends(t) ==
  \/ paging[t].exhausted
  \/ \E f \in fetches :
       f.kind = "page" /\ f.thread = t /\ f.page # Asked /\ Cardinality(f.page) < PageSize

\* Of some messages, those that no page will bring.
OutOfReach(S) ==
  {m \in S \ AllHeld : LET t == log[m].thread IN
     Ends(t) \/ \E k \in Known(t) : Ts(k) <= Ts(m)}

\* What a served request leaves out for good: a backfill the gap before its
\* window, a page the messages that share the time it ends at.
LeftOut(f) ==
  CASE f.kind = "boot"     -> {}
    [] f.kind = "backfill" -> OutOfReach(Posted \ Latest(Posted, BackfillLimit))
    [] f.kind = "page"     -> {m \in Of(f.thread) : Ts(m) = f.before} \ AllHeld

Answer(f) ==
  /\ f.page = Asked
  /\ fetches' = (fetches \ {f}) \cup {[f EXCEPT !.page = Window(f)]}
  /\ beyond' = beyond \cup LeftOut(f)
  /\ UNCHANGED <<log, link, wire, store, paging, backfillError, booted, failed, breaks, fails>>

\* The answer to the page's first request; then the live stream is started.
BootArrives(f) ==
  /\ f.kind = "boot"
  /\ store' = [t \in Threads |-> Appended(t, f.page)]
  /\ booted' = TRUE
  /\ UNCHANGED <<paging, backfillError, beyond>>

\* An earlier connection's answer clears the error of a later one.
BackfillArrives(f) ==
  /\ f.kind = "backfill"
  /\ store' = [t \in Threads |-> Appended(t, f.page)]
  /\ backfillError' = FALSE
  /\ beyond' = IF f.connection < failed
       THEN beyond \cup OutOfReach(Posted) \cup (Latest(Posted, BackfillLimit) \ AllHeld)
       ELSE beyond
  /\ UNCHANGED <<paging, booted>>

PageArrives(f) ==
  /\ f.kind = "page"
  /\ store' = [t \in Threads |-> Prepended(t, f.page)]
  /\ paging' = [paging EXCEPT ![f.thread] =
       [loading |-> FALSE, exhausted |-> Cardinality(f.page) < PageSize,
        hydrated |-> @.hydrated \/ f.first]]
  /\ UNCHANGED <<backfillError, booted, beyond>>

Arrive(f) ==
  /\ f.page # Asked
  /\ BootArrives(f) \/ BackfillArrives(f) \/ PageArrives(f)
  /\ fetches' = fetches \ {f}
  /\ UNCHANGED <<log, link, wire, failed, breaks, fails>>

\* Boot goes on without its history; a thread can be asked for again.
Fail(f) ==
  /\ fails < MaxFails /\ fails' = fails + 1
  /\ fetches' = fetches \ {f}
  /\ booted' = (booted \/ f.kind = "boot")
  /\ backfillError' = (backfillError \/ f.kind = "backfill")
  /\ failed' = IF f.kind = "backfill" /\ f.connection > failed THEN f.connection ELSE failed
  /\ paging' = IF f.kind = "page" THEN [paging EXCEPT ![f.thread].loading = FALSE] ELSE paging
  /\ UNCHANGED <<log, link, wire, store, beyond, breaks>>

TranscriptNext ==
  \/ \E t \in Threads : Push(t) \/ Hydrate(t) \/ LoadOlder(t)
  \/ Serve \/ Open \/ Receive \/ Break
  \/ \E f \in fetches : Answer(f) \/ Arrive(f) \/ Fail(f)

TranscriptSpec == TranscriptInit /\ [][TranscriptNext]_transcriptVars
-----------------------------------------------------------------------------
\* Every thread is in the order of time and holds a message once, whatever came
\* live, by backfill or by page, and in whatever order the answers came.
StoreSorted ==
  \A t \in Threads : \A i, j \in 1..Len(store[t]) :
    i < j => Ts(store[t][i]) <= Ts(store[t][j]) /\ store[t][i] # store[t][j]

AtRest ==
  /\ link = "open" /\ wire = <<>>
  /\ \A f \in fetches : f.kind # "backfill"

(***************************************************************************)
(* Connected, and with no error shown, the viewer misses nothing that was  *)
(* for him: what is not held came before the last messages and is older    *)
(* than all the thread holds, and where the thread has a history it can    *)
(* still be paged in.  Or more messages passed than a backfill holds, the  *)
(* ones for others counted; or one shared its time with the end of a page; *)
(* or an old answer cleared a newer error.                                 *)
(***************************************************************************)
NothingMissing ==
  AtRest /\ ~backfillError =>
    \A t \in Threads : \A m \in (Of(t) \cap Mine) \ (Held(t) \cup beyond) :
      /\ m \notin Latest(Posted, BackfillLimit)
      /\ t \in Paged => ~paging[t].exhausted
      /\ \A k \in Held(t) : Ts(m) <= Ts(k)
=============================================================================
