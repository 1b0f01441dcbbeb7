------------------------- MODULE ObjectivesTracker --------------------------
(***************************************************************************)
(* The runner's copy of one member's open objectives                       *)
(* (packages/cli/src/runtime: objectives-tracker.ts, the forwarder loop of *)
(* forwarder.ts and the onRefresh callback of runner.ts), against what the *)
(* broker lists for that member.                                           *)
(*                                                                         *)
(* The copy starts from the briefing, which holds the assigned objectives. *)
(* An objective event only says "look again": the tracker debounces, then  *)
(* asks for its assigned objectives with two requests, one per open        *)
(* status, which the broker answers at two different moments.  A member    *)
(* who may create objectives gets what was asked for; any other gets what  *)
(* he is assigned, originated or watches.  An event published while the    *)
(* subscription is down is never sent again, and some are never published. *)
(***************************************************************************)
EXTENDS Integers, Sequences, FiniteSets

CONSTANTS
  Ids,          \* objectives
  MaxChanges,   \* bound: changes of objectives and of the member's permissions
  MaxTroubles   \* bound: broken connections and failed fetches

ASSUME TrackerAssumption == {MaxChanges, MaxTroubles} \subseteq Nat /\ IsFiniteSet(Ids)

VARIABLES
  status,      \* broker: id -> its status, or "none" before it is created
  tie,         \* broker: id -> what this member is to it
  creates,     \* broker: the member has objectives.create
  changes,     \* broker: changes so far
  connected,   \* the forwarder's subscription is up
  stream,      \* objective events sent on it and not yet received
  timer,       \* pending # null: the debounce timer runs
  inflight,    \* a fetch is under way
  answers,     \* status -> ids listed, for the requests answered so far
  open,        \* openObjectives of the runner
  markers,     \* objective_open and objective_close events, oldest first
  troubles,    \* broken connections and failed fetches so far
  stale        \* history: why open may be out of date

brokerVars == <<status, tie, creates, changes>>
trackerVars == <<status, tie, creates, changes, connected, stream, timer, inflight,
                 answers, open, markers, troubles, stale>>

OpenStatuses == {"active", "blocked"}
Statuses == {"none", "done"} \cup OpenStatuses   \* done: completed or cancelled
Ties == {"assigned", "follows", "none"}   \* follows: originated or watched, not assigned

\* Why the copy may differ from the listing: it is the briefing's, an event was
\* lost on the way or never published, the member's permissions changed, a fetch
\* failed, or a refresh was dropped.
Causes == {"briefed", "lost", "unannounced", "regranted", "failed", "skipped"}

\* The ids the broker answers with: the assignee filter holds only for a member
\* who may create objectives.
Scope == IF creates THEN {"assigned"} ELSE {"assigned", "follows"}
Listed(s) == {o \in Ids : status[o] = s /\ tie[o] \in Scope}
Visible == UNION {Listed(s) : s \in OpenStatuses}
Briefed == {o \in Ids : status[o] \in OpenStatuses /\ tie[o] = "assigned"}
NoAnswers == [s \in {} |-> {}]
Unanswered == OpenStatuses \ DOMAIN answers

Marker(kind, id) == [kind |-> kind, id |-> id]

TrackerTypeOK ==
  /\ status \in [Ids -> Statuses] /\ tie \in [Ids -> Ties] /\ creates \in BOOLEAN
  /\ changes \in 0..MaxChanges
  /\ connected \in BOOLEAN /\ timer \in BOOLEAN /\ inflight \in BOOLEAN
  /\ stream \in Nat
  /\ stream > 0 => connected
  /\ DOMAIN answers \subseteq IF inflight THEN OpenStatuses ELSE {}
  /\ \A s \in DOMAIN answers : answers[s] \subseteq Ids
  /\ open \subseteq Ids
  /\ markers \in Seq([kind : {"open", "close"}, id : Ids])
  /\ troubles \in 0..MaxTroubles
  /\ stale \subseteq Causes

Listing(kind, f) == [i \in DOMAIN f |-> Marker(kind, f[i])]
Orders(S) == {f \in [1..Cardinality(S) -> S] : \A i, j \in DOMAIN f : i # j => f[i] # f[j]}

\* The runner starts from the briefing and marks what is open; the forwarder
\* subscribes later.
TrackerInit ==
  /\ status \in [Ids -> Statuses \ {"done"}]
  /\ tie \in [Ids -> Ties]
  /\ \A o \in Ids : status[o] = "none" => tie[o] = "none"
  /\ creates \in BOOLEAN
  /\ changes = 0
  /\ connected = FALSE
  /\ stream = 0
  /\ timer = FALSE
  /\ inflight = FALSE
  /\ answers = NoAnswers
  /\ open = Briefed
  /\ \E f \in Orders(open) : markers = Listing("open", f)
  /\ troubles = 0
  /\ stale = IF Briefed = Visible THEN {} ELSE {"briefed"}

-----------------------------------------------------------------------------
(* The broker. *)

\* What one handler does to an objective: create it, change its status, reassign
\* it or edit its watchers.  Only the last is left once it is done.
Lawful(o, s, t) ==
  \/ status[o] = "none" /\ s = "active"
  \/ /\ status[o] \in OpenStatuses
     /\ \/ s \in Statuses \ {"none"} /\ t = tie[o]
        \/ s = status[o]
  \/ /\ status[o] = "done" /\ s = "done"
     /\ t = tie[o] \/ "assigned" \notin {t, tie[o]}

\* A change the runner does not hear of is a cause when it changes a listing.
Unheard(cause) ==
  /\ UNCHANGED stream
  /\ stale' = IF \A s \in OpenStatuses : Listed(s)' = Listed(s)
              THEN stale ELSE stale \cup {cause}

\* A handler of the objectives service changes an objective and announces it to
\* everyone tied to it before or after, and to the admins; nobody is told when
\* the push fails or when mirroring the attachments of a new objective throws.
Change(o, s, t) ==
  /\ changes < MaxChanges
  /\ Lawful(o, s, t)
  /\ status' = [status EXCEPT ![o] = s]
  /\ tie' = [tie EXCEPT ![o] = t]
  /\ changes' = changes + 1
  /\ UNCHANGED <<creates, connected, timer, inflight, answers, open, markers, troubles>>
  /\ \/ connected /\ stream' = stream + 1 /\ UNCHANGED stale
     \/ Unheard(IF connected THEN "unannounced" ELSE "lost")

\* The member gains or loses objectives.create: no objective event says so.
Regrant ==
  /\ changes < MaxChanges
  /\ creates' = ~creates
  /\ changes' = changes + 1
  /\ UNCHANGED <<status, tie, connected, timer, inflight, answers, open, markers, troubles>>
  /\ Unheard("regranted")

\* GET /objectives?assignee=self&status=s: a snapshot of that status alone.
Answer(s) ==
  /\ inflight
  /\ s \in Unanswered
  /\ answers' = [t \in DOMAIN answers \cup {s} |-> IF t = s THEN Listed(s) ELSE answers[t]]
  /\ UNCHANGED <<brokerVars, connected, stream, timer, inflight, open, markers,
                 troubles, stale>>

-----------------------------------------------------------------------------
(* The forwarder. *)

Subscribe ==
  /\ ~connected
  /\ connected' = TRUE
  /\ UNCHANGED <<brokerVars, stream, timer, inflight, answers, open, markers,
                 troubles, stale>>

\* The stream ends or throws; what it still held is gone, and the loop
\* reconnects without a refresh.
Disconnect ==
  /\ connected
  /\ troubles < MaxTroubles
  /\ troubles' = troubles + 1
  /\ connected' = FALSE
  /\ stream' = 0
  /\ stale' = IF stream > 0 THEN stale \cup {"lost"} ELSE stale
  /\ UNCHANGED <<brokerVars, timer, inflight, answers, open, markers>>

ReceiveUnlessFetching ==                                               \* mutant
  /\ stream > 0
  /\ stream' = stream - 1
  /\ timer' = (timer \/ ~inflight)
  /\ UNCHANGED <<brokerVars, connected, inflight, answers, open, markers, troubles,
                 stale>>

\* refresh(message): (re)start the debounce timer.
Receive ==
  /\ stream > 0
  /\ stream' = stream - 1
  /\ timer' = TRUE
  /\ UNCHANGED <<brokerVars, connected, inflight, answers, open, markers, troubles,
                 stale>>

-----------------------------------------------------------------------------
(* The tracker. *)

FireAgainAndAgain ==                                                   \* mutant
  /\ timer
  /\ IF inflight
     THEN stale' = stale \cup {"skipped"} /\ UNCHANGED <<inflight, answers>>
     ELSE stale' = {} /\ inflight' = TRUE /\ answers' = NoAnswers
  /\ UNCHANGED <<brokerVars, connected, stream, timer, open, markers, troubles>>

\* The timer fires: doRefresh() returns at once when a fetch is under way.
Fire ==
  /\ timer
  /\ timer' = FALSE
  /\ IF inflight
     THEN stale' = stale \cup {"skipped"} /\ UNCHANGED <<inflight, answers>>
     ELSE stale' = {} /\ inflight' = TRUE /\ answers' = NoAnswers
  /\ UNCHANGED <<brokerVars, connected, stream, open, markers, troubles>>

MarkEachListing(next) ==                                               \* mutant
  {Listing("open", f) \o Listing("open", g) \o Listing("close", h) :
     f \in Orders(answers["active"] \ open), g \in Orders(answers["blocked"] \ open),
     h \in Orders(open \ next)}

\* onRefresh(next): one marker for every id that came or went.
Marks(next) ==
  {Listing("open", fg[1]) \o Listing("close", fg[2]) :
     fg \in Orders(next \ open) \X Orders(open \ next)}

\* Promise.all resolves: the copy is both lists together.
Finish ==
  /\ inflight
  /\ Unanswered = {}
  /\ LET next == answers["active"] \cup answers["blocked"]
     IN /\ open' = next
        /\ \E new \in Marks(next) : markers' = markers \o new
  /\ inflight' = FALSE
  /\ answers' = NoAnswers
  /\ UNCHANGED <<brokerVars, connected, stream, timer, troubles, stale>>

\* One of the two requests fails: logged, nothing replaced, no retry.
Fail ==
  /\ inflight
  /\ Unanswered # {}
  /\ troubles < MaxTroubles
  /\ troubles' = troubles + 1
  /\ inflight' = FALSE
  /\ answers' = NoAnswers
  /\ stale' = stale \cup {"failed"}
  /\ UNCHANGED <<brokerVars, connected, stream, timer, open, markers>>

TrackerNext ==
  \/ \E o \in Ids, s \in Statuses, t \in Ties : Change(o, s, t)
  \/ Regrant
  \/ \E s \in OpenStatuses : Answer(s)
  \/ Subscribe \/ Disconnect \/ Receive
  \/ Fire \/ Finish \/ Fail

\* The runner's event loop and the broker go on; nothing makes an
\* objective change, and the network need not fail.
TrackerFairness ==
  /\ WF_trackerVars(Subscribe) /\ WF_trackerVars(Receive)
  /\ WF_trackerVars(Fire) /\ WF_trackerVars(Finish)
  /\ \A s \in OpenStatuses : WF_trackerVars(Answer(s))

TrackerSpec == TrackerInit /\ [][TrackerNext]_trackerVars /\ TrackerFairness

-----------------------------------------------------------------------------
Quiet == stream = 0 /\ ~timer /\ ~inflight

\* When nothing is on its way, the copy equals what the broker lists for the
\* member, unless it is still the briefing's or, after the last fetch began, an
\* event was lost or never published, his permissions changed, a fetch failed or
\* a refresh was dropped.  Two answers taken at different moments never leave a
\* wrong copy by themselves (objectives-tracker.ts:47-64, app.ts:1171-1204).
QuietCopyIsRight == Quiet /\ stale = {} => open = Visible

\* The last marker of an objective among the first n opens it.
OpenAfter(o, n) ==
  \E i \in 1..n : markers[i] = Marker("open", o) /\ \A j \in i+1..n : markers[j].id # o

\* The activity stream brackets every objective: its markers alternate, open
\* first, and the last one says whether it is in the copy, although an id can
\* be in both lists or in neither (runner.ts:315-340).
MarkersBracket ==
  /\ \A i \in DOMAIN markers :
       markers[i].kind = "open" <=> ~OpenAfter(markers[i].id, i - 1)
  /\ \A o \in Ids : o \in open <=> OpenAfter(o, Len(markers))

(* Liveness: once the objectives stop changing the runner comes to rest with *)
(* the copy the broker lists, or with a known reason for another one.        *)
ComesToRest == <>[](Quiet /\ (stale = {} => open = Visible))

=============================================================================
