----------------------------- MODULE Objectives -----------------------------
(***************************************************************************)
(* The objectives service of the broker: the SQLite store                  *)
(* (apps/server/src/objectives.ts) together with the HTTP handlers that    *)
(* drive it (apps/server/src/app.ts, 1064-1611).                           *)
(*                                                                         *)
(* Node runs one callback at a time and every store call is synchronous,   *)
(* so a handler is atomic between two awaits.  The only await in front of  *)
(* a mutation is the one that reads the request body.  What a handler      *)
(* reads before it and uses after it makes it two actions here             *)
(* (BeginX, then the store call); a handler whose earlier reads cannot     *)
(* change (the originator, a permission) is one action.                    *)
(*                                                                         *)
(* A mutation commits the row and its audit events in one transaction and  *)
(* leaves the channel pushes to a microtask: they wait in outbox, which a  *)
(* crash of the process loses.                                             *)
(***************************************************************************)
EXTENDS Integers, FiniteSets, Sequences, SequencesExt

CONSTANTS
  Ids,           \* objective ids
  Members,       \* names on the roster
  Admins,        \* members with members.manage: on every thread
  Creators,      \* members with objectives.create
  Cancellers,    \* members with objectives.cancel
  Reassigners,   \* members with objectives.reassign
  WatchEditors,  \* members with objectives.watch
  Reasons,       \* block reasons
  Nobody,        \* no member
  NoReason,      \* block_reason IS NULL
  MaxNames,      \* bound: names in one watchers list
  MaxEvents,     \* bound: audit events of one objective
  MaxPosts,      \* bound: messages of one objective's thread
  MaxInflight,   \* bound: requests waiting for their body
  MaxFaults      \* bound: crashes and failed writes

ASSUME RosterAssumption ==
  /\ IsFiniteSet(Members) /\ Nobody \notin Members
  /\ Admins \subseteq Members /\ Creators \subseteq Members
  /\ Cancellers \subseteq Members /\ Reassigners \subseteq Members
  /\ WatchEditors \subseteq Members
ASSUME ReasonAssumption == NoReason \notin Reasons
ASSUME BoundAssumption  == 
  {MaxNames, MaxEvents, MaxPosts, MaxInflight, MaxFaults} \subseteq Nat

VARIABLES
  objectives,    \* table objectives: id -> row
  audit,         \* table objective_events: id -> its events, oldest first
  thread,        \* messages of thread obj:<id> in the event log
  outbox,        \* pushes queued by queueMicrotask, not yet in the event log
  inflight,      \* authorised requests awaiting their body
  faults         \* crashes and failed writes so far

vars == <<objectives, audit, thread, outbox, inflight, faults>>

-----------------------------------------------------------------------------
(* Data. *)

NameLists == {names \in SUBSET Members : Cardinality(names) <= MaxNames}

Open     == {"active", "blocked"}
Terminal == {"done", "cancelled"}
Absent   == "absent"                       \* no row with this id

Row == [status      : Open \cup Terminal \cup {Absent},
        assignee    : Members \cup {Nobody},
        originator  : Members \cup {Nobody},
        watchers    : SUBSET Members,
        blockReason : Reasons \cup {NoReason}]

NoRow == [status |-> Absent, assignee |-> Nobody, originator |-> Nobody,
          watchers |-> {}, blockReason |-> NoReason]

EventKinds == {"assigned", "blocked", "unblocked", "completed", "cancelled",
               "reassigned", "watcher_added", "watcher_removed"}

\* name is payload.assignee, payload.to or payload.name; left is payload.from.
Events == [kind  : EventKinds,
           actor : Members,
           name  : Members \cup {Nobody},
           left  : Members \cup {Nobody}]

Event(kind, actor, name, left) ==
  [kind |-> kind, actor |-> actor, name |-> name, left |-> left]

\* A message of a thread.  index is the place in the audit log of the event a
\* lifecycle message announces, and 0 for a discussion post.
Messages == [obj    : Ids,
             index  : Nat,
             event  : EventKinds \cup {"discuss"},
             status : Open \cup Terminal \cup {Absent},
             from   : Members,
             to     : SUBSET Members]

Requests == [op : {"update", "complete", "discuss"}, by : Members, obj : Ids,
             to : SUBSET Members]

Exists(o) == objectives[o].status # Absent
IsOpenUnlessDone(o) == Exists(o) /\ objectives[o].status # "done"      \* mutant
IsOpen(o) == objectives[o].status \in Open

\* objectiveThreadMembers(objective): the assignee, the originator, the
\* watchers and every admin.
WholeTeam(row) == Members                                             \* mutant
ThreadMembers(row) == {row.assignee, row.originator} \cup row.watchers \cup Admins

\* objectiveThreadMembers(objective, event) adds who has just left.
NoLeavers(e) == {}                                                    \* mutant
Leavers(e) == CASE e.kind = "reassigned"      -> {e.left}
                [] e.kind = "watcher_removed" -> {e.name}
                [] OTHER                      -> {}

\* The pushes of one mutation: one per event, all built from the row as the
\* mutation left it.  The broker adds the sender to the recipients.
AnnounceOldRow(o, row, evs, by) ==                                     \* mutant
  [i \in 1..Len(evs) |->
     [obj    |-> o,
      index  |-> Len(audit[o]) + i,
      event  |-> evs[i].kind,
      status |-> objectives[o].status,
      from   |-> by,
      to     |-> ThreadMembers(row) \cup Leavers(evs[i]) \cup {by}]]

Announcements(o, row, evs, by) ==
  [i \in 1..Len(evs) |->
     [obj    |-> o,
      index  |-> Len(audit[o]) + i,
      event  |-> evs[i].kind,
      status |-> row.status,
      from   |-> by,
      to     |-> ThreadMembers(row) \cup Leavers(evs[i]) \cup {by}]]

EventsFor(kind, by, names) == {Event(kind, by, w, Nobody) : w \in names}

\* One event per name, in whatever order the request listed them: first the
\* names added, then the names removed.
WatcherEvents(by, add, drop) ==
  {a \o d : a \in SetToSeqs(EventsFor("watcher_added", by, add)),
            d \in SetToSeqs(EventsFor("watcher_removed", by, drop))}

-----------------------------------------------------------------------------
TypeOK ==
  /\ objectives \in [Ids -> Row]
  /\ audit \in [Ids -> Seq(Events)]
  /\ thread \in [Ids -> Seq(Messages)]
  /\ outbox \in Seq(Messages)
  /\ inflight \subseteq Requests
  /\ faults \in Nat

Init ==
  /\ objectives = [o \in Ids |-> NoRow]
  /\ audit = [o \in Ids |-> <<>>]
  /\ thread = [o \in Ids |-> <<>>]
  /\ outbox = <<>>
  /\ inflight = {}
  /\ faults = 0

-----------------------------------------------------------------------------
(* The two tables change in one transaction. *)

CommitOneEvent(o, row, evs) ==                                         \* mutant
  /\ Len(audit[o]) + 1 <= MaxEvents
  /\ objectives' = [objectives EXCEPT ![o] = row]
  /\ audit' = [audit EXCEPT ![o] = @ \o SubSeq(evs, 1, 1)]

Commit(o, row, evs) ==
  /\ Len(audit[o]) + Len(evs) <= MaxEvents
  /\ objectives' = [objectives EXCEPT ![o] = row]
  /\ audit' = [audit EXCEPT ![o] = @ \o evs]

MutateOneSlot(o, row, evs, by) ==                                      \* mutant
  /\ Commit(o, row, evs)
  /\ outbox' = Announcements(o, row, evs, by)
  /\ UNCHANGED <<thread, faults>>

\* A handler that succeeds: commit, then queueMicrotask(publish each event).
Mutate(o, row, evs, by) ==
  /\ Commit(o, row, evs)
  /\ outbox' = outbox \o Announcements(o, row, evs, by)
  /\ UNCHANGED <<thread, faults>>

\* POST /objectives.  The store drops the assignee and the originator from
\* the initial watchers.  Mirroring the attachments follows the commit; when
\* it throws, the client gets an error and nothing is published.
Create(o, by, assignee, names) ==
  LET watchers == names \ {assignee, by}
      row == [status |-> "active", assignee |-> assignee, originator |-> by,
              watchers |-> watchers, blockReason |-> NoReason]
  IN /\ ~Exists(o)
     /\ by \in Creators
     /\ \E added \in WatcherEvents(by, watchers, {}) :
          LET evs == <<Event("assigned", by, assignee, Nobody)>> \o added
          IN \/ Mutate(o, row, evs, by)
             \/ /\ faults < MaxFaults          \* copyByBlobRef throws
                /\ Commit(o, row, evs)
                /\ faults' = faults + 1
                /\ UNCHANGED <<thread, outbox>>
     /\ UNCHANGED inflight

-----------------------------------------------------------------------------
(* PATCH /objectives/:id, POST .../complete and POST .../discuss check the  *)
(* caller against the row, then await the body.                             *)

Accept(request) ==
  /\ Cardinality(inflight) < MaxInflight
  /\ inflight' = inflight \cup {request}
  /\ UNCHANGED <<objectives, audit, thread, outbox, faults>>

BeginUpdate(o, m) ==
  /\ Exists(o)
  /\ objectives[o].assignee = m \/ m \in Cancellers
  /\ Accept([op |-> "update", by |-> m, obj |-> o, to |-> {}])

BeginCompleteUnchecked(o, m) ==                                        \* mutant
  /\ Exists(o)
  /\ Accept([op |-> "complete", by |-> m, obj |-> o, to |-> {}])

BeginComplete(o, m) ==
  /\ Exists(o)
  /\ objectives[o].assignee = m
  /\ Accept([op |-> "complete", by |-> m, obj |-> o, to |-> {}])

\* The thread members are computed here, before the body is read.
BeginDiscuss(o, m) ==
  /\ Exists(o)
  /\ m \in ThreadMembers(objectives[o])
  /\ Accept([op |-> "discuss", by |-> m, obj |-> o,
             to |-> ThreadMembers(objectives[o])])

\* A body that never comes, does not parse, or asks for a transition the
\* store refuses: the request ends without a change.
Refuse(r) ==
  /\ r \in inflight
  /\ inflight' = inflight \ {r}
  /\ UNCHANGED <<objectives, audit, thread, outbox, faults>>

Resume(r, op) ==
  /\ r \in inflight
  /\ r.op = op
  /\ inflight' = inflight \ {r}

\* update(id, {status: "blocked", blockReason}).  A new reason on an objective
\* that is blocked already rewrites the row and appends no event.
Block(r, reason) ==
  LET o == r.obj
      row == objectives[o]
  IN /\ Resume(r, "update")
     /\ IsOpen(o)
     /\ <<row.status, row.blockReason>> # <<"blocked", reason>>
     /\ Mutate(o, [row EXCEPT !.status = "blocked", !.blockReason = reason],
               IF row.status = "blocked" THEN <<>>
               ELSE <<Event("blocked", r.by, Nobody, Nobody)>>, r.by)

\* update(id, {status: "active"}) on an active objective changes nothing.
Unblock(r) ==
  LET o == r.obj
      row == objectives[o]
  IN /\ Resume(r, "update")
     /\ row.status = "blocked"
     /\ Mutate(o, [row EXCEPT !.status = "active", !.blockReason = NoReason],
               <<Event("unblocked", r.by, Nobody, Nobody)>>, r.by)

\* complete(): the store asks whether the objective is open, not who asks.
Complete(r) ==
  LET o == r.obj
  IN /\ Resume(r, "complete")
     /\ IsOpen(o)
     /\ Mutate(o, [objectives[o] EXCEPT !.status = "done", !.blockReason = NoReason],
               <<Event("completed", r.by, Nobody, Nobody)>>, r.by)

\* One push to the members computed before the await; broker.push appends it
\* to the event log at once.
Discuss(r) ==
  LET o == r.obj
  IN /\ Resume(r, "discuss")
     /\ Len(thread[o]) < MaxPosts
     /\ thread' = [thread EXCEPT ![o] =
                     Append(@, [obj |-> o, index |-> 0, event |-> "discuss",
                                status |-> Absent, from |-> r.by,
                                to |-> r.to \cup {r.by}])]
     /\ UNCHANGED <<objectives, audit, outbox, faults>>

-----------------------------------------------------------------------------
(* Handlers whose check cannot go stale. *)

Cancel(o, m) ==
  /\ Exists(o)
  /\ m = objectives[o].originator \/ m \in Cancellers
  /\ IsOpen(o)
  /\ Mutate(o, [objectives[o] EXCEPT !.status = "cancelled"],
            <<Event("cancelled", m, Nobody, Nobody)>>, m)
  /\ UNCHANGED inflight

\* The watchers are left as they are, the new assignee among them or not.
Reassign(o, m, to) ==
  /\ m \in Reassigners
  /\ IsOpen(o)
  /\ to # objectives[o].assignee
  /\ Mutate(o, [objectives[o] EXCEPT !.assignee = to],
            <<Event("reassigned", m, to, objectives[o].assignee)>>, m)
  /\ UNCHANGED inflight

\* Allowed on a terminal objective too.
UpdateWatchers(o, m, add, remove) ==
  LET row  == objectives[o]
      new  == add \ ({row.assignee, row.originator} \cup row.watchers)
      gone == remove \cap row.watchers
  IN /\ Exists(o)
     /\ m = row.originator \/ m \in WatchEditors
     /\ new \cup gone # {}
     /\ \E evs \in WatcherEvents(m, new, gone) :
          Mutate(o, [row EXCEPT !.watchers = (@ \ gone) \cup new], evs, m)
     /\ UNCHANGED inflight

-----------------------------------------------------------------------------
(* The microtask queue and the process. *)

\* publishObjectiveEvent: the push lands in the event log, or broker.push
\* throws and the handler logs it and goes on.
Publish ==
  /\ outbox # <<>>
  /\ outbox' = Tail(outbox)
  /\ LET m == Head(outbox)
     IN \/ thread' = [thread EXCEPT ![m.obj] = Append(@, m)] /\ UNCHANGED faults
        \/ faults < MaxFaults /\ faults' = faults + 1 /\ UNCHANGED thread
  /\ UNCHANGED <<objectives, audit, inflight>>

\* The process dies and restarts: the database survives, the queued pushes
\* and the requests do not.
Crash ==
  /\ faults < MaxFaults
  /\ faults' = faults + 1
  /\ outbox' = <<>>
  /\ inflight' = {}
  /\ UNCHANGED <<objectives, audit, thread>>

Next ==
  \/ \E o \in Ids, by, assignee \in Members, names \in NameLists :
       Create(o, by, assignee, names)
  \/ \E o \in Ids, m \in Members :
       BeginUpdate(o, m) \/ BeginComplete(o, m) \/ BeginDiscuss(o, m) \/ Cancel(o, m)
  \/ \E r \in inflight : Refuse(r) \/ Unblock(r) \/ Complete(r) \/ Discuss(r)
  \/ \E r \in inflight, reason \in Reasons : Block(r, reason)
  \/ \E o \in Ids, m, to \in Members : Reassign(o, m, to)
  \/ \E o \in Ids, m \in Members, add, remove \in NameLists :
       UpdateWatchers(o, m, add, remove)
  \/ Publish
  \/ Crash

\* A queued microtask always runs before the process waits for input again.
Spec == Init /\ [][Next]_vars /\ WF_vars(Publish)
-----------------------------------------------------------------------------
(* What the audit log says, event by event. *)

StatusAfter == [assigned |-> "active", blocked |-> "blocked", unblocked |-> "active",
                completed |-> "done", cancelled |-> "cancelled"]
Handing == {"assigned", "reassigned"}

\* After its first n events a log leaves its objective in status s ...
StatusAt(log, n, s) ==
  \E i \in 1..n :
    /\ log[i].kind \in DOMAIN StatusAfter
    /\ s = StatusAfter[log[i].kind]
    /\ \A j \in 1..n : j > i => log[j].kind \notin DOMAIN StatusAfter

\* ... in the hands of m ...
HolderAt(log, n, m) ==
  \E i \in 1..n :
    /\ log[i].kind \in Handing
    /\ log[i].name = m
    /\ \A j \in 1..n : j > i => log[j].kind \notin Handing

\* ... and with w watching it.
WatcherAt(log, n, w) ==
  \E i \in 1..n :
    /\ log[i].kind = "watcher_added" /\ log[i].name = w
    /\ \A j \in 1..n :
         j > i => ~(log[j].kind = "watcher_removed" /\ log[j].name = w)

HeldBefore(log, n, m) ==
  \E i \in 1..n : log[i].kind \in Handing /\ log[i].name = m

-----------------------------------------------------------------------------
(* Safety. *)

\* The row can be rebuilt from the audit log: the log is the full history of
\* status, assignee and watchers, whatever requests raced ("Every mutating
\* call appends an event row in the same transaction", objectives.ts:24).
RowFollowsAudit ==
  \A o \in Ids :
    LET row == objectives[o]
        n   == Len(audit[o])
    IN IF Exists(o)
       THEN /\ StatusAt(audit[o], n, row.status)
            /\ HolderAt(audit[o], n, row.assignee)
            /\ \A w \in Members : w \in row.watchers <=> WatcherAt(audit[o], n, w)
            /\ audit[o][1].actor = row.originator
       ELSE n = 0

\* An objective ends once.  However complete, cancel, update and reassign
\* race, after the event that ends it only watchers may change.
EndedOnce ==
  \A o \in Ids : \A i, j \in DOMAIN audit[o] :
    i < j /\ audit[o][i].kind \in {"completed", "cancelled"}
      => audit[o][j].kind \in {"watcher_added", "watcher_removed"}

\* The authorisation that was checked before the body was read still means
\* something when the change lands: who completes an objective held it at
\* some earlier time, and who blocks or unblocks it held it or may cancel.
ActorsWereEntitled ==
  \A o \in Ids : \A i \in DOMAIN audit[o] :
    LET e == audit[o][i]
    IN /\ e.kind = "completed" => HeldBefore(audit[o], i - 1, e.actor)
       /\ e.kind \in {"blocked", "unblocked"} =>
            HeldBefore(audit[o], i - 1, e.actor) \/ e.actor \in Cancellers

Lifecycle(m) == m.index > 0

\* A thread tells the story of its objective in order: lifecycle messages
\* announce audit events, none twice, later ones later, each with the status
\* the log gives the objective at that event.  Crashes may leave gaps.
ThreadFollowsAudit ==
  \A o \in Ids :
    LET line == thread[o] \o outbox
        told == {i \in DOMAIN line : line[i].obj = o /\ Lifecycle(line[i])}
    IN /\ \A i, j \in told : i < j => line[i].index < line[j].index
       /\ \A i \in told :
            LET m == line[i]
            IN /\ m.index \in DOMAIN audit[o]
               /\ m.event = audit[o][m.index].kind
               /\ m.from = audit[o][m.index].actor
               /\ StatusAt(audit[o], m.index, m.status)

ConcernedAreTold ==
  \A o \in Ids : \A k \in DOMAIN thread[o] :
    LET m == thread[o][k]
        e == audit[o][m.index]
    IN Lifecycle(m) =>
         /\ Admins \cup {audit[o][1].actor, e.actor} \subseteq m.to
         /\ e.name # Nobody => e.name \in m.to
         /\ \A x \in Members :
              HolderAt(audit[o], m.index, x) \/ HolderAt(audit[o], m.index - 1, x) => x \in m.to
         /\ e.kind \notin {"watcher_added", "watcher_removed"} =>
              \A x \in Members : WatcherAt(audit[o], m.index, x) => x \in m.to

NoStrangers ==
  \A o \in Ids : \A k \in DOMAIN thread[o] :
    thread[o][k].to \subseteq
      Admins \cup {audit[o][i].actor : i \in DOMAIN audit[o]}
             \cup {audit[o][i].name : i \in DOMAIN audit[o]}

\* Nobody whose plate an event changes is left out of the push about it: the
\* admins, the originator, the assignee before and after, the watcher added or
\* removed, and at a change of status or hands everyone then watching.  And a
\* thread, posts with their member list from before an await included, reaches
\* only admins and names the audit log connects with the objective.
RightAudience == ConcernedAreTold /\ NoStrangers

(* Liveness: every event is announced in the end, unless a fault lost it. *)
EventsAnnounced ==
  \A o \in Ids : \A i \in 1..MaxEvents :
    i \in DOMAIN audit[o] ~>
      faults > 0 \/ \E k \in DOMAIN thread[o] : thread[o][k].index = i

-----------------------------------------------------------------------------
(* The service implements the lifecycle of ObjectiveLifecycle. *)
Abstract == INSTANCE ObjectiveLifecycle WITH
  status   <- [o \in Ids |-> objectives[o].status],
  assignee <- [o \in Ids |-> objectives[o].assignee]

ImplementsLifecycle == Abstract!Spec
=============================================================================
