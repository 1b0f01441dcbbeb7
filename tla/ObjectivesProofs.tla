-------------------------- MODULE ObjectivesProofs --------------------------
(***************************************************************************)
(* Theorems about Objectives, for every roster, every number of            *)
(* objectives and every bound.                                             *)
(***************************************************************************)
EXTENDS Objectives, FiniteSetTheorems, SequenceTheorems, TLAPS

-----------------------------------------------------------------------------
(* Appending to a log: what the reading of a log keeps and what it learns. *)

\* The old part of an extended log reads as before (the append in appendEvent
\* touches no earlier row).
LEMMA PrefixKept ==
  ASSUME NEW log \in Seq(Events), NEW evs \in Seq(Events),
         NEW n \in 0..Len(log)
  PROVE  /\ log \o evs \in Seq(Events)
         /\ Len(log \o evs) = Len(log) + Len(evs)
         /\ \A i \in 1..n : (log \o evs)[i] = log[i]
         /\ \A i \in 1..Len(evs) : (log \o evs)[Len(log) + i] = evs[i]
         /\ \A i \in Len(log) + 1 .. Len(log) + Len(evs) :
              /\ i - Len(log) \in 1..Len(evs)
              /\ (log \o evs)[i] = evs[i - Len(log)]
  BY ConcatProperties, LenProperties

\* A batch of events that says nothing about the status leaves it.
LEMMA StatusKept ==
  ASSUME NEW log \in Seq(Events), NEW evs \in Seq(Events), NEW s,
         StatusAt(log, Len(log), s),
         \A i \in 1..Len(evs) : evs[i].kind \notin DOMAIN StatusAfter
  PROVE  StatusAt(log \o evs, Len(log \o evs), s)
<1> DEFINE all == log \o evs
<1>1. Len(log) \in Nat /\ Len(evs) \in Nat
  BY LenProperties
<1>2. PICK i \in 1..Len(log) :
        /\ log[i].kind \in DOMAIN StatusAfter
        /\ s = StatusAfter[log[i].kind]
        /\ \A j \in 1..Len(log) : j > i => log[j].kind \notin DOMAIN StatusAfter
  BY DEF StatusAt
<1>3. Len(all) = Len(log) + Len(evs) /\ all[i] = log[i]
  BY <1>1, PrefixKept
<1>4. ASSUME NEW j \in 1..Len(all), j > i
      PROVE  all[j].kind \notin DOMAIN StatusAfter
  <2>1. CASE j <= Len(log)
    BY <1>1, <1>2, <1>4, <2>1, PrefixKept
  <2>2. CASE j > Len(log)
    BY <1>1, <1>3, <2>2, PrefixKept
  <2> QED
    BY <1>1, <2>1, <2>2, <1>3
<1> HIDE DEF all
<1>5. QED
  BY <1>1, <1>2, <1>3, <1>4 DEF StatusAt, all

\* One event that sets the status is the last word on it.
LEMMA StatusMoved ==
  ASSUME NEW log \in Seq(Events), NEW e \in Events,
         e.kind \in DOMAIN StatusAfter
  PROVE  StatusAt(log \o <<e>>, Len(log \o <<e>>), StatusAfter[e.kind])
<1>1. <<e>> \in Seq(Events) /\ Len(<<e>>) = 1 /\ <<e>>[1] = e
  OBVIOUS
<1>2. Len(log) \in Nat
  BY LenProperties
<1>3. /\ Len(log \o <<e>>) = Len(log) + 1
      /\ (log \o <<e>>)[Len(log) + 1] = e
  BY <1>1, <1>2, PrefixKept
<1>4. QED
  BY <1>2, <1>3 DEF StatusAt

\* The same two facts for the holder.
LEMMA HolderKept ==
  ASSUME NEW log \in Seq(Events), NEW evs \in Seq(Events), NEW m,
         HolderAt(log, Len(log), m),
         \A i \in 1..Len(evs) : evs[i].kind \notin Handing
  PROVE  HolderAt(log \o evs, Len(log \o evs), m)
<1> DEFINE all == log \o evs
<1>1. Len(log) \in Nat /\ Len(evs) \in Nat
  BY LenProperties
<1>2. PICK i \in 1..Len(log) :
        /\ log[i].kind \in Handing
        /\ log[i].name = m
        /\ \A j \in 1..Len(log) : j > i => log[j].kind \notin Handing
  BY DEF HolderAt
<1>3. Len(all) = Len(log) + Len(evs) /\ all[i] = log[i]
  BY <1>1, PrefixKept
<1>4. ASSUME NEW j \in 1..Len(all), j > i
      PROVE  all[j].kind \notin Handing
  <2>1. CASE j <= Len(log)
    BY <1>1, <1>2, <1>4, <2>1, PrefixKept
  <2>2. CASE j > Len(log)
    BY <1>1, <1>3, <2>2, PrefixKept
  <2> QED
    BY <1>1, <2>1, <2>2, <1>3
<1> HIDE DEF all
<1>5. QED
  BY <1>1, <1>2, <1>3, <1>4 DEF HolderAt, all

LEMMA HolderMoved ==
  ASSUME NEW log \in Seq(Events), NEW e \in Events, e.kind \in Handing
  PROVE  HolderAt(log \o <<e>>, Len(log \o <<e>>), e.name)
<1>1. <<e>> \in Seq(Events) /\ Len(<<e>>) = 1 /\ <<e>>[1] = e
  OBVIOUS
<1>2. Len(log) \in Nat
  BY LenProperties
<1>3. /\ Len(log \o <<e>>) = Len(log) + 1
      /\ (log \o <<e>>)[Len(log) + 1] = e
  BY <1>1, <1>2, PrefixKept
<1>4. QED
  BY <1>2, <1>3 DEF HolderAt

Adds(e, w)  == e.kind = "watcher_added" /\ e.name = w
Drops(e, w) == e.kind = "watcher_removed" /\ e.name = w

\* After a batch that does not both add and drop w, w watches iff the batch
\* added w, or w watched before and the batch did not drop w.
LEMMA WatcherAfter ==
  ASSUME NEW log \in Seq(Events), NEW evs \in Seq(Events), NEW w,
         ~ \E i, j \in 1..Len(evs) : Adds(evs[i], w) /\ Drops(evs[j], w)
  PROVE  WatcherAt(log \o evs, Len(log \o evs), w) <=>
           \/ \E i \in 1..Len(evs) : Adds(evs[i], w)
           \/ /\ WatcherAt(log, Len(log), w)
              /\ \A i \in 1..Len(evs) : ~Drops(evs[i], w)
<1> DEFINE all == log \o evs
           n   == Len(log)
           k   == Len(evs)
<1>1. n \in Nat /\ k \in Nat
  BY LenProperties
<1>2. /\ Len(all) = n + k
      /\ \A i \in 1..n : all[i] = log[i]
      /\ \A i \in 1..k : all[n + i] = evs[i]
      /\ \A i \in n + 1 .. n + k : i - n \in 1..k /\ all[i] = evs[i - n]
  BY <1>1, PrefixKept
<1> HIDE DEF all, n, k
<1>3. ASSUME NEW i \in 1..k, Adds(evs[i], w)
      PROVE  WatcherAt(all, Len(all), w)
  <2>1. n + i \in 1..n + k /\ Adds(all[n + i], w)
    BY <1>1, <1>2, <1>3
  <2>2. ASSUME NEW j \in 1..n + k, j > n + i
        PROVE  ~Drops(all[j], w)
    BY <1>1, <1>2, <1>3, <2>2 DEF k
  <2>3. QED
    BY <1>2, <2>1, <2>2 DEF WatcherAt, Adds, Drops
<1>4. ASSUME WatcherAt(log, n, w), \A i \in 1..k : ~Drops(evs[i], w)
      PROVE  WatcherAt(all, Len(all), w)
  <2>1. PICK i \in 1..n :
          /\ Adds(log[i], w)
          /\ \A j \in 1..n : j > i => ~Drops(log[j], w)
    BY <1>4 DEF WatcherAt, Adds, Drops
  <2>2. i \in 1..n + k /\ Adds(all[i], w)
    BY <1>1, <1>2, <2>1
  <2>3. ASSUME NEW j \in 1..n + k, j > i
        PROVE  ~Drops(all[j], w)
    <3>1. CASE j \in 1..n
      BY <1>2, <2>1, <2>3, <3>1
    <3>2. CASE j \in n + 1 .. n + k
      BY <1>2, <1>4, <3>2
    <3>3. QED
      BY <1>1, <3>1, <3>2
  <2>4. QED
    BY <1>2, <2>2, <2>3 DEF WatcherAt, Adds, Drops
<1>5. ASSUME WatcherAt(all, Len(all), w), ~ \E i \in 1..k : Adds(evs[i], w)
      PROVE  WatcherAt(log, n, w) /\ \A i \in 1..k : ~Drops(evs[i], w)
  <2>1. PICK i \in 1..n + k :
          /\ Adds(all[i], w)
          /\ \A j \in 1..n + k : j > i => ~Drops(all[j], w)
    BY <1>2, <1>5 DEF WatcherAt, Adds, Drops
  <2>2. i \in 1..n
    <3>1. SUFFICES ASSUME i \in n + 1 .. n + k
                   PROVE  FALSE
      BY <1>1
    <3>2. i - n \in 1..k /\ Adds(evs[i - n], w)
      BY <1>2, <2>1, <3>1
    <3>3. QED
      BY <1>5, <3>2
  <2>3. WatcherAt(log, n, w)
    <3>1. Adds(log[i], w)
      BY <1>2, <2>1, <2>2
    <3>2. ASSUME NEW j \in 1..n, j > i
          PROVE  ~Drops(log[j], w)
      BY <1>1, <1>2, <2>1, <3>2
    <3>3. QED
      BY <2>2, <3>1, <3>2 DEF WatcherAt, Adds, Drops
  <2>4. ASSUME NEW j \in 1..k
        PROVE  ~Drops(evs[j], w)
    <3>1. n + j \in 1..n + k /\ n + j > i
      BY <1>1, <2>2
    <3>2. QED
      BY <1>2, <2>1, <3>1
  <2>5. QED
    BY <2>3, <2>4
<1>6. QED
  BY <1>3, <1>4, <1>5 DEF all, n, k

-----------------------------------------------------------------------------
(* The batch of watcher events. *)

\* A listing of a finite set has each of its elements and nothing else.
LEMMA ListingIsComplete ==
  ASSUME NEW S, IsFiniteSet(S), NEW f \in SetToSeqs(S)
  PROVE  /\ f \in Seq(S)
         /\ Len(f) = Cardinality(S)
         /\ \A x \in S : \E i \in 1..Len(f) : f[i] = x
<1> DEFINE n == Cardinality(S)
<1>1. n \in Nat
  BY FS_CardinalityType
<1>2. f \in [1..n -> S] /\ \A i, j \in 1..n : i # j => f[i] # f[j]
  BY DEF SetToSeqs
<1>3. IsFiniteSet(1..n) /\ Cardinality(1..n) = n
  BY <1>1, FS_Interval
<1> HIDE DEF n
<1>4. f \in Injection(1..n, S)
  BY <1>2 DEF Injection, IsInjective
<1>5. f \in Surjection(1..n, S)
  BY <1>3, <1>4, FS_Injection DEF n
<1>6. f \in Seq(S) /\ Len(f) = n
  BY <1>1, <1>2
<1>7. QED
  BY <1>5, <1>6 DEF Surjection, n

\* The events for a set of names: finitely many, one for each name.
LEMMA EventsForNames ==
  ASSUME NEW kind \in EventKinds, NEW by \in Members, NEW names \in SUBSET Members
  PROVE  /\ IsFiniteSet(EventsFor(kind, by, names))
         /\ \A e \in EventsFor(kind, by, names) :
              /\ e \in Events
              /\ e.kind = kind /\ e.actor = by /\ e.name \in names
         /\ \A w \in names : \E e \in EventsFor(kind, by, names) :
              e.kind = kind /\ e.name = w
<1> DEFINE f == [w \in names |-> Event(kind, by, w, Nobody)]
           S == EventsFor(kind, by, names)
<1>1. IsFiniteSet(names)
  BY RosterAssumption, FS_Subset
<1>2. \A w \in names : Event(kind, by, w, Nobody) \in S
  BY DEF EventsFor
<1>3. \A e \in S : \E w \in names : e = Event(kind, by, w, Nobody)
  BY DEF EventsFor
<1>4. f \in Surjection(names, S)
  BY <1>2, <1>3 DEF Surjection
<1>5. IsFiniteSet(S)
  BY <1>1, <1>4, FS_Surjection
<1>6. ASSUME NEW e \in S
      PROVE  e \in Events /\ e.kind = kind /\ e.actor = by /\ e.name \in names
  BY <1>3 DEF Event, Events
<1>7. ASSUME NEW w \in names
      PROVE  \E e \in S : e.kind = kind /\ e.name = w
  BY <1>2 DEF Event
<1>8. QED
  BY <1>5, <1>6, <1>7

\* A batch holds the additions and the removals asked for, and nothing else.
BatchFor(evs, by, add, drop) ==
  /\ evs \in Seq(Events)
  /\ \A i \in 1..Len(evs) :
       \/ evs[i].kind = "watcher_added" /\ evs[i].name \in add
       \/ evs[i].kind = "watcher_removed" /\ evs[i].name \in drop
  /\ \A i \in 1..Len(evs) : evs[i].actor = by
  /\ \A w \in add : \E i \in 1..Len(evs) : Adds(evs[i], w)
  /\ \A w \in drop : \E i \in 1..Len(evs) : Drops(evs[i], w)

LEMMA WatcherBatch ==
  ASSUME NEW by \in Members, NEW add \in SUBSET Members, NEW drop \in SUBSET Members,
         NEW evs \in WatcherEvents(by, add, drop)
  PROVE  BatchFor(evs, by, add, drop)
<1> DEFINE A == EventsFor("watcher_added", by, add)
           D == EventsFor("watcher_removed", by, drop)
<1>1. PICK a \in SetToSeqs(A), d \in SetToSeqs(D) : evs = a \o d
  BY DEF WatcherEvents
<1> "watcher_added" \in EventKinds /\ "watcher_removed" \in EventKinds
  BY DEF EventKinds
<1>2. IsFiniteSet(A) /\ IsFiniteSet(D)
  BY EventsForNames
<1>3. A \subseteq Events /\ D \subseteq Events
  BY EventsForNames
<1>4. /\ \A e \in A : e.kind = "watcher_added" /\ e.name \in add /\ e.actor = by
      /\ \A e \in D : e.kind = "watcher_removed" /\ e.name \in drop /\ e.actor = by
      /\ \A w \in add : \E e \in A : Adds(e, w)
      /\ \A w \in drop : \E e \in D : Drops(e, w)
  BY EventsForNames DEF Adds, Drops
<1> HIDE DEF A, D
<1>5. /\ a \in Seq(A) /\ d \in Seq(D)
      /\ \A e \in A : \E i \in 1..Len(a) : a[i] = e
      /\ \A e \in D : \E i \in 1..Len(d) : d[i] = e
  BY <1>2, ListingIsComplete
<1>6. a \in Seq(Events) /\ d \in Seq(Events) /\ Len(a) \in Nat /\ Len(d) \in Nat
  BY <1>3, <1>5, SeqMonotonic, LenProperties
<1>7. /\ evs \in Seq(Events)
      /\ Len(evs) = Len(a) + Len(d)
      /\ \A i \in 1..Len(a) : evs[i] = a[i]
      /\ \A i \in 1..Len(d) : evs[Len(a) + i] = d[i]
      /\ \A i \in Len(a) + 1 .. Len(a) + Len(d) :
           i - Len(a) \in 1..Len(d) /\ evs[i] = d[i - Len(a)]
  BY <1>1, <1>6, PrefixKept
<1>8. ASSUME NEW i \in 1..Len(evs)
      PROVE  evs[i] \in A \cup D
  <2>1. CASE i <= Len(a)
    <3>1. i \in 1..Len(a) /\ evs[i] = a[i]
      BY <1>6, <1>7, <2>1
    <3>2. QED
      BY <1>5, <3>1, ElementOfSeq
  <2>2. CASE i > Len(a)
    <3>1. i - Len(a) \in 1..Len(d) /\ evs[i] = d[i - Len(a)]
      BY <1>6, <1>7, <2>2
    <3>2. QED
      BY <1>5, <3>1, ElementOfSeq
  <2> QED
    BY <1>6, <1>7, <2>1, <2>2
<1>9. ASSUME NEW w \in add
      PROVE  \E i \in 1..Len(evs) : Adds(evs[i], w)
  <2>1. PICK e \in A : Adds(e, w)
    BY <1>4
  <2>2. PICK i \in 1..Len(a) : a[i] = e
    BY <1>5
  <2>3. QED
    BY <1>6, <1>7, <2>1, <2>2
<1>10. ASSUME NEW w \in drop
       PROVE  \E i \in 1..Len(evs) : Drops(evs[i], w)
  <2>1. PICK e \in D : Drops(e, w)
    BY <1>4
  <2>2. PICK i \in 1..Len(d) : d[i] = e
    BY <1>5
  <2>3. Len(a) + i \in 1..Len(evs) /\ evs[Len(a) + i] = e
    BY <1>6, <1>7, <2>2
  <2>4. QED
    BY <2>1, <2>3
<1>11. QED
  BY <1>4, <1>7, <1>8, <1>9, <1>10 DEF BatchFor

-----------------------------------------------------------------------------
(* Types.  TypeOK alone is not inductive: the recipients of a push are       *)
(* members only because a row that exists names members.                     *)

GoodRow(row) ==
  /\ row \in Row
  /\ row.status # Absent
  /\ row.assignee \in Members
  /\ row.originator \in Members

TypeInv ==
  /\ TypeOK
  /\ \A o \in Ids : Exists(o) => GoodRow(objectives[o])

\* A batch of events whose leavers are members.
GoodBatch(evs) ==
  /\ evs \in Seq(Events)
  /\ \A i \in 1..Len(evs) : Leavers(evs[i]) \subseteq Members

LEMMA CommitTypes ==
  ASSUME TypeInv, NEW o \in Ids, NEW row, GoodRow(row), NEW evs \in Seq(Events),
         Commit(o, row, evs)
  PROVE  /\ objectives' \in [Ids -> Row]
         /\ audit' \in [Ids -> Seq(Events)]
         /\ \A p \in Ids : objectives'[p].status # Absent => GoodRow(objectives'[p])
<1>1. audit[o] \o evs \in Seq(Events)
  BY ConcatProperties DEF TypeInv, TypeOK
<1>2. objectives' \in [Ids -> Row] /\ audit' \in [Ids -> Seq(Events)]
  BY <1>1 DEF Commit, TypeInv, TypeOK, GoodRow
<1>3. ASSUME NEW p \in Ids, objectives'[p].status # Absent
      PROVE  GoodRow(objectives'[p])
  BY <1>3 DEF Commit, TypeInv, TypeOK, Exists
<1>4. QED
  BY <1>2, <1>3

LEMMA AnnouncementsType ==
  ASSUME TypeInv, NEW o \in Ids, NEW row, GoodRow(row), NEW evs, GoodBatch(evs),
         NEW by \in Members
  PROVE  /\ Announcements(o, row, evs, by) \in Seq(Messages)
         /\ Len(Announcements(o, row, evs, by)) = Len(evs)
<1>1. Len(evs) \in Nat /\ Len(audit[o]) \in Nat
  BY LenProperties DEF GoodBatch, TypeInv, TypeOK
<1>2. ThreadMembers(row) \subseteq Members
  BY RosterAssumption DEF ThreadMembers, GoodRow, Row
<1>3. ASSUME NEW i \in 1..Len(evs)
      PROVE  [obj    |-> o,
              index  |-> Len(audit[o]) + i,
              event  |-> evs[i].kind,
              status |-> row.status,
              from   |-> by,
              to     |-> ThreadMembers(row) \cup Leavers(evs[i]) \cup {by}] \in Messages
  <2>1. evs[i] \in Events /\ Leavers(evs[i]) \subseteq Members
    BY ElementOfSeq DEF GoodBatch
  <2>2. evs[i].kind \in EventKinds /\ Len(audit[o]) + i \in Nat
    BY <1>1, <2>1 DEF Events
  <2>3. row.status \in Open \cup Terminal \cup {Absent}
    BY DEF GoodRow, Row
  <2>4. QED
    BY <1>2, <2>1, <2>2, <2>3 DEF Messages
<1>4. QED
  BY <1>1, <1>3 DEF Announcements

LEMMA MutateTypes ==
  ASSUME TypeInv, NEW o \in Ids, NEW row, GoodRow(row), NEW evs, GoodBatch(evs),
         NEW by \in Members, Mutate(o, row, evs, by), inflight' \subseteq inflight
  PROVE  TypeInv'
<1>1. /\ objectives' \in [Ids -> Row]
      /\ audit' \in [Ids -> Seq(Events)]
      /\ \A p \in Ids : objectives'[p].status # Absent => GoodRow(objectives'[p])
  BY CommitTypes DEF Mutate, GoodBatch
<1>2. outbox' \in Seq(Messages)
  BY AnnouncementsType, ConcatProperties DEF Mutate, TypeInv, TypeOK
<1>3. QED
  BY <1>1, <1>2 DEF Mutate, TypeInv, TypeOK, Exists

\* One event that nobody leaves by is a good batch.
LEMMA OneEventBatch ==
  ASSUME NEW e \in Events, Leavers(e) \subseteq Members
  PROVE  /\ GoodBatch(<<e>>) /\ <<e>> \in Seq(Events)
         /\ Len(<<e>>) = 1 /\ <<e>>[1] = e
BY DEF GoodBatch

LEMMA WatcherBatchGood ==
  ASSUME NEW by \in Members, NEW add \in SUBSET Members, NEW drop \in SUBSET Members,
         NEW evs \in WatcherEvents(by, add, drop)
  PROVE  GoodBatch(evs)
  BY WatcherBatch DEF BatchFor, GoodBatch, Leavers

\* Every step keeps the types: each mutating handler hands Mutate a good row
\* and a good batch of events.
LEMMA TypeStep == TypeInv /\ [Next]_vars => TypeInv'
<1> SUFFICES ASSUME TypeInv, [Next]_vars
             PROVE  TypeInv'
  OBVIOUS
<1>1. ASSUME NEW o \in Ids, NEW by \in Members, NEW assignee \in Members,
             NEW names \in NameLists, Create(o, by, assignee, names)
      PROVE  TypeInv'
  <2> DEFINE watchers == names \ {assignee, by}
             row == [status |-> "active", assignee |-> assignee, originator |-> by,
                     watchers |-> watchers, blockReason |-> NoReason]
             first == Event("assigned", by, assignee, Nobody)
  <2>1. watchers \in SUBSET Members
    BY DEF NameLists
  <2>2. GoodRow(row)
    BY <2>1 DEF GoodRow, Row, Open, Terminal, Absent
  <2>3. PICK added \in WatcherEvents(by, watchers, {}) :
          LET evs == <<first>> \o added
          IN \/ Mutate(o, row, evs, by)
             \/ Commit(o, row, evs) /\ faults' = faults + 1 /\ UNCHANGED <<thread, outbox>>
    BY <1>1 DEF Create
  <2> DEFINE evs == <<first>> \o added
  <2>4. first \in Events /\ Leavers(first) = {}
    BY DEF Event, Events, EventKinds, Leavers
  <2>5. GoodBatch(<<first>>) /\ GoodBatch(added)
    BY <2>1, <2>4, OneEventBatch, WatcherBatchGood
  <2> HIDE DEF watchers, row, first
  <2>6. GoodBatch(evs)
    <3>1. /\ evs \in Seq(Events) /\ Len(evs) = 1 + Len(added) /\ Len(added) \in Nat
          /\ evs[1] = first
          /\ \A i \in 2..1 + Len(added) : i - 1 \in 1..Len(added) /\ evs[i] = added[i - 1]
      BY <2>5, ConcatProperties, LenProperties DEF GoodBatch
    <3>2. \A i \in 1..Len(evs) : Leavers(evs[i]) \subseteq Members
      <4> TAKE i \in 1..Len(evs)
      <4>1. CASE i = 1
        BY <2>4, <3>1, <4>1
      <4>2. CASE i \in 2..1 + Len(added)
        BY <2>5, <3>1, <4>2 DEF GoodBatch
      <4> QED
        BY <3>1, <4>1, <4>2
    <3> QED
      BY <3>1, <3>2 DEF GoodBatch
  <2> HIDE DEF evs
  <2>7. inflight' = inflight
    BY <1>1 DEF Create
  <2>8. CASE Mutate(o, row, evs, by)
    BY <2>2, <2>6, <2>7, <2>8, MutateTypes
  <2>9. CASE Commit(o, row, evs) /\ faults' = faults + 1 /\ UNCHANGED <<thread, outbox>>
    <3>1. evs \in Seq(Events)
      BY <2>6 DEF GoodBatch
    <3>2. /\ objectives' \in [Ids -> Row]
          /\ audit' \in [Ids -> Seq(Events)]
          /\ \A p \in Ids : objectives'[p].status # Absent => GoodRow(objectives'[p])
      BY <2>2, <2>9, <3>1, CommitTypes
    <3> QED
      BY <2>7, <2>9, <3>2 DEF TypeInv, TypeOK, Exists
  <2> QED
    BY <2>3, <2>8, <2>9 DEF evs
<1>2. ASSUME NEW o \in Ids, NEW m \in Members,
             BeginUpdate(o, m) \/ BeginComplete(o, m) \/ BeginDiscuss(o, m)
      PROVE  TypeInv'
  <2>1. Exists(o) => ThreadMembers(objectives[o]) \subseteq Members
    BY RosterAssumption DEF TypeInv, GoodRow, ThreadMembers, Row
  <2>2. \E r \in Requests : Accept(r)
    BY <1>2, <2>1 DEF BeginUpdate, BeginComplete, BeginDiscuss, Requests
  <2> QED
    BY <2>2 DEF Accept, TypeInv, TypeOK, Exists
<1>3. ASSUME NEW r \in inflight, Refuse(r)
      PROVE  TypeInv'
  BY <1>3 DEF Refuse, TypeInv, TypeOK, Exists
<1> ASSUME NEW r \in inflight
    PROVE  r \in Requests /\ r.obj \in Ids /\ r.by \in Members /\ r.to \subseteq Members
  BY DEF TypeInv, TypeOK, Requests
<1>4. ASSUME NEW r \in inflight, NEW reason \in Reasons, Block(r, reason)
      PROVE  TypeInv'
  <2> DEFINE o == r.obj
             row == [objectives[o] EXCEPT !.status = "blocked", !.blockReason = reason]
             e == Event("blocked", r.by, Nobody, Nobody)
             evs == IF objectives[o].status = "blocked" THEN <<>> ELSE <<e>>
  <2>1. GoodRow(objectives[o])
    BY <1>4 DEF Block, IsOpen, Open, TypeInv, Exists, Absent
  <2>2. GoodRow(row)
    BY <2>1 DEF GoodRow, Row, Open, Absent
  <2>3. GoodBatch(evs)
    <3>1. GoodBatch(<<>>)
      BY EmptySeq DEF GoodBatch
    <3>2. e \in Events /\ Leavers(e) = {}
      BY DEF Event, Events, EventKinds, Leavers
    <3> QED
      BY <3>1, <3>2, OneEventBatch
  <2>4. Mutate(o, row, evs, r.by) /\ inflight' \subseteq inflight
    BY <1>4 DEF Block, Resume
  <2> QED
    BY <2>2, <2>3, <2>4, MutateTypes
<1>5. ASSUME NEW r \in inflight, Unblock(r)
      PROVE  TypeInv'
  <2> DEFINE o == r.obj
             row == [objectives[o] EXCEPT !.status = "active", !.blockReason = NoReason]
             e == Event("unblocked", r.by, Nobody, Nobody)
  <2>1. GoodRow(objectives[o])
    BY <1>5 DEF Unblock, TypeInv, Exists, Absent
  <2>2. GoodRow(row)
    BY <2>1 DEF GoodRow, Row, Open, Absent
  <2>3. GoodBatch(<<e>>)
    BY OneEventBatch DEF Event, Events, EventKinds, Leavers
  <2>4. Mutate(o, row, <<e>>, r.by) /\ inflight' \subseteq inflight
    BY <1>5 DEF Unblock, Resume
  <2> QED
    BY <2>2, <2>3, <2>4, MutateTypes
<1>6. ASSUME NEW r \in inflight, Complete(r)
      PROVE  TypeInv'
  <2> DEFINE o == r.obj
             row == [objectives[o] EXCEPT !.status = "done", !.blockReason = NoReason]
             e == Event("completed", r.by, Nobody, Nobody)
  <2>1. GoodRow(objectives[o])
    BY <1>6 DEF Complete, IsOpen, Open, TypeInv, Exists, Absent
  <2>2. GoodRow(row)
    BY <2>1 DEF GoodRow, Row, Open, Terminal, Absent
  <2>3. GoodBatch(<<e>>)
    BY OneEventBatch DEF Event, Events, EventKinds, Leavers
  <2>4. Mutate(o, row, <<e>>, r.by) /\ inflight' \subseteq inflight
    BY <1>6 DEF Complete, Resume
  <2> QED
    BY <2>2, <2>3, <2>4, MutateTypes
<1>7. ASSUME NEW r \in inflight, Discuss(r)
      PROVE  TypeInv'
  <2> DEFINE m == [obj |-> r.obj, index |-> 0, event |-> "discuss", status |-> Absent,
                   from |-> r.by, to |-> r.to \cup {r.by}]
  <2>1. m \in Messages
    BY DEF Messages
  <2>2. thread' \in [Ids -> Seq(Messages)]
    <3> HIDE DEF m
    <3>1. thread' = [thread EXCEPT ![r.obj] = Append(@, m)]
      BY <1>7 DEF Discuss, m
    <3>2. Append(thread[r.obj], m) \in Seq(Messages)
      BY <2>1, AppendProperties DEF TypeInv, TypeOK
    <3> QED
      BY <3>1, <3>2 DEF TypeInv, TypeOK
  <2> QED
    BY <1>7, <2>2 DEF Discuss, Resume, TypeInv, TypeOK, Exists
<1>8. ASSUME NEW o \in Ids, NEW m \in Members, Cancel(o, m)
      PROVE  TypeInv'
  <2> DEFINE row == [objectives[o] EXCEPT !.status = "cancelled"]
             e == Event("cancelled", m, Nobody, Nobody)
  <2>1. GoodRow(objectives[o])
    BY <1>8 DEF Cancel, TypeInv
  <2>2. GoodRow(row)
    BY <2>1 DEF GoodRow, Row, Open, Terminal, Absent
  <2>3. GoodBatch(<<e>>)
    BY OneEventBatch DEF Event, Events, EventKinds, Leavers
  <2>4. Mutate(o, row, <<e>>, m) /\ inflight' \subseteq inflight
    BY <1>8 DEF Cancel
  <2> QED
    BY <2>2, <2>3, <2>4, MutateTypes
<1>9. ASSUME NEW o \in Ids, NEW m \in Members, NEW to \in Members, Reassign(o, m, to)
      PROVE  TypeInv'
  <2> DEFINE row == [objectives[o] EXCEPT !.assignee = to]
             e == Event("reassigned", m, to, objectives[o].assignee)
  <2>1. GoodRow(objectives[o])
    BY <1>9 DEF Reassign, IsOpen, Open, TypeInv, Exists, Absent
  <2>2. GoodRow(row)
    BY <2>1 DEF GoodRow, Row
  <2>3. e \in Events /\ Leavers(e) \subseteq Members
    BY <2>1 DEF Event, Events, EventKinds, Leavers, GoodRow
  <2>4. GoodBatch(<<e>>)
    BY <2>3, OneEventBatch
  <2>5. Mutate(o, row, <<e>>, m) /\ inflight' \subseteq inflight
    BY <1>9 DEF Reassign
  <2> QED
    BY <2>2, <2>4, <2>5, MutateTypes
<1>10. ASSUME NEW o \in Ids, NEW m \in Members, NEW add \in NameLists,
              NEW remove \in NameLists, UpdateWatchers(o, m, add, remove)
       PROVE  TypeInv'
  <2> DEFINE old  == objectives[o]
             new  == add \ ({old.assignee, old.originator} \cup old.watchers)
             gone == remove \cap old.watchers
             row  == [old EXCEPT !.watchers = (@ \ gone) \cup new]
  <2>1. GoodRow(old)
    BY <1>10 DEF UpdateWatchers, TypeInv
  <2>2. new \in SUBSET Members /\ gone \in SUBSET Members
    BY <2>1 DEF NameLists
  <2>3. GoodRow(row)
    BY <2>1, <2>2 DEF GoodRow, Row
  <2>4. PICK evs \in WatcherEvents(m, new, gone) : Mutate(o, row, evs, m)
    BY <1>10 DEF UpdateWatchers
  <2>5. GoodBatch(evs)
    BY <2>2, WatcherBatchGood
  <2>6. inflight' \subseteq inflight
    BY <1>10 DEF UpdateWatchers
  <2> QED
    BY <2>3, <2>4, <2>5, <2>6, MutateTypes
<1>11. ASSUME Publish
       PROVE  TypeInv'
  <2>1. Head(outbox) \in Messages /\ Tail(outbox) \in Seq(Messages)
    BY <1>11, HeadTailProperties DEF Publish, TypeInv, TypeOK
  <2>2. Head(outbox).obj \in Ids
    BY <2>1 DEF Messages
  <2>3. Append(thread[Head(outbox).obj], Head(outbox)) \in Seq(Messages)
    BY <2>1, <2>2, AppendProperties DEF TypeInv, TypeOK
  <2>4. outbox' = Tail(outbox) /\ UNCHANGED <<objectives, audit, inflight>>
    BY <1>11 DEF Publish
  <2>5. thread' \in [Ids -> Seq(Messages)] /\ faults' \in Nat
    <3>1. CASE thread' = [thread EXCEPT ![Head(outbox).obj] = Append(@, Head(outbox))]
               /\ UNCHANGED faults
      BY <2>2, <2>3, <3>1 DEF TypeInv, TypeOK
    <3>2. CASE faults' = faults + 1 /\ UNCHANGED thread
      BY <3>2 DEF TypeInv, TypeOK
    <3> QED
      BY <1>11, <3>1, <3>2 DEF Publish
  <2> QED
    BY <2>1, <2>4, <2>5 DEF TypeInv, TypeOK, Exists
<1>12. ASSUME Crash
       PROVE  TypeInv'
  BY <1>12, EmptySeq DEF Crash, TypeInv, TypeOK, Exists
<1>13. CASE UNCHANGED vars
  BY <1>13 DEF vars, TypeInv, TypeOK, Exists
<1>14. QED
  BY <1>1, <1>2, <1>3, <1>4, <1>5, <1>6, <1>7, <1>8, <1>9, <1>10, <1>11, <1>12, <1>13
     DEF Next

\* Every table, queue and message of the service has its type, for every
\* roster and every bound.
THEOREM TypeCorrect == Spec => []TypeOK
<1>1. Init => TypeInv
  <2> SUFFICES ASSUME Init PROVE TypeInv
    OBVIOUS
  <2>1. NoRow \in Row
    BY DEF NoRow, Row
  <2>2. TypeOK
    BY <2>1, EmptySeq DEF Init, TypeOK
  <2> QED
    BY <2>2 DEF TypeInv, Init, Exists, NoRow
<1>2. TypeInv => TypeOK
  BY DEF TypeInv
<1>3. QED
  BY <1>1, <1>2, TypeStep, PTL DEF Spec

-----------------------------------------------------------------------------
(* The row and its log.  RowFollowsAudit and EndedOnce are inductive         *)
(* together: the handlers ask the row whether the objective is open, and     *)
(* only RowFollowsAudit ties that to the last status event of the log.       *)

FollowsLog(row, log) ==
  /\ StatusAt(log, Len(log), row.status)
  /\ HolderAt(log, Len(log), row.assignee)
  /\ \A w \in Members : w \in row.watchers <=> WatcherAt(log, Len(log), w)
  /\ log[1].actor = row.originator

Ends(e)     == e.kind \in {"completed", "cancelled"}
Watching(e) == e.kind \in {"watcher_added", "watcher_removed"}

EndsOnce(log) ==
  \A i, j \in 1..Len(log) : i < j /\ Ends(log[i]) => Watching(log[j])

LogInv ==
  /\ TypeInv
  /\ \A o \in Ids : IF Exists(o)
                    THEN FollowsLog(objectives[o], audit[o]) /\ EndsOnce(audit[o])
                    ELSE audit[o] = <<>>

\* A log that leaves its objective open has no ending event.
LEMMA OpenHasNoEnd ==
  ASSUME NEW log \in Seq(Events), NEW s \in Open,
         StatusAt(log, Len(log), s), EndsOnce(log)
  PROVE  \A i \in 1..Len(log) : ~Ends(log[i])
<1>1. PICK k \in 1..Len(log) :
        /\ log[k].kind \in DOMAIN StatusAfter
        /\ s = StatusAfter[log[k].kind]
        /\ \A j \in 1..Len(log) : j > k => log[j].kind \notin DOMAIN StatusAfter
  BY DEF StatusAt
<1>2. Len(log) \in Nat
  BY LenProperties
<1>3. ~Ends(log[k]) /\ ~Watching(log[k])
  BY <1>1 DEF StatusAfter, Open, Ends, Watching
<1>4. ASSUME NEW i \in 1..Len(log), Ends(log[i])
      PROVE  FALSE
  <2>1. log[i].kind \in DOMAIN StatusAfter
    BY <1>4 DEF Ends, StatusAfter
  <2>2. i < k
    BY <1>1, <1>2, <1>3, <1>4, <2>1
  <2> QED
    BY <1>3, <1>4, <2>2 DEF EndsOnce
<1>5. QED
  BY <1>4

\* Appending to a log without an ending event, or only watcher events, keeps
\* the end unique.
LEMMA EndsOnceKept ==
  ASSUME NEW log \in Seq(Events), NEW evs \in Seq(Events), EndsOnce(log),
         \/ \A i \in 1..Len(evs) : Watching(evs[i])
         \/ Len(evs) = 1 /\ \A i \in 1..Len(log) : ~Ends(log[i])
  PROVE  EndsOnce(log \o evs)
<1> DEFINE all == log \o evs
           n   == Len(log)
           k   == Len(evs)
<1>1. n \in Nat /\ k \in Nat
  BY LenProperties
<1>2. /\ Len(all) = n + k
      /\ \A i \in 1..n : all[i] = log[i]
      /\ \A i \in n + 1 .. n + k : i - n \in 1..k /\ all[i] = evs[i - n]
  BY <1>1, PrefixKept
<1> HIDE DEF all, n, k
<1>3. SUFFICES ASSUME NEW i \in 1..n + k, NEW j \in 1..n + k, i < j, Ends(all[i])
               PROVE  Watching(all[j])
  BY <1>2 DEF EndsOnce, all
<1>4. CASE j \in 1..n
  BY <1>1, <1>2, <1>3, <1>4 DEF EndsOnce, n
<1>5. CASE j \in n + 1 .. n + k
  <2>1. CASE \A x \in 1..k : Watching(evs[x])
    BY <1>2, <1>5, <2>1
  <2>2. CASE k = 1 /\ \A x \in 1..n : ~Ends(log[x])
    <3>1. i \in 1..n
      BY <1>1, <1>3, <1>5, <2>2
    <3> QED
      BY <1>2, <1>3, <2>2, <3>1
  <2> QED
    BY <2>1, <2>2 DEF n, k
<1>6. QED
  BY <1>1, <1>4, <1>5

\* One event that is not about watchers, on an open objective: the row follows
\* if it changed as the event says.
LEMMA OneEventFollows ==
  ASSUME NEW log \in Seq(Events), NEW row, NEW next, NEW e \in Events,
         FollowsLog(row, log), EndsOnce(log), row.status \in Open,
         ~Watching(e),
         next.status = IF e.kind \in DOMAIN StatusAfter THEN StatusAfter[e.kind]
                       ELSE row.status,
         next.assignee = IF e.kind \in Handing THEN e.name ELSE row.assignee,
         next.watchers = row.watchers,
         next.originator = row.originator
  PROVE  FollowsLog(next, log \o <<e>>) /\ EndsOnce(log \o <<e>>)
<1> DEFINE all == log \o <<e>>
<1>1. <<e>> \in Seq(Events) /\ Len(<<e>>) = 1 /\ <<e>>[1] = e
  OBVIOUS
<1>2. StatusAt(all, Len(all), next.status)
  <2>1. CASE e.kind \in DOMAIN StatusAfter
    BY <2>1, StatusMoved
  <2>2. CASE e.kind \notin DOMAIN StatusAfter
    <3>1. \A i \in 1..Len(<<e>>) : <<e>>[i].kind \notin DOMAIN StatusAfter
      BY <1>1, <2>2
    <3> QED
      BY <1>1, <2>2, <3>1, StatusKept DEF FollowsLog
  <2> QED
    BY <2>1, <2>2
<1>3. HolderAt(all, Len(all), next.assignee)
  <2>1. CASE e.kind \in Handing
    BY <2>1, HolderMoved
  <2>2. CASE e.kind \notin Handing
    <3>1. \A i \in 1..Len(<<e>>) : <<e>>[i].kind \notin Handing
      BY <1>1, <2>2
    <3> QED
      BY <1>1, <2>2, <3>1, HolderKept DEF FollowsLog
  <2> QED
    BY <2>1, <2>2
<1>4. ASSUME NEW w \in Members
      PROVE  w \in next.watchers <=> WatcherAt(all, Len(all), w)
  <2>1. \A i \in 1..Len(<<e>>) : ~Adds(<<e>>[i], w) /\ ~Drops(<<e>>[i], w)
    BY <1>1 DEF Watching, Adds, Drops
  <2>2. WatcherAt(all, Len(all), w) <=> WatcherAt(log, Len(log), w)
    BY <1>1, <2>1, WatcherAfter
  <2> QED
    BY <2>2 DEF FollowsLog
<1>5. all[1].actor = next.originator
  <2>1. Len(log) \in Nat /\ 1 \in 1..Len(log)
    BY LenProperties DEF FollowsLog, StatusAt
  <2>2. all[1] = log[1]
    BY <1>1, <2>1, PrefixKept
  <2> QED
    BY <2>2 DEF FollowsLog
<1>6. EndsOnce(all)
  BY <1>1, OpenHasNoEnd, EndsOnceKept DEF FollowsLog
<1>7. QED
  BY <1>2, <1>3, <1>4, <1>5, <1>6 DEF FollowsLog

\* A batch of watcher events, on an objective in any status.
LEMMA WatcherBatchFollows ==
  ASSUME NEW log \in Seq(Events), NEW row, NEW next,
         NEW by \in Members, NEW add \in SUBSET Members, NEW drop \in SUBSET Members,
         NEW evs \in WatcherEvents(by, add, drop), add \cap drop = {},
         FollowsLog(row, log), EndsOnce(log),
         next.status = row.status, next.assignee = row.assignee,
         next.originator = row.originator,
         next.watchers = (row.watchers \ drop) \cup add
  PROVE  FollowsLog(next, log \o evs) /\ EndsOnce(log \o evs)
<1> DEFINE all == log \o evs
<1>0. BatchFor(evs, by, add, drop)
  BY WatcherBatch
<1>1. /\ evs \in Seq(Events)
      /\ \A i \in 1..Len(evs) : Watching(evs[i])
  BY <1>0 DEF BatchFor, Watching
<1>2. StatusAt(all, Len(all), next.status)
  <2>1. \A i \in 1..Len(evs) : evs[i].kind \notin DOMAIN StatusAfter
    BY <1>1 DEF Watching, StatusAfter
  <2> QED
    BY <1>1, <2>1, StatusKept DEF FollowsLog
<1>3. HolderAt(all, Len(all), next.assignee)
  <2>1. \A i \in 1..Len(evs) : evs[i].kind \notin Handing
    BY <1>1 DEF Watching, Handing
  <2> QED
    BY <1>1, <2>1, HolderKept DEF FollowsLog
<1>4. ASSUME NEW w \in Members
      PROVE  w \in next.watchers <=> WatcherAt(all, Len(all), w)
  <2>1. (\E i \in 1..Len(evs) : Adds(evs[i], w)) <=> w \in add
    BY <1>0 DEF BatchFor, Adds
  <2>2. (\E i \in 1..Len(evs) : Drops(evs[i], w)) <=> w \in drop
    BY <1>0 DEF BatchFor, Drops
  <2>3. WatcherAt(all, Len(all), w) <=>
          \/ \E i \in 1..Len(evs) : Adds(evs[i], w)
          \/ /\ WatcherAt(log, Len(log), w)
             /\ \A i \in 1..Len(evs) : ~Drops(evs[i], w)
    BY <1>1, <2>1, <2>2, WatcherAfter
  <2> QED
    BY <2>1, <2>2, <2>3 DEF FollowsLog
<1>5. all[1].actor = next.originator
  <2>1. Len(log) \in Nat /\ 1 \in 1..Len(log)
    BY LenProperties DEF FollowsLog, StatusAt
  <2>2. all[1] = log[1]
    BY <1>1, <2>1, PrefixKept
  <2> QED
    BY <2>2 DEF FollowsLog
<1>6. EndsOnce(all)
  BY <1>1, EndsOnceKept
<1>7. QED
  BY <1>2, <1>3, <1>4, <1>5, <1>6 DEF FollowsLog

RowsFollow == \A o \in Ids : IF Exists(o)
                             THEN FollowsLog(objectives[o], audit[o]) /\ EndsOnce(audit[o])
                             ELSE audit[o] = <<>>

\* A commit that gives one objective a row its new log accounts for.
LEMMA CommitFollows ==
  ASSUME LogInv, NEW o \in Ids, NEW row, NEW evs, Commit(o, row, evs),
         row.status # Absent,
         FollowsLog(row, audit[o] \o evs), EndsOnce(audit[o] \o evs)
  PROVE  RowsFollow'
<1>1. /\ objectives'[o] = row /\ audit'[o] = audit[o] \o evs
      /\ \A p \in Ids \ {o} : objectives'[p] = objectives[p] /\ audit'[p] = audit[p]
  BY DEF Commit, LogInv, TypeInv, TypeOK
<1>2. FollowsLog(objectives'[o], audit'[o]) /\ EndsOnce(audit'[o]) /\ Exists(o)'
  BY <1>1 DEF Exists
<1>3. ASSUME NEW p \in Ids \ {o}
      PROVE  IF Exists(p)'
             THEN FollowsLog(objectives'[p], audit'[p]) /\ EndsOnce(audit'[p])
             ELSE audit'[p] = <<>>
  BY <1>1 DEF LogInv, Exists
<1>4. QED
  BY <1>2, <1>3 DEF RowsFollow

\* A step that commits nothing.
LEMMA NoCommit ==
  ASSUME LogInv, UNCHANGED <<objectives, audit>>
  PROVE  RowsFollow'
  BY DEF LogInv, RowsFollow, Exists

\* An open objective that commits one event, not about watchers.
LEMMA OneEventCommit ==
  ASSUME LogInv, NEW o \in Ids, NEW e \in Events, NEW next, IsOpen(o),
         Commit(o, next, <<e>>), ~Watching(e),
         next.status = IF e.kind \in DOMAIN StatusAfter THEN StatusAfter[e.kind]
                       ELSE objectives[o].status,
         next.assignee = IF e.kind \in Handing THEN e.name ELSE objectives[o].assignee,
         next.watchers = objectives[o].watchers,
         next.originator = objectives[o].originator
  PROVE  RowsFollow'
<1>1. Exists(o) /\ objectives[o].status \in Open
  BY DEF IsOpen, Exists, Open, Absent
<1>2. FollowsLog(objectives[o], audit[o]) /\ EndsOnce(audit[o]) /\ audit[o] \in Seq(Events)
  BY <1>1 DEF LogInv, TypeInv, TypeOK
<1>3. FollowsLog(next, audit[o] \o <<e>>) /\ EndsOnce(audit[o] \o <<e>>)
  BY <1>1, <1>2, OneEventFollows
<1>4. next.status # Absent
  BY <1>1 DEF StatusAfter, Absent, Open
<1>5. QED
  BY <1>3, <1>4, CommitFollows

\* Every step keeps each row and its log together and each end unique.
LEMMA LogStep == LogInv /\ [Next]_vars => LogInv'
<1> SUFFICES ASSUME LogInv, [Next]_vars
             PROVE  RowsFollow'
  BY TypeStep DEF LogInv, RowsFollow
<1> \A r \in inflight : r.obj \in Ids /\ r.by \in Members
  BY DEF LogInv, TypeInv, TypeOK, Requests
<1>1. ASSUME NEW o \in Ids, NEW by \in Members, NEW assignee \in Members,
             NEW names \in NameLists, Create(o, by, assignee, names)
      PROVE  RowsFollow'
  <2> DEFINE watchers == names \ {assignee, by}
             row == [status |-> "active", assignee |-> assignee, originator |-> by,
                     watchers |-> watchers, blockReason |-> NoReason]
             bare == [row EXCEPT !.watchers = {}]
             first == Event("assigned", by, assignee, Nobody)
  <2>1. PICK added \in WatcherEvents(by, watchers, {}) : Commit(o, row, <<first>> \o added)
    BY <1>1 DEF Create, Mutate
  <2>2. first \in Events /\ first.kind = "assigned" /\ first.name = assignee
        /\ first.actor = by
    BY DEF Event, Events, EventKinds
  <2>3. watchers \in SUBSET Members
    BY DEF NameLists
  <2>4. /\ row.status = "active" /\ row.assignee = assignee /\ row.originator = by
        /\ row.watchers = watchers
        /\ bare.status = "active" /\ bare.assignee = assignee /\ bare.originator = by
        /\ bare.watchers = {}
    OBVIOUS
  <2>5. audit[o] = <<>>
    BY <1>1 DEF Create, LogInv
  <2> HIDE DEF watchers, row, bare, first
  <2>6. <<first>> \in Seq(Events) /\ Len(<<first>>) = 1 /\ <<first>>[1] = first
    BY <2>2
  <2>7. FollowsLog(bare, <<first>>) /\ EndsOnce(<<first>>)
    <3>1. StatusAt(<<first>>, 1, "active") /\ HolderAt(<<first>>, 1, assignee)
      BY <2>2, <2>6 DEF StatusAt, HolderAt, StatusAfter, Handing
    <3>2. \A w \in Members : ~WatcherAt(<<first>>, 1, w)
      BY <2>2, <2>6 DEF WatcherAt
    <3>3. EndsOnce(<<first>>)
      BY <2>6 DEF EndsOnce
    <3> QED
      BY <2>2, <2>4, <2>6, <3>1, <3>2, <3>3 DEF FollowsLog
  <2>8. FollowsLog(row, <<first>> \o added) /\ EndsOnce(<<first>> \o added)
    <3>1. watchers \cap {} = {} /\ {} \in SUBSET Members
          /\ row.watchers = (bare.watchers \ {}) \cup watchers
      BY <2>4
    <3> QED
      BY <2>1, <2>3, <2>4, <2>6, <2>7, <3>1, WatcherBatchFollows
  <2>9. added \in Seq(Events)
    BY <2>1, <2>3, WatcherBatch DEF BatchFor
  <2>10. <<first>> \o added \in Seq(Events)
    BY <2>6, <2>9, ConcatProperties
  <2>11. audit[o] \o (<<first>> \o added) = <<first>> \o added
    BY <2>5, <2>10, ConcatEmptySeq
  <2>12. row.status # Absent
    BY <2>4 DEF Absent
  <2> QED
    BY <2>1, <2>8, <2>11, <2>12, CommitFollows
<1>2. ASSUME NEW o \in Ids, NEW m \in Members,
             BeginUpdate(o, m) \/ BeginComplete(o, m) \/ BeginDiscuss(o, m)
      PROVE  RowsFollow'
  BY <1>2, NoCommit DEF BeginUpdate, BeginComplete, BeginDiscuss, Accept
<1>3. ASSUME NEW r \in inflight, Refuse(r) \/ Discuss(r)
      PROVE  RowsFollow'
  BY <1>3, NoCommit DEF Refuse, Discuss
<1>4. ASSUME NEW r \in inflight, NEW reason \in Reasons, Block(r, reason)
      PROVE  RowsFollow'
  <2> DEFINE o == r.obj
             row == [objectives[o] EXCEPT !.status = "blocked", !.blockReason = reason]
             e == Event("blocked", r.by, Nobody, Nobody)
  <2>1. GoodRow(objectives[o]) /\ IsOpen(o)
    BY <1>4 DEF Block, IsOpen, Open, LogInv, TypeInv, Exists, Absent
  <2>2. /\ row.status = "blocked" /\ row.assignee = objectives[o].assignee
        /\ row.watchers = objectives[o].watchers
        /\ row.originator = objectives[o].originator
    BY <2>1 DEF GoodRow, Row
  <2>3. CASE objectives[o].status = "blocked"
    <3>1. Commit(o, row, <<>>)
      BY <1>4, <2>3 DEF Block, Mutate
    <3>2. audit[o] \in Seq(Events) /\ audit[o] \o <<>> = audit[o]
      BY ConcatEmptySeq DEF LogInv, TypeInv, TypeOK
    <3>3. FollowsLog(objectives[o], audit[o]) /\ EndsOnce(audit[o])
      BY <2>3 DEF LogInv, Exists, Absent
    <3>4. FollowsLog(row, audit[o]) /\ row.status # Absent
      BY <2>2, <2>3, <3>3 DEF FollowsLog, Absent
    <3> QED
      BY <3>1, <3>2, <3>3, <3>4, CommitFollows
  <2>4. CASE objectives[o].status # "blocked"
    <3>1. Commit(o, row, <<e>>)
      BY <1>4, <2>4 DEF Block, Mutate
    <3>2. e \in Events /\ e.kind = "blocked" /\ ~Watching(e)
      BY DEF Event, Events, EventKinds, Watching
    <3>3. e.kind \in DOMAIN StatusAfter /\ StatusAfter[e.kind] = "blocked"
          /\ e.kind \notin Handing
      BY <3>2 DEF StatusAfter, Handing
    <3> HIDE DEF e, row
    <3> QED
      BY <2>1, <2>2, <3>1, <3>2, <3>3, OneEventCommit
  <2> QED
    BY <2>3, <2>4
<1>5. ASSUME NEW r \in inflight, Unblock(r)
      PROVE  RowsFollow'
  <2> DEFINE o == r.obj
             row == [objectives[o] EXCEPT !.status = "active", !.blockReason = NoReason]
             e == Event("unblocked", r.by, Nobody, Nobody)
  <2>1. GoodRow(objectives[o]) /\ IsOpen(o) /\ Commit(o, row, <<e>>)
    BY <1>5 DEF Unblock, Mutate, IsOpen, Open, LogInv, TypeInv, Exists, Absent
  <2>2. /\ row.status = "active" /\ row.assignee = objectives[o].assignee
        /\ row.watchers = objectives[o].watchers
        /\ row.originator = objectives[o].originator
    BY <2>1 DEF GoodRow, Row
  <2>3. e \in Events /\ e.kind = "unblocked" /\ ~Watching(e)
    BY DEF Event, Events, EventKinds, Watching
  <2>4. e.kind \in DOMAIN StatusAfter /\ StatusAfter[e.kind] = "active"
        /\ e.kind \notin Handing
    BY <2>3 DEF StatusAfter, Handing
  <2> HIDE DEF e, row
  <2> QED
    BY <2>1, <2>2, <2>3, <2>4, OneEventCommit
<1>6. ASSUME NEW r \in inflight, Complete(r)
      PROVE  RowsFollow'
  <2> DEFINE o == r.obj
             row == [objectives[o] EXCEPT !.status = "done", !.blockReason = NoReason]
             e == Event("completed", r.by, Nobody, Nobody)
  <2>1. GoodRow(objectives[o]) /\ IsOpen(o) /\ Commit(o, row, <<e>>)
    BY <1>6 DEF Complete, Mutate, IsOpen, Open, LogInv, TypeInv, Exists, Absent
  <2>2. /\ row.status = "done" /\ row.assignee = objectives[o].assignee
        /\ row.watchers = objectives[o].watchers
        /\ row.originator = objectives[o].originator
    BY <2>1 DEF GoodRow, Row
  <2>3. e \in Events /\ e.kind = "completed" /\ ~Watching(e)
    BY DEF Event, Events, EventKinds, Watching
  <2>4. e.kind \in DOMAIN StatusAfter /\ StatusAfter[e.kind] = "done"
        /\ e.kind \notin Handing
    BY <2>3 DEF StatusAfter, Handing
  <2> HIDE DEF e, row
  <2> QED
    BY <2>1, <2>2, <2>3, <2>4, OneEventCommit
<1>7. ASSUME NEW o \in Ids, NEW m \in Members, Cancel(o, m)
      PROVE  RowsFollow'
  <2> DEFINE row == [objectives[o] EXCEPT !.status = "cancelled"]
             e == Event("cancelled", m, Nobody, Nobody)
  <2>1. GoodRow(objectives[o]) /\ IsOpen(o) /\ Commit(o, row, <<e>>)
    BY <1>7 DEF Cancel, Mutate, LogInv, TypeInv
  <2>2. /\ row.status = "cancelled" /\ row.assignee = objectives[o].assignee
        /\ row.watchers = objectives[o].watchers
        /\ row.originator = objectives[o].originator
    BY <2>1 DEF GoodRow, Row
  <2>3. e \in Events /\ e.kind = "cancelled" /\ ~Watching(e)
    BY DEF Event, Events, EventKinds, Watching
  <2>4. e.kind \in DOMAIN StatusAfter /\ StatusAfter[e.kind] = "cancelled"
        /\ e.kind \notin Handing
    BY <2>3 DEF StatusAfter, Handing
  <2> HIDE DEF e, row
  <2> QED
    BY <2>1, <2>2, <2>3, <2>4, OneEventCommit
<1>8. ASSUME NEW o \in Ids, NEW m \in Members, NEW to \in Members, Reassign(o, m, to)
      PROVE  RowsFollow'
  <2> DEFINE row == [objectives[o] EXCEPT !.assignee = to]
             e == Event("reassigned", m, to, objectives[o].assignee)
  <2>1. GoodRow(objectives[o]) /\ IsOpen(o) /\ Commit(o, row, <<e>>)
    BY <1>8 DEF Reassign, Mutate, IsOpen, Open, LogInv, TypeInv, Exists, Absent
  <2>2. /\ row.status = objectives[o].status /\ row.assignee = to
        /\ row.watchers = objectives[o].watchers
        /\ row.originator = objectives[o].originator
    BY <2>1 DEF GoodRow, Row
  <2>3. e \in Events /\ e.kind = "reassigned" /\ e.name = to /\ ~Watching(e)
    BY <2>1 DEF Event, Events, EventKinds, Watching, GoodRow
  <2>4. e.kind \notin DOMAIN StatusAfter /\ e.kind \in Handing
    BY <2>3 DEF StatusAfter, Handing
  <2> HIDE DEF e, row
  <2> QED
    BY <2>1, <2>2, <2>3, <2>4, OneEventCommit
<1>9. ASSUME NEW o \in Ids, NEW m \in Members, NEW add \in NameLists,
             NEW remove \in NameLists, UpdateWatchers(o, m, add, remove)
      PROVE  RowsFollow'
  <2> DEFINE old  == objectives[o]
             new  == add \ ({old.assignee, old.originator} \cup old.watchers)
             gone == remove \cap old.watchers
             row  == [old EXCEPT !.watchers = (@ \ gone) \cup new]
  <2>1. GoodRow(old) /\ Exists(o)
    BY <1>9 DEF UpdateWatchers, LogInv, TypeInv
  <2>2. new \in SUBSET Members /\ gone \in SUBSET Members /\ new \cap gone = {}
    BY <2>1 DEF NameLists
  <2>3. PICK evs \in WatcherEvents(m, new, gone) : Commit(o, row, evs)
    BY <1>9 DEF UpdateWatchers, Mutate
  <2>4. /\ row.status = old.status /\ row.assignee = old.assignee
        /\ row.originator = old.originator
        /\ row.watchers = (old.watchers \ gone) \cup new
    BY <2>1 DEF GoodRow, Row
  <2>5. FollowsLog(old, audit[o]) /\ EndsOnce(audit[o]) /\ audit[o] \in Seq(Events)
    BY <2>1 DEF LogInv, TypeInv, TypeOK
  <2> HIDE DEF old, new, gone, row
  <2>6. FollowsLog(row, audit[o] \o evs) /\ EndsOnce(audit[o] \o evs)
    BY <2>2, <2>3, <2>4, <2>5, WatcherBatchFollows
  <2>7. row.status # Absent
    BY <2>1, <2>4 DEF Exists, old
  <2> QED
    BY <2>3, <2>6, <2>7, CommitFollows
<1>10. ASSUME Publish \/ Crash \/ UNCHANGED vars
       PROVE  RowsFollow'
  BY <1>10, NoCommit DEF Publish, Crash, vars
<1>11. QED
  BY <1>1, <1>2, <1>3, <1>4, <1>5, <1>6, <1>7, <1>8, <1>9, <1>10 DEF Next

LEMMA LogInvInit == Init => LogInv
<1> SUFFICES ASSUME Init PROVE LogInv
  OBVIOUS
<1>1. NoRow \in Row
  BY DEF NoRow, Row
<1>2. TypeOK
  BY <1>1, EmptySeq DEF Init, TypeOK
<1>3. QED
  BY <1>2 DEF LogInv, TypeInv, Init, Exists, NoRow

LEMMA LogInvAlways == Spec => []LogInv
  BY LogInvInit, LogStep, PTL DEF Spec

\* The audit log is the whole history: status, assignee, watchers and
\* originator of every row can be rebuilt from objective_events.
THEOREM AuditIsTheHistory == Spec => []RowFollowsAudit
<1>1. LogInv => RowFollowsAudit
  <2> SUFFICES ASSUME LogInv, NEW o \in Ids
               PROVE  IF Exists(o)
                      THEN FollowsLog(objectives[o], audit[o])
                      ELSE Len(audit[o]) = 0
    BY DEF RowFollowsAudit, FollowsLog
  <2> QED
    BY DEF LogInv
<1>2. QED
  BY <1>1, LogInvAlways, PTL

\* An objective ends once: no race of complete, cancel, update and reassign
\* adds anything but watcher events after the event that ended it.
THEOREM EndsAreFinal == Spec => []EndedOnce
<1>1. LogInv => EndedOnce
  <2> SUFFICES ASSUME LogInv, NEW o \in Ids
               PROVE  EndsOnce(audit[o]) /\ DOMAIN audit[o] = 1..Len(audit[o])
    BY DEF EndedOnce, EndsOnce, Ends, Watching
  <2>1. audit[o] \in Seq(Events)
    BY DEF LogInv, TypeInv, TypeOK
  <2>2. CASE audit[o] = <<>>
    BY <2>2 DEF EndsOnce
  <2> QED
    BY <2>1, <2>2, LenProperties DEF LogInv
<1>2. QED
  BY <1>1, LogInvAlways, PTL

-----------------------------------------------------------------------------
(* The refinement: requests, logs and pushes are invisible to the lifecycle. *)

StatusOf   == [o \in Ids |-> objectives[o].status]
AssigneeOf == [o \in Ids |-> objectives[o].assignee]

\* A commit shows in the lifecycle as the change of one status and assignee.
LEMMA CommitSeen ==
  ASSUME TypeInv, NEW o \in Ids, NEW row, NEW evs, Commit(o, row, evs)
  PROVE  /\ StatusOf' = [StatusOf EXCEPT ![o] = row.status]
         /\ AssigneeOf' = [AssigneeOf EXCEPT ![o] = row.assignee]
  BY DEF Commit, TypeInv, TypeOK, StatusOf, AssigneeOf

\* A commit that moves the status and keeps the assignee.
LEMMA MoveSeen ==
  ASSUME TypeInv, NEW o \in Ids, NEW row, NEW evs, Commit(o, row, evs),
         row.assignee = objectives[o].assignee
  PROVE  /\ StatusOf' = [StatusOf EXCEPT ![o] = row.status]
         /\ AssigneeOf' = AssigneeOf
<1>1. AssigneeOf' = [AssigneeOf EXCEPT ![o] = objectives[o].assignee]
  BY CommitSeen
<1>2. QED
  BY <1>1, CommitSeen DEF AssigneeOf

LEMMA LifecycleStep == TypeInv /\ [Next]_vars => [Abstract!Next]_(Abstract!lifecycle)
<1> SUFFICES ASSUME TypeInv, [Next]_vars
             PROVE  Abstract!Next \/ UNCHANGED <<StatusOf, AssigneeOf>>
  BY DEF Abstract!lifecycle, StatusOf, AssigneeOf
<1> \A r \in inflight : r.obj \in Ids
  BY DEF TypeInv, TypeOK, Requests
<1> \A o \in Ids : StatusOf[o] = objectives[o].status
                /\ AssigneeOf[o] = objectives[o].assignee
  BY DEF StatusOf, AssigneeOf
<1>1. ASSUME NEW o \in Ids, NEW by \in Members, NEW assignee \in Members,
             NEW names \in NameLists, Create(o, by, assignee, names)
      PROVE  Abstract!Assign(o, assignee)
  <2> DEFINE row == [status |-> "active", assignee |-> assignee, originator |-> by,
                     watchers |-> names \ {assignee, by}, blockReason |-> NoReason]
  <2>1. PICK evs : Commit(o, row, evs)
    BY <1>1 DEF Create, Mutate
  <2>2. row.status = "active" /\ row.assignee = assignee
    OBVIOUS
  <2> HIDE DEF row
  <2>3. StatusOf[o] = "absent"
    BY <1>1 DEF Create, Exists, Absent
  <2>4. StatusOf' = [StatusOf EXCEPT ![o] = "active"]
        /\ AssigneeOf' = [AssigneeOf EXCEPT ![o] = assignee]
    BY <2>1, <2>2, CommitSeen
  <2>5. QED
    BY <2>3, <2>4 DEF Abstract!Assign, StatusOf, AssigneeOf
<1>2. ASSUME NEW r \in inflight, NEW reason \in Reasons, Block(r, reason)
      PROVE  Abstract!Move(r.obj, {"active"}, "blocked") \/ UNCHANGED <<StatusOf, AssigneeOf>>
  <2> DEFINE o == r.obj
             row == [objectives[o] EXCEPT !.status = "blocked", !.blockReason = reason]
  <2>1. PICK evs : Commit(o, row, evs)
    BY <1>2 DEF Block, Mutate
  <2>2. row.status = "blocked" /\ row.assignee = objectives[o].assignee
    BY DEF TypeInv, TypeOK, Row
  <2> HIDE DEF row
  <2>3. StatusOf' = [StatusOf EXCEPT ![o] = "blocked"] /\ AssigneeOf' = AssigneeOf
    BY <2>1, <2>2, MoveSeen
  <2>4. CASE StatusOf[o] = "blocked"
    BY <2>3, <2>4 DEF StatusOf
  <2>5. CASE StatusOf[o] = "active"
    BY <2>3, <2>5 DEF Abstract!Move, StatusOf, AssigneeOf
  <2>6. QED
    BY <1>2, <2>4, <2>5 DEF Block, IsOpen, Open
<1>3. ASSUME NEW r \in inflight, Unblock(r)
      PROVE  Abstract!Move(r.obj, {"blocked"}, "active")
  <2> DEFINE o == r.obj
             row == [objectives[o] EXCEPT !.status = "active", !.blockReason = NoReason]
  <2>1. PICK evs : Commit(o, row, evs)
    BY <1>3 DEF Unblock, Mutate
  <2>2. row.status = "active" /\ row.assignee = objectives[o].assignee
    BY DEF TypeInv, TypeOK, Row
  <2>3. StatusOf[o] = "blocked"
    BY <1>3 DEF Unblock
  <2> HIDE DEF row
  <2>4. QED
    BY <2>1, <2>2, <2>3, MoveSeen DEF Abstract!Move, StatusOf, AssigneeOf
<1>4. ASSUME NEW r \in inflight, Complete(r)
      PROVE  Abstract!Move(r.obj, {"active", "blocked"}, "done")
  <2> DEFINE o == r.obj
             row == [objectives[o] EXCEPT !.status = "done", !.blockReason = NoReason]
  <2>1. PICK evs : Commit(o, row, evs)
    BY <1>4 DEF Complete, Mutate
  <2>2. row.status = "done" /\ row.assignee = objectives[o].assignee
    BY DEF TypeInv, TypeOK, Row
  <2>3. StatusOf[o] \in {"active", "blocked"}
    BY <1>4 DEF Complete, IsOpen, Open
  <2> HIDE DEF row
  <2>4. QED
    BY <2>1, <2>2, <2>3, MoveSeen DEF Abstract!Move, StatusOf, AssigneeOf
<1>5. ASSUME NEW o \in Ids, NEW m \in Members, Cancel(o, m)
      PROVE  Abstract!Move(o, {"active", "blocked"}, "cancelled")
  <2> DEFINE row == [objectives[o] EXCEPT !.status = "cancelled"]
  <2>1. PICK evs : Commit(o, row, evs)
    BY <1>5 DEF Cancel, Mutate
  <2>2. row.status = "cancelled" /\ row.assignee = objectives[o].assignee
    BY DEF TypeInv, TypeOK, Row
  <2>3. StatusOf[o] \in {"active", "blocked"}
    BY <1>5 DEF Cancel, IsOpen, Open
  <2> HIDE DEF row
  <2>4. QED
    BY <2>1, <2>2, <2>3, MoveSeen DEF Abstract!Move, StatusOf, AssigneeOf
<1>6. ASSUME NEW o \in Ids, NEW m \in Members, NEW to \in Members, Reassign(o, m, to)
      PROVE  Abstract!HandOver(o, to)
  <2> DEFINE row == [objectives[o] EXCEPT !.assignee = to]
  <2>1. PICK evs : Commit(o, row, evs)
    BY <1>6 DEF Reassign, Mutate
  <2>2. row.status = objectives[o].status /\ row.assignee = to
    BY DEF TypeInv, TypeOK, Row
  <2>3. StatusOf[o] \in {"active", "blocked"} /\ to # AssigneeOf[o]
    BY <1>6 DEF Reassign, IsOpen, Open
  <2> HIDE DEF row
  <2>4. StatusOf' = [StatusOf EXCEPT ![o] = StatusOf[o]]
        /\ AssigneeOf' = [AssigneeOf EXCEPT ![o] = to]
    BY <2>1, <2>2, CommitSeen
  <2>5. StatusOf' = StatusOf
    BY <2>4 DEF StatusOf
  <2>6. QED
    BY <2>3, <2>4, <2>5 DEF Abstract!HandOver, Abstract!IsOpen, StatusOf, AssigneeOf
<1>7. ASSUME NEW o \in Ids, NEW m \in Members, NEW add \in NameLists,
             NEW remove \in NameLists, UpdateWatchers(o, m, add, remove)
      PROVE  UNCHANGED <<StatusOf, AssigneeOf>>
  <2>1. PICK W, evs : Commit(o, [objectives[o] EXCEPT !.watchers = W], evs)
    BY <1>7 DEF UpdateWatchers, Mutate
  <2> DEFINE row == [objectives[o] EXCEPT !.watchers = W]
  <2>2. row.status = objectives[o].status /\ row.assignee = objectives[o].assignee
    BY DEF TypeInv, TypeOK, Row
  <2> HIDE DEF row
  <2>3. StatusOf' = [StatusOf EXCEPT ![o] = StatusOf[o]] /\ AssigneeOf' = AssigneeOf
    BY <2>1, <2>2, MoveSeen DEF row
  <2>4. QED
    BY <2>3 DEF StatusOf
<1>8. ASSUME \/ \E o \in Ids, m \in Members :
                  BeginUpdate(o, m) \/ BeginComplete(o, m) \/ BeginDiscuss(o, m)
             \/ \E r \in inflight : Refuse(r) \/ Discuss(r)
             \/ Publish \/ Crash \/ UNCHANGED vars
      PROVE  UNCHANGED <<StatusOf, AssigneeOf>>
  <2>1. UNCHANGED objectives
    BY <1>8 DEF BeginUpdate, BeginComplete, BeginDiscuss, Accept, Refuse, Discuss,
                Publish, Crash, vars
  <2> QED
    BY <2>1 DEF StatusOf, AssigneeOf
<1>9. QED
  BY <1>1, <1>2, <1>3, <1>4, <1>5, <1>6, <1>7, <1>8 DEF Next, Abstract!Next

\* The service implements the four-state lifecycle with one assignee, for any
\* number of members, objectives and requests in flight.
THEOREM LifecycleImplemented == Spec => ImplementsLifecycle
<1>1. Init => Abstract!Init
  BY DEF Init, NoRow, Absent, Abstract!Init
<1>2. TypeInv /\ [Next]_vars => [Abstract!Next]_(Abstract!lifecycle)
  BY LifecycleStep
<1>3. Spec => []TypeInv
  <2>1. LogInv => TypeInv
    BY DEF LogInv
  <2> QED
    BY <2>1, LogInvAlways, PTL
<1>4. QED
  BY <1>1, <1>2, <1>3, PTL DEF Spec, ImplementsLifecycle, Abstract!Spec

-----------------------------------------------------------------------------
(* Entitlement.  The check happened before the await; what survives it is    *)
(* that the log, which only grows, still shows who held the objective.       *)

MayEnd(log, m)    == HeldBefore(log, Len(log), m)
MayUpdate(log, m) == MayEnd(log, m) \/ m \in Cancellers

EntitledLog(log) ==
  \A i \in 1..Len(log) :
    /\ log[i].kind = "completed" => HeldBefore(log, i - 1, log[i].actor)
    /\ log[i].kind \in {"blocked", "unblocked"} =>
         HeldBefore(log, i - 1, log[i].actor) \/ log[i].actor \in Cancellers

EntitledInv ==
  /\ \A o \in Ids : EntitledLog(audit[o])
  /\ \A r \in inflight :
       /\ r.op = "complete" => MayEnd(audit[r.obj], r.by)
       /\ r.op = "update" => MayUpdate(audit[r.obj], r.by)

\* One batch: entitled if each of its events is, by the log before it.
EntitledBatch(log, evs) ==
  \A i \in 1..Len(evs) :
    /\ evs[i].kind = "completed" => MayEnd(log, evs[i].actor)
    /\ evs[i].kind \in {"blocked", "unblocked"} => MayUpdate(log, evs[i].actor)

\* A longer log only knows more holders.
LEMMA HeldStays ==
  ASSUME NEW log \in Seq(Events), NEW evs \in Seq(Events), NEW m,
         NEW n \in 0..Len(log), NEW k \in Nat, n <= k, HeldBefore(log, n, m)
  PROVE  HeldBefore(log \o evs, k, m)
<1>1. PICK i \in 1..n : log[i].kind \in Handing /\ log[i].name = m
  BY DEF HeldBefore
<1>2. Len(log) \in Nat /\ i \in 1..Len(log) /\ i \in 1..k
  BY LenProperties
<1>3. (log \o evs)[i] = log[i]
  BY <1>2, PrefixKept
<1>4. QED
  BY <1>1, <1>2, <1>3 DEF HeldBefore

LEMMA EntitledKept ==
  ASSUME NEW log \in Seq(Events), NEW evs \in Seq(Events),
         EntitledLog(log), EntitledBatch(log, evs)
  PROVE  EntitledLog(log \o evs)
<1> DEFINE all == log \o evs
           n   == Len(log)
           k   == Len(evs)
<1>1. n \in Nat /\ k \in Nat /\ n \in 0..n
  BY LenProperties
<1>2. /\ Len(all) = n + k
      /\ \A i \in 1..n : all[i] = log[i]
      /\ \A i \in n + 1 .. n + k : i - n \in 1..k /\ all[i] = evs[i - n]
  BY <1>1, PrefixKept
<1>3. ASSUME NEW j \in 0..n, NEW m, HeldBefore(log, j, m)
      PROVE  \A x \in Nat : x >= j => HeldBefore(all, x, m)
  BY <1>1, <1>3, HeldStays
<1> HIDE DEF all, n, k
<1>4. SUFFICES ASSUME NEW i \in 1..n + k
               PROVE  /\ all[i].kind = "completed" => HeldBefore(all, i - 1, all[i].actor)
                      /\ all[i].kind \in {"blocked", "unblocked"} =>
                           \/ HeldBefore(all, i - 1, all[i].actor)
                           \/ all[i].actor \in Cancellers
  BY <1>2 DEF EntitledLog, all
<1>5. CASE i \in 1..n
  <2>1. i - 1 \in 0..n /\ i - 1 \in Nat /\ i - 1 >= i - 1 /\ all[i] = log[i]
    BY <1>1, <1>2, <1>5
  <2> QED
    BY <1>3, <1>5, <2>1 DEF EntitledLog, n
<1>6. CASE i \in n + 1 .. n + k
  <2>1. n \in 0..n /\ i - 1 \in Nat /\ i - 1 >= n /\ i - n \in 1..k /\ all[i] = evs[i - n]
    BY <1>1, <1>2, <1>6
  <2>2. /\ all[i].kind = "completed" => HeldBefore(log, n, all[i].actor)
        /\ all[i].kind \in {"blocked", "unblocked"} =>
             HeldBefore(log, n, all[i].actor) \/ all[i].actor \in Cancellers
    BY <2>1 DEF EntitledBatch, MayEnd, MayUpdate, n, k
  <2> QED
    BY <1>3, <2>1, <2>2
<1>7. QED
  BY <1>1, <1>4, <1>5, <1>6

\* An entitled commit keeps every log and every waiting request entitled.
LEMMA EntitledCommit ==
  ASSUME TypeInv, EntitledInv, NEW o \in Ids, NEW row, NEW evs \in Seq(Events),
         Commit(o, row, evs), EntitledBatch(audit[o], evs), inflight' \subseteq inflight
  PROVE  EntitledInv'
<1>1. /\ audit'[o] = audit[o] \o evs
      /\ \A p \in Ids \ {o} : audit'[p] = audit[p]
  BY DEF Commit, TypeInv, TypeOK
<1>2. audit[o] \in Seq(Events)
  BY DEF TypeInv, TypeOK
<1>3. EntitledLog(audit'[o])
  BY <1>1, <1>2, EntitledKept DEF EntitledInv
<1>4. \A p \in Ids : EntitledLog(audit'[p])
  BY <1>1, <1>3 DEF EntitledInv
<1>5. ASSUME NEW m, MayEnd(audit[o], m)
      PROVE  MayEnd(audit'[o], m)
  <2>1. /\ Len(audit[o]) \in 0..Len(audit[o])
        /\ Len(audit'[o]) \in Nat /\ Len(audit[o]) <= Len(audit'[o])
    BY <1>1, <1>2, ConcatProperties, LenProperties
  <2> QED
    BY <1>1, <1>2, <1>5, <2>1, HeldStays DEF MayEnd
<1>6. ASSUME NEW r \in inflight'
      PROVE  /\ r.op = "complete" => MayEnd(audit'[r.obj], r.by)
             /\ r.op = "update" => MayUpdate(audit'[r.obj], r.by)
  <2>1. r \in inflight /\ r.obj \in Ids
    BY DEF TypeInv, TypeOK, Requests
  <2>2. MayEnd(audit[r.obj], r.by) => MayEnd(audit'[r.obj], r.by)
    BY <1>1, <1>5, <2>1
  <2> QED
    BY <2>1, <2>2 DEF EntitledInv, MayUpdate
<1>7. QED
  BY <1>4, <1>6 DEF EntitledInv

\* The assignee of a row is a holder its log knows.
LEMMA AssigneeHeld ==
  ASSUME LogInv, NEW o \in Ids, Exists(o)
  PROVE  MayEnd(audit[o], objectives[o].assignee)
  BY DEF LogInv, FollowsLog, HolderAt, HeldBefore, MayEnd

LEMMA EntitledStep == LogInv /\ EntitledInv /\ [Next]_vars => EntitledInv'
<1> SUFFICES ASSUME LogInv, EntitledInv, [Next]_vars
             PROVE  EntitledInv'
  OBVIOUS
<1> TypeInv
  BY DEF LogInv
<1> \A r \in inflight : r.obj \in Ids /\ r.by \in Members
  BY DEF TypeInv, TypeOK, Requests
<1>1. ASSUME NEW o \in Ids, NEW by \in Members, NEW assignee \in Members,
             NEW names \in NameLists, Create(o, by, assignee, names)
      PROVE  EntitledInv'
  <2> DEFINE watchers == names \ {assignee, by}
             first == Event("assigned", by, assignee, Nobody)
  <2>1. PICK added \in WatcherEvents(by, watchers, {}) :
          \E row : Commit(o, row, <<first>> \o added)
    BY <1>1 DEF Create, Mutate
  <2>9. PICK row : Commit(o, row, <<first>> \o added)
    BY <2>1
  <2>2. watchers \in SUBSET Members /\ {} \in SUBSET Members
    BY DEF NameLists
  <2>3. first \in Events /\ first.kind = "assigned"
    BY DEF Event, Events, EventKinds
  <2> HIDE DEF watchers, first
  <2>4. BatchFor(added, by, watchers, {})
    BY <2>1, <2>2, WatcherBatch
  <2> DEFINE evs == <<first>> \o added
  <2>5. /\ evs \in Seq(Events) /\ Len(evs) = 1 + Len(added) /\ Len(added) \in Nat
        /\ evs[1] = first
        /\ \A i \in 2..1 + Len(added) : i - 1 \in 1..Len(added) /\ evs[i] = added[i - 1]
    BY <2>3, <2>4, ConcatProperties, LenProperties DEF BatchFor
  <2> HIDE DEF evs
  <2>6. ASSUME NEW i \in 1..Len(evs)
        PROVE  evs[i].kind \in {"assigned", "watcher_added", "watcher_removed"}
    <3>1. CASE i = 1
      BY <2>3, <2>5, <3>1
    <3>2. CASE i \in 2..1 + Len(added)
      BY <2>4, <2>5, <3>2 DEF BatchFor
    <3> QED
      BY <2>5, <3>1, <3>2
  <2>7. EntitledBatch(audit[o], evs)
    BY <2>6 DEF EntitledBatch
  <2>8. inflight' \subseteq inflight
    BY <1>1 DEF Create
  <2> QED
    BY <2>9, <2>5, <2>7, <2>8, EntitledCommit DEF evs
<1>2. ASSUME NEW o \in Ids, NEW m \in Members, NEW r, Accept(r), r.obj = o, r.by = m,
             r.op = "complete" => MayEnd(audit[o], m),
             r.op = "update" => MayUpdate(audit[o], m)
      PROVE  EntitledInv'
  BY <1>2 DEF Accept, EntitledInv
<1>3. ASSUME NEW o \in Ids, NEW m \in Members,
             BeginUpdate(o, m) \/ BeginComplete(o, m) \/ BeginDiscuss(o, m)
      PROVE  EntitledInv'
  <2>1. CASE BeginUpdate(o, m)
    <3>1. MayUpdate(audit[o], m)
      BY <2>1, AssigneeHeld DEF BeginUpdate, MayUpdate
    <3> QED
      BY <1>2, <2>1, <3>1 DEF BeginUpdate
  <2>2. CASE BeginComplete(o, m)
    <3>1. MayEnd(audit[o], m)
      BY <2>2, AssigneeHeld DEF BeginComplete
    <3> QED
      BY <1>2, <2>2, <3>1 DEF BeginComplete
  <2>3. CASE BeginDiscuss(o, m)
    BY <1>2, <2>3 DEF BeginDiscuss
  <2> QED
    BY <1>3, <2>1, <2>2, <2>3
<1>4. ASSUME NEW o \in Ids, NEW row, NEW e \in Events, Commit(o, row, <<e>>),
             inflight' \subseteq inflight,
             e.kind = "completed" => MayEnd(audit[o], e.actor),
             e.kind \in {"blocked", "unblocked"} => MayUpdate(audit[o], e.actor)
      PROVE  EntitledInv'
  <2>1. <<e>> \in Seq(Events) /\ Len(<<e>>) = 1 /\ <<e>>[1] = e
    OBVIOUS
  <2>2. EntitledBatch(audit[o], <<e>>)
    BY <1>4, <2>1 DEF EntitledBatch
  <2> QED
    BY <1>4, <2>1, <2>2, EntitledCommit
<1>5. ASSUME NEW r \in inflight, NEW reason \in Reasons, Block(r, reason)
      PROVE  EntitledInv'
  <2> DEFINE e == Event("blocked", r.by, Nobody, Nobody)
  <2>1. /\ e \in Events /\ e.kind = "blocked" /\ e.actor = r.by
        /\ MayUpdate(audit[r.obj], r.by) /\ inflight' \subseteq inflight
    BY <1>5 DEF Block, Resume, Event, Events, EventKinds, EntitledInv
  <2>2. PICK row : Commit(r.obj, row, <<e>>) \/ Commit(r.obj, row, <<>>)
    BY <1>5 DEF Block, Mutate
  <2> HIDE DEF e
  <2>3. CASE Commit(r.obj, row, <<e>>)
    BY <1>4, <2>1, <2>3
  <2>4. CASE Commit(r.obj, row, <<>>)
    <3>1. <<>> \in Seq(Events) /\ EntitledBatch(audit[r.obj], <<>>)
      BY EmptySeq DEF EntitledBatch
    <3> QED
      BY <2>1, <2>4, <3>1, EntitledCommit
  <2> QED
    BY <2>2, <2>3, <2>4
<1>6. ASSUME NEW r \in inflight, Unblock(r)
      PROVE  EntitledInv'
  <2> DEFINE e == Event("unblocked", r.by, Nobody, Nobody)
  <2>1. /\ e \in Events /\ e.kind = "unblocked" /\ e.actor = r.by
        /\ MayUpdate(audit[r.obj], r.by) /\ inflight' \subseteq inflight
    BY <1>6 DEF Unblock, Resume, Event, Events, EventKinds, EntitledInv
  <2>2. PICK row : Commit(r.obj, row, <<e>>)
    BY <1>6 DEF Unblock, Mutate
  <2> HIDE DEF e
  <2> QED
    BY <1>4, <2>1, <2>2
<1>7. ASSUME NEW r \in inflight, Complete(r)
      PROVE  EntitledInv'
  <2> DEFINE e == Event("completed", r.by, Nobody, Nobody)
  <2>1. /\ e \in Events /\ e.kind = "completed" /\ e.actor = r.by
        /\ MayEnd(audit[r.obj], r.by) /\ inflight' \subseteq inflight
    BY <1>7 DEF Complete, Resume, Event, Events, EventKinds, EntitledInv
  <2>2. PICK row : Commit(r.obj, row, <<e>>)
    BY <1>7 DEF Complete, Mutate
  <2> HIDE DEF e
  <2> QED
    BY <1>4, <2>1, <2>2
<1>8. ASSUME NEW o \in Ids, NEW m \in Members, Cancel(o, m)
      PROVE  EntitledInv'
  <2> DEFINE e == Event("cancelled", m, Nobody, Nobody)
  <2>1. e \in Events /\ e.kind = "cancelled" /\ inflight' \subseteq inflight
    BY <1>8 DEF Cancel, Event, Events, EventKinds
  <2>2. PICK row : Commit(o, row, <<e>>)
    BY <1>8 DEF Cancel, Mutate
  <2> HIDE DEF e
  <2> QED
    BY <1>4, <2>1, <2>2
<1>9. ASSUME NEW o \in Ids, NEW m \in Members, NEW to \in Members, Reassign(o, m, to)
      PROVE  EntitledInv'
  <2> DEFINE e == Event("reassigned", m, to, objectives[o].assignee)
  <2>1. objectives[o].assignee \in Members \cup {Nobody}
    BY DEF TypeInv, TypeOK, Row
  <2>2. e \in Events /\ e.kind = "reassigned" /\ inflight' \subseteq inflight
    BY <1>9, <2>1 DEF Reassign, Event, Events, EventKinds
  <2>3. PICK row : Commit(o, row, <<e>>)
    BY <1>9 DEF Reassign, Mutate
  <2> HIDE DEF e
  <2> QED
    BY <1>4, <2>2, <2>3
<1>10. ASSUME NEW o \in Ids, NEW m \in Members, NEW add \in NameLists,
              NEW remove \in NameLists, UpdateWatchers(o, m, add, remove)
       PROVE  EntitledInv'
  <2> DEFINE new  == add \ ({objectives[o].assignee, objectives[o].originator}
                              \cup objectives[o].watchers)
             gone == remove \cap objectives[o].watchers
  <2>1. new \in SUBSET Members /\ gone \in SUBSET Members
    BY DEF NameLists
  <2>2. PICK evs \in WatcherEvents(m, new, gone) : \E row : Commit(o, row, evs)
    BY <1>10 DEF UpdateWatchers, Mutate
  <2>6. PICK row : Commit(o, row, evs)
    BY <2>2
  <2> HIDE DEF new, gone
  <2>3. BatchFor(evs, m, new, gone)
    BY <2>1, <2>2, WatcherBatch
  <2>4. evs \in Seq(Events) /\ EntitledBatch(audit[o], evs)
    BY <2>3 DEF BatchFor, EntitledBatch
  <2>5. inflight' \subseteq inflight
    BY <1>10 DEF UpdateWatchers
  <2> QED
    BY <2>6, <2>4, <2>5, EntitledCommit
<1>11. ASSUME UNCHANGED audit, inflight' \subseteq inflight
       PROVE  EntitledInv'
  BY <1>11 DEF EntitledInv
<1>12. ASSUME \/ \E r \in inflight : Refuse(r) \/ Discuss(r)
              \/ Publish \/ Crash \/ UNCHANGED vars
       PROVE  EntitledInv'
  BY <1>11, <1>12 DEF Refuse, Discuss, Resume, Publish, Crash, vars
<1>13. QED
  BY <1>1, <1>3, <1>5, <1>6, <1>7, <1>8, <1>9, <1>10, <1>12 DEF Next

\* However long a request waits for its body, who completes an objective held
\* it once, and who blocks or unblocks it held it once or may cancel.
THEOREM NoStrangerActs == Spec => []ActorsWereEntitled
<1>1. Init => EntitledInv
  BY DEF Init, EntitledInv, EntitledLog
<1>2. LogInv /\ EntitledInv => ActorsWereEntitled
  <2> SUFFICES ASSUME LogInv, EntitledInv, NEW o \in Ids
               PROVE  EntitledLog(audit[o]) /\ DOMAIN audit[o] = 1..Len(audit[o])
    BY DEF ActorsWereEntitled, EntitledLog
  <2> QED
    BY LenProperties DEF EntitledInv, LogInv, TypeInv, TypeOK
<1>3. QED
  BY <1>1, <1>2, LogInvAlways, EntitledStep, PTL DEF Spec

-----------------------------------------------------------------------------
(* What the pushes tell.  A push is built from the row as the commit left    *)
(* it, and waits in the outbox while the log grows.                          *)

\* What a log says of its first n events, it says however long it grows.
LEMMA PrefixReads ==
  ASSUME NEW log \in Seq(Events), NEW evs \in Seq(Events), NEW n \in 0..Len(log), NEW x
  PROVE  /\ StatusAt(log \o evs, n, x) <=> StatusAt(log, n, x)
         /\ HolderAt(log \o evs, n, x) <=> HolderAt(log, n, x)
         /\ WatcherAt(log \o evs, n, x) <=> WatcherAt(log, n, x)
<1>1. PICK all : all = log \o evs
  OBVIOUS
<1>2. \A i \in 1..n : all[i] = log[i]
  BY <1>1, PrefixKept
<1>3. StatusAt(all, n, x) <=> StatusAt(log, n, x)
  BY <1>2 DEF StatusAt
<1>4. HolderAt(all, n, x) <=> HolderAt(log, n, x)
  BY <1>2 DEF HolderAt
<1>5. WatcherAt(all, n, x) <=> WatcherAt(log, n, x)
  BY <1>2 DEF WatcherAt
<1> QED
  BY <1>1, <1>3, <1>4, <1>5

\* Events that say nothing of the status leave it, and the holder likewise.
LEMMA LastWord ==
  ASSUME NEW log, NEW n \in Nat, NEW k \in Nat, n <= k, NEW x
  PROVE  /\ (\A j \in n+1..k : log[j].kind \notin DOMAIN StatusAfter) =>
              (StatusAt(log, n, x) => StatusAt(log, k, x))
         /\ (\A j \in n+1..k : log[j].kind \notin Handing) =>
              (HolderAt(log, k, x) => HolderAt(log, n, x))
<1>1. ASSUME NEW j \in 1..k PROVE j \in 1..n \/ j \in n+1..k
  OBVIOUS
<1>2. 1..n \subseteq 1..k
  OBVIOUS
<1>3. ASSUME \A j \in n+1..k : log[j].kind \notin DOMAIN StatusAfter, StatusAt(log, n, x)
      PROVE  StatusAt(log, k, x)
  <2>1. PICK i \in 1..n :
          /\ log[i].kind \in DOMAIN StatusAfter
          /\ x = StatusAfter[log[i].kind]
          /\ \A j \in 1..n : j > i => log[j].kind \notin DOMAIN StatusAfter
    BY <1>3 DEF StatusAt
  <2>2. \A j \in 1..k : j > i => log[j].kind \notin DOMAIN StatusAfter
    BY <1>1, <1>3, <2>1
  <2> QED
    BY <1>2, <2>1, <2>2 DEF StatusAt
<1>4. ASSUME \A j \in n+1..k : log[j].kind \notin Handing, HolderAt(log, k, x)
      PROVE  HolderAt(log, n, x)
  <2>1. PICK i \in 1..k :
          /\ log[i].kind \in Handing /\ log[i].name = x
          /\ \A j \in 1..k : j > i => log[j].kind \notin Handing
    BY <1>4 DEF HolderAt
  <2>2. i \in 1..n
    BY <1>1, <1>4, <2>1
  <2> QED
    BY <1>2, <2>1, <2>2 DEF HolderAt
<1> QED
  BY <1>3, <1>4

LEMMA OneHolder ==
  ASSUME NEW log, NEW n \in Nat, NEW x, NEW y, HolderAt(log, n, x), HolderAt(log, n, y)
  PROVE  x = y
<1>1. PICK i \in 1..n : /\ log[i].kind \in Handing /\ log[i].name = x
                        /\ \A j \in 1..n : j > i => log[j].kind \notin Handing
  BY DEF HolderAt
<1>2. PICK k \in 1..n : /\ log[k].kind \in Handing /\ log[k].name = y
                        /\ \A j \in 1..n : j > k => log[j].kind \notin Handing
  BY DEF HolderAt
<1>3. ~(k > i) /\ ~(i > k)
  BY <1>1, <1>2
<1>4. i = k
  BY <1>3
<1> QED
  BY <1>1, <1>2, <1>4

\* Who an audit log connects with its objective, besides the admins.
Connected(log) ==
  Admins \cup {log[i].actor : i \in 1..Len(log)} \cup {log[i].name : i \in 1..Len(log)}

Announces(m, log) ==
  /\ m.index \in 1..Len(log)
  /\ m.event = log[m.index].kind /\ m.from = log[m.index].actor
  /\ StatusAt(log, m.index, m.status)
  /\ Admins \cup {log[1].actor, m.from} \subseteq m.to
  /\ log[m.index].name # Nobody => log[m.index].name \in m.to
  /\ \A x \in Members : HolderAt(log, m.index, x) \/ HolderAt(log, m.index - 1, x) => x \in m.to
  /\ ~Watching(log[m.index]) => \A x \in Members : WatcherAt(log, m.index, x) => x \in m.to

Told(m, log) == Announces(m, log) /\ m.to \subseteq Connected(log)

LEMMA ConnectedGrows ==
  ASSUME NEW log \in Seq(Events), NEW evs \in Seq(Events)
  PROVE  Connected(log) \subseteq Connected(log \o evs)
<1>1. PICK all : all = log \o evs
  OBVIOUS
<1>2. \A i \in 1..Len(log) : i \in 1..Len(all) /\ all[i] = log[i]
  <2>1. Len(log) \in Nat /\ Len(evs) \in Nat /\ Len(log) \in 0..Len(log)
    BY LenProperties
  <2> QED
    BY <1>1, <2>1, PrefixKept
<1>3. Connected(log) \subseteq Connected(all)
  BY <1>2 DEF Connected
<1> QED
  BY <1>1, <1>3

LEMMA ToldStays ==
  ASSUME NEW log \in Seq(Events), NEW evs \in Seq(Events), NEW m, Told(m, log)
  PROVE  Told(m, log \o evs)
<1>1. PICK all : all = log \o evs
  OBVIOUS
<1>2. PICK n \in 1..Len(log) : n = m.index
  BY DEF Told, Announces
<1>3. Len(log) \in Nat /\ Len(evs) \in Nat /\ n \in 0..Len(log) /\ n - 1 \in 0..Len(log)
  BY LenProperties
<1>4. n \in 1..Len(all) /\ all[n] = log[n] /\ all[1] = log[1]
  BY <1>1, <1>3, PrefixKept
<1>5. StatusAt(all, n, m.status)
  BY <1>1, <1>2, <1>3, PrefixReads DEF Told, Announces
<1>6. \A x : /\ HolderAt(all, n, x) <=> HolderAt(log, n, x)
             /\ HolderAt(all, n - 1, x) <=> HolderAt(log, n - 1, x)
             /\ WatcherAt(all, n, x) <=> WatcherAt(log, n, x)
  BY <1>1, <1>3, PrefixReads
<1>7. Announces(m, all)
  BY <1>2, <1>4, <1>5, <1>6 DEF Told, Announces
<1>8. m.to \subseteq Connected(all)
  BY <1>1, ConnectedGrows DEF Told
<1> QED
  BY <1>1, <1>7, <1>8 DEF Told

\* Whoever the row names, its log connects with it.
LEMMA RowConnected ==
  ASSUME NEW log, NEW row, FollowsLog(row, log), row.watchers \subseteq Members,
         Len(log) \in Nat
  PROVE  ThreadMembers(row) \subseteq Connected(log)
<1>1. PICK i \in 1..Len(log) : log[i].name = row.assignee
  BY DEF FollowsLog, HolderAt
<1>2. 1 \in 1..Len(log) /\ log[1].actor = row.originator
  BY <1>1 DEF FollowsLog
<1>3. \A w \in row.watchers : \E j \in 1..Len(log) : log[j].name = w
  BY DEF FollowsLog, WatcherAt
<1> QED
  BY <1>1, <1>2, <1>3 DEF ThreadMembers, Connected

\* A batch whose announcements will tell what the log says.  next is the row the
\* commit leaves.
BatchTold(log, evs, next, by) ==
  /\ evs \in Seq(Events)
  /\ \A i \in 1..Len(evs) :
       LET e == evs[i]
           n == Len(log) + i
           to == ThreadMembers(next) \cup Leavers(e)
       IN /\ e.actor = by
          /\ Leavers(e) \subseteq Connected(log \o evs)
          /\ StatusAt(log \o evs, n, next.status)
          /\ e.name # Nobody => e.name \in to
          /\ \A x \in Members :
               HolderAt(log \o evs, n, x) \/ HolderAt(log \o evs, n - 1, x) => x \in to
          /\ ~Watching(e) =>
               \A x \in Members : WatcherAt(log \o evs, n, x) => x \in next.watchers

\* A push about the event at place n of the log of o.
Announced(m, o, n, log) == m.obj = o /\ m.index = n /\ Told(m, log)

LEMMA BatchAnnounced ==
  ASSUME NEW o, NEW log \in Seq(Events), log = audit[o], NEW evs, NEW next, NEW by,
         BatchTold(log, evs, next, by), FollowsLog(next, log \o evs),
         next.watchers \subseteq Members, NEW i \in 1..Len(evs), NEW n, n = Len(log) + i,
         NEW m, m = Announcements(o, next, evs, by)[i]
  PROVE  Announced(m, o, n, log \o evs)
<1>1. PICK all : all = log \o evs
  OBVIOUS
<1>2. PICK e : e = evs[i]
  OBVIOUS
<1>3. n = Len(log) + i
  OBVIOUS
<1>4. /\ m.obj = o /\ m.index = n /\ m.event = e.kind /\ m.status = next.status /\ m.from = by
      /\ m.to = ThreadMembers(next) \cup Leavers(e) \cup {by}
  BY <1>2, <1>3 DEF Announcements
<1>5. evs \in Seq(Events) /\ Len(log) \in Nat /\ Len(evs) \in Nat
  BY LenProperties DEF BatchTold
<1>6. n \in 1..Len(all) /\ all[n] = e /\ Len(all) \in Nat
  BY <1>1, <1>2, <1>3, <1>5, PrefixKept
<1>7. /\ e.actor = by /\ Leavers(e) \subseteq Connected(all)
      /\ StatusAt(all, n, next.status)
      /\ e.name # Nobody => e.name \in ThreadMembers(next) \cup Leavers(e)
      /\ \A x \in Members : HolderAt(all, n, x) \/ HolderAt(all, n - 1, x) =>
           x \in ThreadMembers(next) \cup Leavers(e)
      /\ ~Watching(e) => \A x \in Members : WatcherAt(all, n, x) => x \in next.watchers
  BY <1>1, <1>2, <1>3 DEF BatchTold
<1>8. all[1].actor = next.originator /\ next.watchers \cup Admins \cup {next.originator} \subseteq m.to
  BY <1>1, <1>4 DEF FollowsLog, ThreadMembers
<1>9. Announces(m, all)
  BY <1>4, <1>6, <1>7, <1>8 DEF Announces
<1>10. ThreadMembers(next) \subseteq Connected(all)
  BY <1>1, <1>6, RowConnected
<1>11. by \in Connected(all)
  BY <1>6, <1>7 DEF Connected
<1>12. m.to \subseteq Connected(all)
  BY <1>4, <1>7, <1>10, <1>11
<1> QED
  BY <1>1, <1>3, <1>4, <1>9, <1>12 DEF Told, Announced

\* One event, not about watchers, on an open objective.
LEMMA OneEventTold ==
  ASSUME NEW log \in Seq(Events), NEW row, NEW next, NEW e \in Events,
         FollowsLog(row, log), FollowsLog(next, log \o <<e>>), row.assignee \in Members,
         row.watchers \subseteq Members, next.watchers \subseteq Members, ~Watching(e),
         e.name # Nobody => e.name = next.assignee,
         next.assignee = row.assignee \/ (e.kind = "reassigned" /\ e.left = row.assignee),
         e.kind = "reassigned" => e.left = row.assignee
  PROVE  BatchTold(log, <<e>>, next, e.actor)
<1>1. PICK evs \in Seq(Events) : evs = <<e>> /\ Len(evs) = 1 /\ evs[1] = e
  <2>1. <<e>> \in Seq(Events) /\ Len(<<e>>) = 1 /\ <<e>>[1] = e
    OBVIOUS
  <2> QED
    BY <2>1
<1>2. PICK all : all = log \o evs
  OBVIOUS
<1>3. PICK n \in Nat : n = Len(log) /\ n \in 0..Len(log) /\ Len(all) = n + 1 /\ (n + 1) - 1 = n
  BY <1>1, <1>2, PrefixKept, LenProperties
<1>4. FollowsLog(next, all)
  BY <1>1, <1>2
<1>5. \A x : HolderAt(all, n, x) => x = row.assignee
  <2> SUFFICES ASSUME NEW x, HolderAt(all, n, x) PROVE x = row.assignee
    OBVIOUS
  <2>1. HolderAt(log, n, x) /\ HolderAt(log, n, row.assignee)
    BY <1>2, <1>3, PrefixReads DEF FollowsLog
  <2> QED
    BY <2>1, OneHolder
<1>6. \A x : HolderAt(all, n + 1, x) => x = next.assignee
  BY <1>3, <1>4, OneHolder DEF FollowsLog
<1>7. Leavers(e) \subseteq {row.assignee} /\ (e.kind = "reassigned" => Leavers(e) = {row.assignee})
  BY DEF Leavers, Watching
<1>8. row.assignee \in Connected(all)
  <2>1. row.assignee \in Connected(log)
    BY RowConnected, LenProperties DEF ThreadMembers
  <2> QED
    BY <1>2, <2>1, ConnectedGrows
<1>9. row.assignee \in {next.assignee} \cup Leavers(e)
  BY <1>7
<1>10. StatusAt(all, n + 1, next.status)
  BY <1>3, <1>4 DEF FollowsLog
<1>11. \A x \in Members : WatcherAt(all, n + 1, x) => x \in next.watchers
  BY <1>3, <1>4 DEF FollowsLog
<1>12. next.assignee \in ThreadMembers(next)
  BY DEF ThreadMembers
<1>13. \A i \in 1..Len(evs) : i = 1
  BY <1>1
<1>14. BatchTold(log, evs, next, e.actor)
  <2> SUFFICES /\ Leavers(e) \subseteq Connected(all)
               /\ StatusAt(all, n + 1, next.status)
               /\ e.name # Nobody => e.name \in ThreadMembers(next) \cup Leavers(e)
               /\ \A x \in Members : HolderAt(all, n + 1, x) \/ HolderAt(all, (n + 1) - 1, x) =>
                    x \in ThreadMembers(next) \cup Leavers(e)
               /\ \A x \in Members : WatcherAt(all, n + 1, x) => x \in next.watchers
    BY <1>1, <1>2, <1>3, <1>13 DEF BatchTold
  <2> QED
    BY <1>3, <1>5, <1>6, <1>7, <1>8, <1>9, <1>10, <1>11, <1>12
<1> QED
  BY <1>1, <1>14

\* Watcher events leave status and holder as they were after p events.
LEMMA WatchingLeaves ==
  ASSUME NEW log, NEW p \in Nat, NEW k \in Nat, p <= k, NEW s, NEW y,
         \A j \in p+1..k : Watching(log[j]), StatusAt(log, p, s), HolderAt(log, p, y)
  PROVE  StatusAt(log, k, s) /\ \A x : HolderAt(log, k, x) => x = y
<1>1. \A j \in p+1..k : log[j].kind \notin DOMAIN StatusAfter /\ log[j].kind \notin Handing
  BY DEF Watching, StatusAfter, Handing
<1>2. StatusAt(log, k, s)
  BY <1>1, LastWord
<1>3. ASSUME NEW x, HolderAt(log, k, x) PROVE x = y
  <2>1. HolderAt(log, p, x)
    BY <1>1, <1>3, LastWord
  <2> QED
    BY <2>1, OneHolder
<1> QED
  BY <1>2, <1>3

LEMMA WatchersTold ==
  ASSUME NEW log \in Seq(Events), NEW row, NEW next, NEW by,
         FollowsLog(row, log), NEW new, NEW gone, NEW evs, BatchFor(evs, by, new, gone),
         next.status = row.status, next.assignee = row.assignee,
         next.watchers = (row.watchers \ gone) \cup new
  PROVE  BatchTold(log, evs, next, by)
<1>1. PICK all : all = log \o evs
  OBVIOUS
<1>2. PICK n \in Nat : n = Len(log) /\ n \in 0..Len(log)
  BY LenProperties
<1>3. evs \in Seq(Events) /\ Len(evs) \in Nat
  BY LenProperties DEF BatchFor
<1>4. /\ Len(all) = n + Len(evs)
      /\ \A i \in 1..Len(evs) : n + i \in 1..Len(all) /\ all[n + i] = evs[i]
      /\ \A j \in n+1..n+Len(evs) : j - n \in 1..Len(evs) /\ all[j] = evs[j - n]
  BY <1>1, <1>2, <1>3, PrefixKept
<1>5. \A j \in n+1..n+Len(evs) : Watching(all[j])
  BY <1>4 DEF BatchFor, Watching
<1>6. StatusAt(all, n, row.status) /\ HolderAt(all, n, row.assignee)
  BY <1>1, <1>2, <1>3, PrefixReads DEF FollowsLog
<1>7. ASSUME NEW k \in Nat, n <= k, k <= n + Len(evs)
      PROVE  StatusAt(all, k, next.status) /\ \A x : HolderAt(all, k, x) => x = next.assignee
  <2>1. \A j \in n+1..k : Watching(all[j])
    BY <1>5, <1>7
  <2> QED
    BY <1>6, <1>7, <2>1, WatchingLeaves
<1>8. SUFFICES ASSUME NEW i \in 1..Len(evs), NEW e, e = evs[i]
               PROVE  /\ e.actor = by
                      /\ Leavers(e) \subseteq Connected(all)
                      /\ StatusAt(all, n + i, next.status)
                      /\ e.name # Nobody => e.name \in ThreadMembers(next) \cup Leavers(e)
                      /\ \A x \in Members : HolderAt(all, n + i, x) \/ HolderAt(all, (n + i) - 1, x) =>
                           x \in ThreadMembers(next) \cup Leavers(e)
                      /\ Watching(e)
  BY <1>1, <1>2, <1>3 DEF BatchTold
<1>9. /\ e.actor = by /\ all[n + i] = e /\ n + i \in 1..Len(all)
      /\ \/ e.kind = "watcher_added" /\ e.name \in new
         \/ e.kind = "watcher_removed" /\ e.name \in gone
  BY <1>4, <1>8 DEF BatchFor
<1>10. /\ n + i \in Nat /\ n <= n + i /\ n + i <= n + Len(evs)
       /\ (n + i) - 1 \in Nat /\ n <= (n + i) - 1 /\ (n + i) - 1 <= n + Len(evs)
  BY <1>3
<1>11. \A x : HolderAt(all, n + i, x) \/ HolderAt(all, (n + i) - 1, x) => x = next.assignee
  BY <1>7, <1>10
<1>12. Leavers(e) \subseteq {e.name} /\ (e.kind = "watcher_removed" => Leavers(e) = {e.name})
  BY <1>9 DEF Leavers
<1>13. e.name \in Connected(all)
  BY <1>9 DEF Connected
<1>14. StatusAt(all, n + i, next.status)
  BY <1>7, <1>10
<1>15. e.name \in ThreadMembers(next) \cup Leavers(e)
  BY <1>9, <1>12 DEF ThreadMembers
<1>16. next.assignee \in ThreadMembers(next)
  BY DEF ThreadMembers
<1> QED
  BY <1>9, <1>11, <1>12, <1>13, <1>14, <1>15, <1>16 DEF Watching

\* The first batch of a log.
LEMMA CreationTold ==
  ASSUME NEW first \in Events, NEW next, NEW by, NEW added, NEW watchers,
         BatchFor(added, by, watchers, {}), first.kind = "assigned", first.actor = by,
         first.name = next.assignee, next.status = "active", next.watchers = watchers
  PROVE  BatchTold(<<>>, <<first>> \o added, next, by)
<1>1. PICK evs : evs = <<first>> \o added
  OBVIOUS
<1>2. added \in Seq(Events) /\ Len(added) \in Nat
  BY LenProperties DEF BatchFor
<1>3. /\ evs \in Seq(Events) /\ Len(evs) = 1 + Len(added) /\ Len(evs) \in Nat /\ evs[1] = first
      /\ \A i \in 2..1 + Len(added) : i - 1 \in 1..Len(added) /\ evs[i] = added[i - 1]
  BY <1>1, <1>2, ConcatProperties, LenProperties
<1>4. Len(<<>>) = 0 /\ <<>> \o evs = evs
  BY <1>3, ConcatEmptySeq, EmptySeq
<1>5. \A j \in 2..1 + Len(added) : /\ evs[j].kind = "watcher_added" /\ evs[j].name \in watchers
                                   /\ evs[j].actor = by
  BY <1>3 DEF BatchFor
<1>6. StatusAt(evs, 1, "active") /\ HolderAt(evs, 1, next.assignee)
  BY <1>3 DEF StatusAt, HolderAt, StatusAfter, Handing
<1>7. ASSUME NEW k \in Nat, 1 <= k, k <= Len(evs)
      PROVE  StatusAt(evs, k, "active") /\ \A x : HolderAt(evs, k, x) => x = next.assignee
  <2>1. \A j \in 1+1..k : Watching(evs[j])
    BY <1>3, <1>5, <1>7 DEF Watching
  <2> QED
    BY <1>6, <1>7, <2>1, WatchingLeaves
<1>8. \A x : ~HolderAt(evs, 0, x) /\ ~WatcherAt(evs, 1, x)
  BY <1>3 DEF HolderAt, WatcherAt
<1>9. SUFFICES ASSUME NEW i \in 1..Len(evs), NEW e, e = evs[i]
               PROVE  /\ e.actor = by
                      /\ Leavers(e) = {}
                      /\ StatusAt(evs, i, "active")
                      /\ e.name \in ThreadMembers(next)
                      /\ \A x \in Members : HolderAt(evs, i, x) \/ HolderAt(evs, i - 1, x) =>
                           x \in ThreadMembers(next)
                      /\ ~Watching(e) => \A x : ~WatcherAt(evs, i, x)
  <2>1. \A i \in 1..Len(evs) : 0 + i = i
    BY <1>3
  <2> QED
    BY <1>1, <1>3, <1>4, <1>9, <2>1 DEF BatchTold
<1>10. i = 1 \/ i \in 2..1 + Len(added)
  BY <1>3
<1>11. \/ i = 1 /\ e = first
       \/ /\ e.kind = "watcher_added" /\ e.name \in watchers /\ e.actor = by
  BY <1>3, <1>5, <1>9, <1>10
<1>12. Leavers(e) = {} /\ (i # 1 => Watching(e)) /\ e.actor = by
  BY <1>11 DEF Leavers, Watching
<1>13. e.name \in ThreadMembers(next) /\ next.assignee \in ThreadMembers(next)
  BY <1>11 DEF ThreadMembers
<1>14. \A x : HolderAt(evs, i, x) \/ HolderAt(evs, i - 1, x) => x = next.assignee
  <2>1. i \in Nat /\ 1 <= i /\ i <= Len(evs)
    BY <1>3
  <2>2. i - 1 = 0 \/ (i - 1 \in Nat /\ 1 <= i - 1 /\ i - 1 <= Len(evs))
    BY <1>3
  <2> QED
    BY <1>7, <1>8, <2>1, <2>2
<1>15. StatusAt(evs, i, "active")
  BY <1>3, <1>7
<1> QED
  BY <1>8, <1>12, <1>13, <1>14, <1>15

QueueTold(q, logs) ==
  \A j \in 1..Len(q) : Lifecycle(q[j]) /\ Told(q[j], logs[q[j].obj])
QueueOrdered(q) ==
  \A i, j \in 1..Len(q) : i < j /\ q[i].obj = q[j].obj => q[i].index < q[j].index

LineTold(o, t, log) ==
  \A k \in 1..Len(t) : /\ t[k].obj = o /\ t[k].to \subseteq Connected(log)
                       /\ Lifecycle(t[k]) => Told(t[k], log)
LineOrdered(t) ==
  \A i, j \in 1..Len(t) :
    i < j /\ Lifecycle(t[i]) /\ Lifecycle(t[j]) => t[i].index < t[j].index

\* What waits in the outbox comes after what the thread has.
Ahead(o, t, q) ==
  \A i \in 1..Len(t), j \in 1..Len(q) :
    Lifecycle(t[i]) /\ q[j].obj = o => t[i].index < q[j].index

\* A post awaiting its body goes to members of the thread as it was.
PostersKnown(requests, logs) ==
  \A r \in requests : r.op = "discuss" => r.to \cup {r.by} \subseteq Connected(logs[r.obj])

TellInv ==
  /\ QueueTold(outbox, audit) /\ QueueOrdered(outbox)
  /\ \A o \in Ids : /\ LineTold(o, thread[o], audit[o]) /\ LineOrdered(thread[o])
                    /\ Ahead(o, thread[o], outbox)
  /\ PostersKnown(inflight, audit)

\* The logs only grow.
LogsGrow == \A o \in Ids : \E evs \in Seq(Events) : audit'[o] = audit[o] \o evs

LEMMA CommitGrows ==
  ASSUME TypeInv, NEW o \in Ids, NEW row, NEW evs \in Seq(Events), Commit(o, row, evs)
  PROVE  LogsGrow
<1>1. /\ audit'[o] = audit[o] \o evs
      /\ \A p \in Ids \ {o} : audit'[p] = audit[p]
  BY DEF Commit, TypeInv, TypeOK
<1>2. \A p \in Ids : audit[p] = audit[p] \o <<>> /\ <<>> \in Seq(Events)
  BY ConcatEmptySeq, EmptySeq DEF TypeInv, TypeOK
<1> QED
  BY <1>1, <1>2 DEF LogsGrow

LEMMA StillGrows ==
  ASSUME TypeInv, UNCHANGED audit
  PROVE  LogsGrow
<1>1. \A p \in Ids : audit[p] = audit[p] \o <<>> /\ <<>> \in Seq(Events)
  BY ConcatEmptySeq, EmptySeq DEF TypeInv, TypeOK
<1> QED
  BY <1>1 DEF LogsGrow

LEMMA ToldLater ==
  ASSUME TypeInv, LogsGrow
  PROVE  \A o \in Ids : /\ \A m : Told(m, audit[o]) => Told(m, audit'[o])
                        /\ Connected(audit[o]) \subseteq Connected(audit'[o])
<1> TAKE o \in Ids
<1>1. PICK evs \in Seq(Events) : audit'[o] = audit[o] \o evs
  BY DEF LogsGrow
<1>2. audit[o] \in Seq(Events)
  BY DEF TypeInv, TypeOK
<1>3. ASSUME NEW m, Told(m, audit[o]) PROVE Told(m, audit[o] \o evs)
  BY <1>2, <1>3, ToldStays
<1>4. Connected(audit[o]) \subseteq Connected(audit[o] \o evs)
  BY <1>2, ConnectedGrows
<1> QED
  BY <1>1, <1>3, <1>4

\* What a longer log leaves to show: the queue and the threads with what came in.
LEMMA TellKept ==
  ASSUME TypeInv, TellInv, LogsGrow
  PROVE  /\ QueueTold(outbox, audit')
         /\ \A o \in Ids : LineTold(o, thread[o], audit'[o])
         /\ PostersKnown(inflight, audit')
<1>1. \A o \in Ids : /\ \A m : Told(m, audit[o]) => Told(m, audit'[o])
                     /\ Connected(audit[o]) \subseteq Connected(audit'[o])
  BY ToldLater
<1>2. \A j \in 1..Len(outbox) : outbox[j].obj \in Ids
  <2>1. outbox \in Seq(Messages)
    BY DEF TypeInv, TypeOK
  <2>2. \A j \in 1..Len(outbox) : outbox[j] \in Messages
    BY <2>1, ElementOfSeq
  <2> QED
    BY <2>2 DEF Messages
<1>3. QueueTold(outbox, audit')
  BY <1>1, <1>2 DEF TellInv, QueueTold
<1>4. \A o \in Ids : LineTold(o, thread[o], audit'[o])
  <2> TAKE o \in Ids
  <2>1. LineTold(o, thread[o], audit[o])
    BY DEF TellInv
  <2> QED
    BY <1>1, <2>1 DEF LineTold
<1>5. \A r \in inflight : r.obj \in Ids
  BY DEF TypeInv, TypeOK, Requests
<1>6. PostersKnown(inflight, audit')
  BY <1>1, <1>5 DEF TellInv, PostersKnown
<1> QED
  BY <1>3, <1>4, <1>6

\* A thread ahead of queue q, in object o by no more than n, is ahead of all.
StaysAhead(o, n, q, all) ==
  \A p, t : /\ Ahead(p, t, q)
            /\ p = o => \A k \in 1..Len(t) : Lifecycle(t[k]) => t[k].index \in 1..n
            => Ahead(p, t, all)

AllNew(new, o, n, log) ==
  \A i \in 1..Len(new) : Announced(new[i], o, n + i, log)

\* Pushes that come to the end of the queue.
LEMMA QueueJoins ==
  ASSUME NEW q \in Seq(Messages), NEW new \in Seq(Messages), NEW logs, NEW old, NEW o, NEW n \in Nat,
         QueueTold(q, logs), QueueOrdered(q), QueueTold(q, old), n = Len(old[o]),
         AllNew(new, o, n, logs[o]), NEW all, all = q \o new
  PROVE  QueueTold(all, logs) /\ QueueOrdered(all) /\ StaysAhead(o, n, q, all)
<1>1. PICK m \in Nat : m = Len(q)
  BY LenProperties
<1>2. PICK k \in Nat : k = Len(new)
  BY LenProperties
<1>3. /\ Len(all) = m + k
      /\ \A i \in 1..m+k : \/ i \in 1..m /\ all[i] = q[i]
                           \/ i \in m+1..m+k /\ i - m \in 1..k /\ all[i] = new[i - m]
  BY <1>1, <1>2, ConcatProperties
<1>4. \A i \in m+1..m+k : i - m \in 1..k => /\ new[i - m].obj = o /\ new[i - m].index = n + (i - m)
                                              /\ new[i - m].index > n
                                              /\ Told(new[i - m], logs[o])
  <2> SUFFICES ASSUME NEW i \in m+1..m+k, NEW a, a = i - m, a \in 1..k
               PROVE  /\ new[a].obj = o /\ new[a].index = n + a
                      /\ n + a > n /\ Told(new[a], logs[o])
    OBVIOUS
  <2>1. Announced(new[a], o, n + a, logs[o])
    BY <1>2 DEF AllNew
  <2>2. n + a > n
    OBVIOUS
  <2> QED
    BY <2>1, <2>2 DEF Announced
<1>5. QueueTold(all, logs)
  <2> SUFFICES ASSUME NEW i \in 1..m+k PROVE Lifecycle(all[i]) /\ Told(all[i], logs[all[i].obj])
    BY <1>3 DEF QueueTold
  <2>1. CASE i \in 1..m /\ all[i] = q[i]
    BY <1>1, <2>1 DEF QueueTold
  <2>2. CASE i \in m+1..m+k /\ i - m \in 1..k /\ all[i] = new[i - m]
    BY <1>4, <2>2 DEF Lifecycle
  <2> QED
    BY <1>3, <2>1, <2>2
<1>6. \A i \in 1..m : q[i].obj = o => q[i].index \in 1..n
  BY <1>1 DEF QueueTold, Told, Announces
<1>7. QueueOrdered(all)
  <2> SUFFICES ASSUME NEW i \in 1..m+k, NEW j \in 1..m+k, i < j, all[i].obj = all[j].obj
               PROVE  all[i].index < all[j].index
    BY <1>3 DEF QueueOrdered
  <2>1. CASE j \in 1..m /\ all[j] = q[j]
    <3>1. i \in 1..m /\ all[i] = q[i]
      BY <1>3, <2>1
    <3> QED
      BY <1>1, <2>1, <3>1 DEF QueueOrdered
  <2>2. CASE j \in m+1..m+k /\ j - m \in 1..k /\ all[j] = new[j - m]
    <3>1. all[j].obj = o /\ all[j].index = n + (j - m) /\ all[j].index > n
      BY <1>4, <2>2
    <3>2. CASE i \in 1..m /\ all[i] = q[i]
      <4>1. all[i].index \in 1..n
        BY <1>6, <3>1, <3>2
      <4>2. all[j].index \in Nat
        BY <2>2, <3>1
      <4> QED
        BY ONLY n \in Nat, <3>1, <4>1, <4>2
    <3>3. CASE i \in m+1..m+k /\ i - m \in 1..k /\ all[i] = new[i - m]
      <4>1. all[i].index = n + (i - m)
        BY <1>4, <3>3
      <4>2. i \in m+1..m+k /\ j \in m+1..m+k
        BY <2>2, <3>3
      <4> QED
        BY ONLY n \in Nat, m \in Nat, k \in Nat, i < j, <3>1, <4>1, <4>2
    <3> QED
      BY <1>3, <3>2, <3>3
  <2> QED
    BY <1>3, <2>1, <2>2
<1>8. ASSUME NEW p, NEW t, Ahead(p, t, q),
             p = o => \A x \in 1..Len(t) : Lifecycle(t[x]) => t[x].index \in 1..n,
             NEW x \in 1..Len(t), NEW j \in 1..m+k, Lifecycle(t[x]), all[j].obj = p
      PROVE  t[x].index < all[j].index
  <2>1. CASE j \in 1..m /\ all[j] = q[j]
    BY <1>1, <1>8, <2>1 DEF Ahead
  <2>2. CASE j \in m+1..m+k /\ j - m \in 1..k /\ all[j] = new[j - m]
    <3>1. all[j].obj = o /\ all[j].index = n + (j - m) /\ all[j].index > n
      BY <1>4, <2>2
    <3>2. t[x].index \in 1..n
      BY <1>8, <3>1
    <3> QED
      BY <2>2, <3>1, <3>2
  <2> QED
    BY <1>3, <2>1, <2>2
<1> QED
  <2>1. Len(all) = m + k
    BY <1>3
  <2>2. StaysAhead(o, n, q, all)
    BY ONLY <1>8, <2>1 DEF Ahead, StaysAhead
  <2> QED
    BY <1>5, <1>7, <2>2

EndsBefore(t, n) == \A k \in 1..Len(t) : Lifecycle(t[k]) => t[k].index < n
StartsAfter(q, o, n) == \A j \in 1..Len(q) : q[j].obj = o => n < q[j].index

LEMMA QueueAdvances ==
  ASSUME NEW q \in Seq(Messages), q # <<>>, NEW logs, QueueTold(q, logs), QueueOrdered(q),
         NEW rest, rest = Tail(q)
  PROVE  /\ QueueTold(rest, logs) /\ QueueOrdered(rest)
         /\ \A p, t : Ahead(p, t, q) => Ahead(p, t, rest)
         /\ Head(q) = q[1] /\ 1 \in 1..Len(q) /\ q[1] \in Messages
         /\ StartsAfter(rest, q[1].obj, q[1].index)
<1>1. PICK n \in Nat : n = Len(rest) /\ Len(q) = n + 1
  BY HeadTailProperties, LenProperties
<1>2. /\ Head(q) = q[1] /\ 1 \in 1..n+1 /\ q[1] \in Messages
      /\ \A j \in 1..n : j + 1 \in 1..n+1 /\ 1 < j + 1 /\ rest[j] = q[j + 1]
  BY <1>1, HeadTailProperties, ElementOfSeq
<1>3. QueueTold(rest, logs)
  BY <1>1, <1>2 DEF QueueTold
<1>4. QueueOrdered(rest)
  <2> SUFFICES ASSUME NEW i \in 1..n, NEW j \in 1..n, i < j, rest[i].obj = rest[j].obj
               PROVE  rest[i].index < rest[j].index
    BY <1>1 DEF QueueOrdered
  <2>1. i + 1 \in 1..n+1 /\ j + 1 \in 1..n+1 /\ i + 1 < j + 1
    BY <1>1
  <2> QED
    BY <1>1, <1>2, <2>1 DEF QueueOrdered
<1>5. \A p, t : Ahead(p, t, q) => Ahead(p, t, rest)
  BY <1>1, <1>2 DEF Ahead
<1>6. StartsAfter(rest, q[1].obj, q[1].index)
  BY <1>1, <1>2 DEF QueueOrdered, StartsAfter
<1> QED
  BY <1>1, <1>2, <1>3, <1>4, <1>5, <1>6

LEMMA LineAppends ==
  ASSUME NEW t \in Seq(Messages), NEW m \in Messages, NEW o, NEW log, m.obj = o,
         LineTold(o, t, log), LineOrdered(t), m.to \subseteq Connected(log),
         Lifecycle(m) => Told(m, log),
         Lifecycle(m) => EndsBefore(t, m.index),
         NEW all, all = Append(t, m)
  PROVE  /\ LineTold(o, all, log) /\ LineOrdered(all)
         /\ \A q : /\ Ahead(o, t, q)
                   /\ Lifecycle(m) => StartsAfter(q, o, m.index)
                   => Ahead(o, all, q)
<1>1. PICK n \in Nat : n = Len(t) /\ Len(all) = n + 1
  BY AppendProperties, LenProperties
<1>2. /\ all[n + 1] = m
      /\ \A k \in 1..n+1 : k = n + 1 \/ (k \in 1..n /\ all[k] = t[k])
  BY <1>1, AppendProperties
<1>3. LineTold(o, all, log)
  BY <1>1, <1>2 DEF LineTold
<1>4. LineOrdered(all)
  <2> SUFFICES ASSUME NEW i \in 1..n+1, NEW j \in 1..n+1, i < j, Lifecycle(all[i]), Lifecycle(all[j])
               PROVE  all[i].index < all[j].index
    BY <1>1 DEF LineOrdered
  <2>1. i \in 1..n /\ all[i] = t[i]
    BY <1>1, <1>2
  <2>2. CASE j = n + 1
    BY <1>1, <1>2, <2>1, <2>2 DEF EndsBefore
  <2>3. CASE j \in 1..n /\ all[j] = t[j]
    BY <1>1, <2>1, <2>3 DEF LineOrdered
  <2> QED
    BY <1>2, <2>2, <2>3
<1>5. ASSUME NEW q, Ahead(o, t, q),
             Lifecycle(m) => StartsAfter(q, o, m.index)
      PROVE  Ahead(o, all, q)
  <2> SUFFICES ASSUME NEW i \in 1..n+1, NEW j \in 1..Len(q), Lifecycle(all[i]), q[j].obj = o
               PROVE  all[i].index < q[j].index
    BY <1>1 DEF Ahead
  <2> QED
    BY <1>1, <1>2, <1>5 DEF Ahead, StartsAfter
<1> QED
  BY <1>3, <1>4, <1>5

LEMMA MutateTells ==
  ASSUME LogInv, LogInv', TellInv, NEW o \in Ids, NEW next, next.status # Absent, NEW evs,
         NEW by \in Members, Mutate(o, next, evs, by), GoodBatch(evs),
         BatchTold(audit[o], evs, next, by), inflight' \subseteq inflight
  PROVE  TellInv'
<1>1. /\ TypeInv /\ TypeInv' /\ evs \in Seq(Events) /\ audit[o] \in Seq(Events)
      /\ outbox \in Seq(Messages) /\ Commit(o, next, evs)
  BY DEF LogInv, TypeInv, TypeOK, GoodBatch, Mutate
<1>2. objectives'[o] = next /\ audit'[o] = audit[o] \o evs
  BY <1>1 DEF Commit, TypeInv, TypeOK
<1>3. FollowsLog(next, audit[o] \o evs) /\ GoodRow(next)
  BY <1>1, <1>2 DEF LogInv, TypeInv, Exists
<1>4. LogsGrow
  BY <1>1, CommitGrows
<1>5. PICK new \in Seq(Messages) : /\ new = Announcements(o, next, evs, by)
                                   /\ Len(new) = Len(evs)
  BY <1>1, <1>3, AnnouncementsType
<1>6. next.watchers \subseteq Members
  BY <1>3 DEF GoodRow, Row
<1>7. PICK n \in Nat : n = Len(audit[o])
  BY <1>1, LenProperties
<1>8. \A i \in 1..Len(new) : Announced(new[i], o, n + i, audit'[o])
  <2> TAKE i \in 1..Len(new)
  <2>1. i \in 1..Len(evs)
    BY <1>5
  <2>2. PICK m : m = new[i]
    OBVIOUS
  <2>3. PICK log \in Seq(Events) : log = audit[o]
    BY <1>1
  <2>4. PICK p : p = Len(log) + i
    OBVIOUS
  <2>5. Announced(m, o, p, log \o evs)
    <3>1. /\ BatchTold(log, evs, next, by) /\ FollowsLog(next, log \o evs)
          /\ m = Announcements(o, next, evs, by)[i]
      BY <1>3, <1>5, <2>2, <2>3
    <3> QED
      BY ONLY <1>6, <2>1, <2>3, <2>4, <3>1, log \in Seq(Events), BatchAnnounced
  <2> QED
    BY <1>2, <1>7, <2>2, <2>3, <2>4, <2>5
<1>9. /\ QueueTold(outbox, audit')
      /\ \A p \in Ids : LineTold(p, thread[p], audit'[p])
      /\ PostersKnown(inflight, audit')
  BY <1>1, <1>4, TellKept
<1>10. /\ QueueTold(outbox, audit) /\ QueueOrdered(outbox)
       /\ \A p \in Ids : /\ LineTold(p, thread[p], audit[p]) /\ LineOrdered(thread[p])
                         /\ Ahead(p, thread[p], outbox)
  BY DEF TellInv
<1>11. outbox' = outbox \o new /\ thread' = thread
  BY <1>5 DEF Mutate
<1>12. PICK logs : logs = audit'
  OBVIOUS
<1>13. PICK all : all = outbox'
  OBVIOUS
<1>14. QueueTold(all, logs) /\ QueueOrdered(all) /\ StaysAhead(o, n, outbox, all)
  <2>0. PICK old : old = audit
    OBVIOUS
  <2>1. PICK q \in Seq(Messages) : q = outbox /\ old = audit
    BY <1>1, <2>0
  <2>2. /\ QueueTold(q, logs) /\ QueueOrdered(q) /\ QueueTold(q, old) /\ n = Len(old[o])
        /\ all = q \o new
    BY <1>7, <1>9, <1>10, <1>11, <1>12, <1>13, <2>1
  <2>3. AllNew(new, o, n, logs[o])
    BY <1>8, <1>12 DEF AllNew
  <2>4. QueueTold(all, logs) /\ QueueOrdered(all) /\ StaysAhead(o, n, q, all)
    BY ONLY <2>2, <2>3, QueueJoins, n \in Nat, q \in Seq(Messages), new \in Seq(Messages)
  <2> QED
    BY <2>1, <2>4
<1>15. \A k \in 1..Len(thread[o]) : Lifecycle(thread[o][k]) => thread[o][k].index \in 1..n
  BY <1>7, <1>10 DEF LineTold, Told, Announces
<1>16. \A p \in Ids : Ahead(p, thread[p], all)
  BY <1>10, <1>14, <1>15 DEF StaysAhead
<1>17. PostersKnown(inflight', audit')
  BY <1>9 DEF PostersKnown
<1> QED
  BY <1>9, <1>10, <1>11, <1>12, <1>13, <1>14, <1>16, <1>17 DEF TellInv

LEMMA OneEventTells ==
  ASSUME LogInv, LogInv', TellInv, NEW o \in Ids, NEW e \in Events, NEW next, NEW by \in Members,
         Mutate(o, next, <<e>>, by), e.actor = by, ~Watching(e), IsOpen(o),
         next.status # Absent, next.watchers = objectives[o].watchers,
         e.name # Nobody => e.name = next.assignee,
         \/ next.assignee = objectives[o].assignee
         \/ e.kind = "reassigned" /\ e.left = objectives[o].assignee,
         e.kind = "reassigned" => e.left = objectives[o].assignee,
         inflight' \subseteq inflight
  PROVE  TellInv'
<1>1. /\ TypeInv /\ TypeInv' /\ audit[o] \in Seq(Events) /\ Exists(o)
      /\ objectives[o].status \in Open
  BY DEF LogInv, TypeInv, TypeOK, IsOpen, Exists, Open, Absent
<1>2. GoodRow(objectives[o]) /\ FollowsLog(objectives[o], audit[o])
  BY <1>1 DEF LogInv, TypeInv
<1>3. objectives'[o] = next /\ audit'[o] = audit[o] \o <<e>>
  BY <1>1 DEF Mutate, Commit, TypeInv, TypeOK
<1>4. FollowsLog(next, audit[o] \o <<e>>) /\ GoodRow(next)
  BY <1>1, <1>3 DEF LogInv, TypeInv, Exists
<1>5. /\ objectives[o].assignee \in Members /\ objectives[o].watchers \subseteq Members
      /\ next.watchers \subseteq Members
  BY <1>1, <1>2, <1>4 DEF GoodRow, Row
<1>6. BatchTold(audit[o], <<e>>, next, by)
  <2>0. PICK row : row = objectives[o]
    OBVIOUS
  <2>1. PICK log \in Seq(Events) : row = objectives[o] /\ log = audit[o]
    BY <1>1, <2>0
  <2>2. BatchTold(log, <<e>>, next, e.actor)
    <3>1. /\ FollowsLog(row, log) /\ FollowsLog(next, log \o <<e>>)
          /\ row.assignee \in Members /\ row.watchers \subseteq Members
          /\ next.watchers \subseteq Members
      BY <1>2, <1>4, <1>5, <2>1
    <3>2. next.assignee = row.assignee \/ (e.kind = "reassigned" /\ e.left = row.assignee)
      BY <2>1
    <3>3. e.kind = "reassigned" => e.left = row.assignee
      BY <2>1
    <3>4. ~Watching(e) /\ (e.name # Nobody => e.name = next.assignee)
      OBVIOUS
    <3> QED
      BY ONLY <3>1, <3>2, <3>3, <3>4, e \in Events, log \in Seq(Events), OneEventTold
  <2> QED
    BY <2>1, <2>2
<1>7. GoodBatch(<<e>>)
  <2>1. <<e>> \in Seq(Events) /\ Len(<<e>>) = 1 /\ <<e>>[1] = e
    OBVIOUS
  <2>2. Leavers(e) \subseteq Members
    BY <1>5 DEF Leavers, Watching
  <2> QED
    BY <2>1, <2>2 DEF GoodBatch
<1> QED
  BY <1>4, <1>6, <1>7, MutateTells

\* A message that lands at the end of its thread.
LEMMA ThreadGrows ==
  ASSUME TypeInv, TellInv, NEW m \in Messages, NEW o \in Ids, m.obj = o, UNCHANGED audit,
         thread' = [thread EXCEPT ![o] = Append(@, m)], inflight' \subseteq inflight,
         m.to \subseteq Connected(audit[o]), Lifecycle(m) => Told(m, audit[o]),
         Lifecycle(m) => EndsBefore(thread[o], m.index),
         NEW q, q = outbox', QueueTold(q, audit), QueueOrdered(q),
         \A p \in Ids : Ahead(p, thread[p], q),
         Lifecycle(m) => StartsAfter(q, o, m.index)
  PROVE  TellInv'
<1>1. thread[o] \in Seq(Messages) /\ thread \in [Ids -> Seq(Messages)]
  BY DEF TypeInv, TypeOK
<1>2. PICK t \in Seq(Messages) : t = thread[o]
  BY <1>1
<1>3. PICK all : all = Append(t, m)
  OBVIOUS
<1>4. PICK log : log = audit[o]
  OBVIOUS
<1>5. LineTold(o, t, log) /\ LineOrdered(t) /\ Ahead(o, t, q)
  BY <1>2, <1>4 DEF TellInv
<1>6. /\ m.to \subseteq Connected(log)
      /\ Lifecycle(m) => Told(m, log)
      /\ Lifecycle(m) => EndsBefore(t, m.index)
  BY <1>2, <1>4
<1>7. LineTold(o, all, log) /\ LineOrdered(all) /\ Ahead(o, all, q)
  <2>1. /\ LineTold(o, all, log) /\ LineOrdered(all)
        /\ \A x : /\ Ahead(o, t, x)
                  /\ Lifecycle(m) => StartsAfter(x, o, m.index)
                  => Ahead(o, all, x)
    BY ONLY m \in Messages, m.obj = o, t \in Seq(Messages), <1>3, <1>5, <1>6, LineAppends
  <2> QED
    BY <1>5, <2>1
<1>8. thread'[o] = all /\ \A p \in Ids : p # o => thread'[p] = thread[p]
  BY <1>1, <1>2, <1>3
<1>9. ASSUME NEW p \in Ids
      PROVE  LineTold(p, thread'[p], audit[p]) /\ LineOrdered(thread'[p]) /\ Ahead(p, thread'[p], q)
  <2>1. CASE p = o
    BY <1>4, <1>7, <1>8, <2>1
  <2>2. CASE p # o
    BY <1>8, <2>2 DEF TellInv
  <2> QED
    BY <2>1, <2>2
<1>10. PostersKnown(inflight', audit)
  BY DEF TellInv, PostersKnown
<1> QED
  BY <1>9, <1>10 DEF TellInv

\* A request whose body is now awaited.
LEMMA AcceptTells ==
  ASSUME TellInv, UNCHANGED <<audit, thread, outbox>>, NEW r, inflight' = inflight \cup {r},
         r.op = "discuss" => r.to \cup {r.by} \subseteq Connected(audit[r.obj])
  PROVE  TellInv'
<1>1. PostersKnown(inflight', audit)
  BY DEF TellInv, PostersKnown
<1> QED
  BY <1>1 DEF TellInv

LEMMA PublishTells ==
  ASSUME LogInv, TellInv, Publish
  PROVE  TellInv'
<1>1. outbox \in Seq(Messages) /\ outbox # <<>> /\ TypeInv /\ UNCHANGED <<audit, inflight>>
  BY DEF Publish, LogInv, TypeInv, TypeOK
<1>2. PICK q \in Seq(Messages) : q = outbox
  BY <1>1
<1>3. PICK rest : rest = Tail(q)
  OBVIOUS
<1>4. PICK logs : logs = audit
  OBVIOUS
<1>5. /\ QueueTold(q, logs) /\ QueueOrdered(q) /\ q # <<>>
      /\ \A p \in Ids : Ahead(p, thread[p], q)
  BY <1>1, <1>2, <1>4 DEF TellInv
<1>6. /\ QueueTold(rest, logs) /\ QueueOrdered(rest)
      /\ \A p, t : Ahead(p, t, q) => Ahead(p, t, rest)
      /\ Head(q) = q[1] /\ 1 \in 1..Len(q) /\ q[1] \in Messages
      /\ StartsAfter(rest, q[1].obj, q[1].index)
  BY <1>3, <1>5, QueueAdvances
<1>7. outbox' = rest
  BY <1>2, <1>3 DEF Publish
<1>8. \A p \in Ids : Ahead(p, thread[p], rest)
  BY <1>5, <1>6
<1>9. CASE UNCHANGED thread
  BY <1>1, <1>4, <1>6, <1>7, <1>8, <1>9 DEF TellInv
<1>10. CASE thread' = [thread EXCEPT ![Head(outbox).obj] = Append(@, Head(outbox))]
  <2>1. PICK m \in Messages : m = q[1] /\ m = Head(outbox)
    BY <1>2, <1>6
  <2>2. PICK o \in Ids : o = m.obj
    BY DEF Messages
  <2>3. Told(m, audit[o]) /\ Lifecycle(m) /\ m.to \subseteq Connected(audit[o])
    BY <1>4, <1>5, <1>6, <2>1, <2>2 DEF QueueTold, Told
  <2>4. EndsBefore(thread[o], m.index)
    BY <1>5, <1>6, <2>1, <2>2 DEF Ahead, EndsBefore
  <2>5. StartsAfter(rest, o, m.index)
    BY <1>6, <2>1, <2>2
  <2>6. thread' = [thread EXCEPT ![o] = Append(@, m)]
    BY <1>10, <2>1, <2>2
  <2> QED
    <3>1. /\ TypeInv /\ TellInv /\ UNCHANGED audit /\ inflight' \subseteq inflight
          /\ rest = outbox' /\ QueueTold(rest, audit) /\ QueueOrdered(rest)
      BY <1>1, <1>4, <1>6, <1>7
    <3> QED
      BY ONLY m \in Messages, o \in Ids, <1>8, <2>2, <2>3, <2>4, <2>5, <2>6, <3>1, ThreadGrows
<1> QED
  BY <1>9, <1>10 DEF Publish

LEMMA DiscussTells ==
  ASSUME LogInv, TellInv, NEW r \in inflight, Discuss(r)
  PROVE  TellInv'
<1>1. /\ TypeInv /\ UNCHANGED <<audit, outbox>> /\ inflight' \subseteq inflight
      /\ r \in Requests /\ r.op = "discuss"
  BY DEF Discuss, Resume, LogInv, TypeInv, TypeOK
<1>2. PICK o \in Ids : o = r.obj
  BY <1>1 DEF Requests
<1>3. PICK m : m = [obj |-> o, index |-> 0, event |-> "discuss", status |-> Absent,
                    from |-> r.by, to |-> r.to \cup {r.by}]
  OBVIOUS
<1>4. m \in Messages /\ m.obj = o /\ m.to = r.to \cup {r.by} /\ ~Lifecycle(m)
  BY <1>1, <1>3 DEF Messages, Requests, Lifecycle
<1>5. thread' = [thread EXCEPT ![o] = Append(@, m)]
  BY <1>2, <1>3 DEF Discuss
<1>6. m.to \subseteq Connected(audit[o])
  BY <1>1, <1>2, <1>4 DEF TellInv, PostersKnown
<1>7. PICK q : q = outbox'
  OBVIOUS
<1>8. QueueTold(q, audit) /\ QueueOrdered(q) /\ \A p \in Ids : Ahead(p, thread[p], q)
  BY <1>1, <1>7 DEF TellInv
<1> QED
  BY <1>1, <1>4, <1>5, <1>6, <1>7, <1>8, ThreadGrows

LEMMA CreateTells ==
  ASSUME LogInv, LogInv', TellInv, NEW o \in Ids, NEW by \in Members, NEW assignee \in Members,
         NEW names \in NameLists, Create(o, by, assignee, names)
  PROVE  TellInv'
<1>1. PICK watchers \in SUBSET Members : watchers = names \ {assignee, by}
  BY DEF NameLists
<1>2. PICK row : row = [status |-> "active", assignee |-> assignee, originator |-> by,
                        watchers |-> watchers, blockReason |-> NoReason]
  OBVIOUS
<1>3. PICK first : first = Event("assigned", by, assignee, Nobody)
  OBVIOUS
<1>4. /\ inflight' = inflight /\ ~Exists(o)
      /\ \E added \in WatcherEvents(by, watchers, {}) :
           \/ Mutate(o, row, <<first>> \o added, by)
           \/ Commit(o, row, <<first>> \o added) /\ UNCHANGED <<thread, outbox>>
  BY <1>1, <1>2, <1>3 DEF Create
<1>5. PICK added \in WatcherEvents(by, watchers, {}) :
        \/ Mutate(o, row, <<first>> \o added, by)
        \/ Commit(o, row, <<first>> \o added) /\ UNCHANGED <<thread, outbox>>
  BY <1>4
<1>6. /\ first \in Events /\ first.kind = "assigned" /\ first.actor = by
      /\ first.name = row.assignee /\ row.status = "active" /\ row.watchers = watchers
  BY <1>2, <1>3 DEF Event, Events, EventKinds
<1>7. BatchFor(added, by, watchers, {}) /\ GoodBatch(added)
  BY <1>1, <1>5, WatcherBatch, WatcherBatchGood
<1>8. PICK evs : evs = <<first>> \o added
  OBVIOUS
<1>9. evs \in Seq(Events) /\ GoodBatch(evs)
  <2>1. added \in Seq(Events) /\ Len(added) \in Nat
    BY <1>7, LenProperties DEF GoodBatch
  <2>2. /\ evs \in Seq(Events) /\ Len(evs) = 1 + Len(added) /\ evs[1] = first
        /\ \A i \in 2..1 + Len(added) : i - 1 \in 1..Len(added) /\ evs[i] = added[i - 1]
    BY <1>6, <1>8, <2>1, ConcatProperties
  <2>3. Leavers(first) \subseteq Members
    BY <1>6 DEF Leavers
  <2> QED
    BY <1>7, <2>1, <2>2, <2>3 DEF GoodBatch
<1>10. CASE Mutate(o, row, evs, by)
  <2>1. BatchTold(<<>>, evs, row, by)
    BY <1>6, <1>7, <1>8, CreationTold
  <2>2. BatchTold(audit[o], evs, row, by) /\ row.status # Absent
    BY <1>4, <1>6, <2>1 DEF LogInv, Absent
  <2> QED
    BY <1>4, <1>9, <1>10, <2>2, MutateTells
<1>11. CASE Commit(o, row, evs) /\ UNCHANGED <<thread, outbox>>
  <2>1. TypeInv /\ LogsGrow
    BY <1>9, <1>11, CommitGrows DEF LogInv
  <2>2. /\ QueueTold(outbox, audit')
        /\ \A p \in Ids : LineTold(p, thread[p], audit'[p])
        /\ PostersKnown(inflight, audit')
    BY <2>1, TellKept
  <2> QED
    BY <1>4, <1>11, <2>2 DEF TellInv
<1> QED
  BY <1>5, <1>8, <1>10, <1>11

LEMMA BlockTells ==
  ASSUME LogInv, LogInv', TellInv, NEW r \in inflight, NEW reason \in Reasons, Block(r, reason)
  PROVE  TellInv'
<1>1. r \in Requests /\ inflight' \subseteq inflight
  BY DEF LogInv, TypeInv, TypeOK, Block, Resume
<1>2. PICK o \in Ids, by \in Members : o = r.obj /\ by = r.by
  BY <1>1 DEF Requests
<1>3. PICK row : row = objectives[o]
  OBVIOUS
<1>4. PICK next : next = [row EXCEPT !.status = "blocked", !.blockReason = reason]
  OBVIOUS
<1>5. PICK e : e = Event("blocked", by, Nobody, Nobody)
  OBVIOUS
<1>6. IsOpen(o) /\ Mutate(o, next, IF row.status = "blocked" THEN <<>> ELSE <<e>>, by)
  BY <1>2, <1>3, <1>4, <1>5 DEF Block
<1>7. /\ e \in Events /\ e.kind = "blocked" /\ e.name = Nobody /\ e.actor = by /\ ~Watching(e)
  BY <1>5 DEF Event, Events, EventKinds, Watching
<1>8. row \in Row
  BY <1>3 DEF LogInv, TypeInv, TypeOK
<1>9. /\ next.status = "blocked" /\ next.watchers = row.watchers /\ next.assignee = row.assignee
      /\ next.status # Absent
  BY <1>4, <1>8 DEF Row, Absent
<1>10. CASE row.status = "blocked"
  <2>1. Mutate(o, next, <<>>, by)
    BY <1>6, <1>10
  <2>2. <<>> \in Seq(Events) /\ Len(<<>>) = 0
    BY EmptySeq
  <2>3. GoodBatch(<<>>) /\ BatchTold(audit[o], <<>>, next, by)
    BY <2>2 DEF GoodBatch, BatchTold
  <2> QED
    BY <1>1, <1>9, <2>1, <2>3, MutateTells
<1>11. CASE row.status # "blocked"
  <2>1. Mutate(o, next, <<e>>, by)
    BY <1>6, <1>11
  <2> QED
    BY <1>1, <1>3, <1>6, <1>7, <1>9, <2>1, OneEventTells
<1> QED
  BY <1>10, <1>11

LEMMA UnblockTells ==
  ASSUME LogInv, LogInv', TellInv, NEW r \in inflight, Unblock(r)
  PROVE  TellInv'
<1>1. r \in Requests /\ inflight' \subseteq inflight
  BY DEF LogInv, TypeInv, TypeOK, Unblock, Resume
<1>2. PICK o \in Ids, by \in Members : o = r.obj /\ by = r.by
  BY <1>1 DEF Requests
<1>3. PICK next : next = [objectives[o] EXCEPT !.status = "active", !.blockReason = NoReason]
  OBVIOUS
<1>4. PICK e : e = Event("unblocked", by, Nobody, Nobody)
  OBVIOUS
<1>5. Mutate(o, next, <<e>>, by) /\ IsOpen(o)
  BY <1>2, <1>3, <1>4 DEF Unblock, IsOpen, Open
<1>6. e \in Events /\ e.kind = "unblocked" /\ e.name = Nobody /\ e.actor = by /\ ~Watching(e)
  BY <1>4 DEF Event, Events, EventKinds, Watching
<1>7. /\ next.watchers = objectives[o].watchers /\ next.assignee = objectives[o].assignee
      /\ next.status # Absent
  BY <1>3 DEF LogInv, TypeInv, TypeOK, Row, Absent
<1> QED
  BY <1>1, <1>5, <1>6, <1>7, OneEventTells

LEMMA CompleteTells ==
  ASSUME LogInv, LogInv', TellInv, NEW r \in inflight, Complete(r)
  PROVE  TellInv'
<1>1. r \in Requests /\ inflight' \subseteq inflight
  BY DEF LogInv, TypeInv, TypeOK, Complete, Resume
<1>2. PICK o \in Ids, by \in Members : o = r.obj /\ by = r.by
  BY <1>1 DEF Requests
<1>3. PICK next : next = [objectives[o] EXCEPT !.status = "done", !.blockReason = NoReason]
  OBVIOUS
<1>4. PICK e : e = Event("completed", by, Nobody, Nobody)
  OBVIOUS
<1>5. Mutate(o, next, <<e>>, by) /\ IsOpen(o)
  BY <1>2, <1>3, <1>4 DEF Complete
<1>6. e \in Events /\ e.kind = "completed" /\ e.name = Nobody /\ e.actor = by /\ ~Watching(e)
  BY <1>4 DEF Event, Events, EventKinds, Watching
<1>7. /\ next.watchers = objectives[o].watchers /\ next.assignee = objectives[o].assignee
      /\ next.status # Absent
  BY <1>3 DEF LogInv, TypeInv, TypeOK, Row, Absent
<1> QED
  BY <1>1, <1>5, <1>6, <1>7, OneEventTells

LEMMA CancelTells ==
  ASSUME LogInv, LogInv', TellInv, NEW o \in Ids, NEW by \in Members, Cancel(o, by)
  PROVE  TellInv'
<1>3. PICK next : next = [objectives[o] EXCEPT !.status = "cancelled"]
  OBVIOUS
<1>4. PICK e : e = Event("cancelled", by, Nobody, Nobody)
  OBVIOUS
<1>5. Mutate(o, next, <<e>>, by) /\ IsOpen(o) /\ inflight' \subseteq inflight
  BY <1>3, <1>4 DEF Cancel
<1>6. e \in Events /\ e.kind = "cancelled" /\ e.name = Nobody /\ e.actor = by /\ ~Watching(e)
  BY <1>4 DEF Event, Events, EventKinds, Watching
<1>7. /\ next.watchers = objectives[o].watchers /\ next.assignee = objectives[o].assignee
      /\ next.status # Absent
  BY <1>3 DEF LogInv, TypeInv, TypeOK, Row, Absent
<1> QED
  BY <1>5, <1>6, <1>7, OneEventTells

LEMMA ReassignTells ==
  ASSUME LogInv, LogInv', TellInv, NEW o \in Ids, NEW by \in Members, NEW to \in Members,
         Reassign(o, by, to)
  PROVE  TellInv'
<1>1. IsOpen(o) /\ Exists(o) /\ inflight' \subseteq inflight
  BY DEF Reassign, IsOpen, Exists, Open, Absent
<1>2. PICK old \in Members : old = objectives[o].assignee
  BY <1>1 DEF LogInv, TypeInv, GoodRow
<1>3. PICK next : next = [objectives[o] EXCEPT !.assignee = to]
  OBVIOUS
<1>4. PICK e : e = Event("reassigned", by, to, old)
  OBVIOUS
<1>5. Mutate(o, next, <<e>>, by)
  BY <1>2, <1>3, <1>4 DEF Reassign
<1>6. /\ e \in Events /\ e.kind = "reassigned" /\ e.name = to /\ e.left = objectives[o].assignee
      /\ e.actor = by /\ ~Watching(e)
  BY <1>2, <1>4 DEF Event, Events, EventKinds, Watching
<1>7. /\ next.watchers = objectives[o].watchers /\ next.assignee = to
      /\ next.status # Absent
  BY <1>1, <1>3 DEF LogInv, TypeInv, TypeOK, Row, Absent, Exists
<1> QED
  BY <1>1, <1>5, <1>6, <1>7, OneEventTells

LEMMA UpdateWatchersTells ==
  ASSUME LogInv, LogInv', TellInv, NEW o \in Ids, NEW by \in Members, NEW add \in NameLists,
         NEW remove \in NameLists, UpdateWatchers(o, by, add, remove)
  PROVE  TellInv'
<1>1. PICK row : row = objectives[o]
  OBVIOUS
<1>2. PICK new \in SUBSET Members : new = add \ ({row.assignee, row.originator} \cup row.watchers)
  BY DEF NameLists
<1>3. PICK gone \in SUBSET Members : gone = remove \cap row.watchers
  BY DEF NameLists
<1>4. PICK next : next = [row EXCEPT !.watchers = (@ \ gone) \cup new]
  OBVIOUS
<1>5. /\ Exists(o) /\ inflight' = inflight
      /\ \E evs \in WatcherEvents(by, new, gone) : Mutate(o, next, evs, by)
  BY <1>1, <1>2, <1>3, <1>4 DEF UpdateWatchers
<1>6. PICK evs \in WatcherEvents(by, new, gone) : Mutate(o, next, evs, by)
  BY <1>5
<1>7. BatchFor(evs, by, new, gone) /\ GoodBatch(evs)
  BY <1>6, WatcherBatch, WatcherBatchGood
<1>8. row \in Row /\ row.status # Absent
  BY <1>1, <1>5 DEF LogInv, TypeInv, TypeOK, Exists
<1>9. /\ next.status = row.status /\ next.assignee = row.assignee
      /\ next.watchers = (row.watchers \ gone) \cup new
  BY <1>4, <1>8 DEF Row
<1>10. PICK log \in Seq(Events) : log = audit[o]
  BY DEF LogInv, TypeInv, TypeOK
<1>11. FollowsLog(row, log)
  BY <1>1, <1>5, <1>10 DEF LogInv
<1>12. BatchTold(log, evs, next, by)
  BY <1>7, <1>9, <1>11, WatchersTold
<1> QED
  BY <1>5, <1>6, <1>7, <1>8, <1>9, <1>10, <1>12, MutateTells

\* Every step keeps the threads and the queue in step with the audit logs.
LEMMA TellStep == LogInv /\ TellInv /\ [Next]_vars => TellInv'
<1> SUFFICES ASSUME LogInv, LogInv', TellInv, [Next]_vars
             PROVE  TellInv'
  BY LogStep
<1>1. ASSUME NEW o \in Ids, NEW m \in Members,
             BeginUpdate(o, m) \/ BeginComplete(o, m)
      PROVE  TellInv'
  <2>1. PICK r : r.op # "discuss" /\ Accept(r)
    <3>1. CASE BeginUpdate(o, m)
      BY <3>1 DEF BeginUpdate
    <3>2. CASE BeginComplete(o, m)
      BY <3>2 DEF BeginComplete
    <3> QED
      BY <1>1, <3>1, <3>2
  <2> QED
    BY <2>1, AcceptTells DEF Accept
<1>2. ASSUME NEW o \in Ids, NEW m \in Members, BeginDiscuss(o, m)
      PROVE  TellInv'
  <2>1. PICK r : r = [op |-> "discuss", by |-> m, obj |-> o,
                      to |-> ThreadMembers(objectives[o])]
    OBVIOUS
  <2>2. /\ Accept(r) /\ Exists(o) /\ m \in ThreadMembers(objectives[o])
    BY <1>2, <2>1 DEF BeginDiscuss
  <2>3. /\ FollowsLog(objectives[o], audit[o]) /\ objectives[o].watchers \subseteq Members
        /\ audit[o] \in Seq(Events)
    BY <2>2 DEF LogInv, TypeInv, TypeOK, GoodRow, Row
  <2>4. Len(audit[o]) \in Nat
    BY <2>3, LenProperties
  <2>5. ThreadMembers(objectives[o]) \subseteq Connected(audit[o])
    BY <2>3, <2>4, RowConnected
  <2>6. r.obj = o /\ r.to \cup {r.by} \subseteq Connected(audit[o])
    BY <2>1, <2>2, <2>5
  <2> QED
    BY <2>2, <2>6, AcceptTells DEF Accept
<1>3. ASSUME NEW r \in inflight, Refuse(r)
      PROVE  TellInv'
  BY <1>3 DEF Refuse, TellInv, PostersKnown
<1>4. ASSUME Crash
      PROVE  TellInv'
  <2>1. outbox' = <<>> /\ inflight' = {} /\ UNCHANGED <<audit, thread>> /\ Len(<<>>) = 0
    BY <1>4, EmptySeq DEF Crash
  <2>2. QueueTold(<<>>, audit) /\ QueueOrdered(<<>>) /\ \A p, t : Ahead(p, t, <<>>)
    BY <2>1 DEF QueueTold, QueueOrdered, Ahead
  <2> QED
    BY <2>1, <2>2 DEF TellInv, PostersKnown
<1>5. ASSUME UNCHANGED vars
      PROVE  TellInv'
  BY <1>5 DEF TellInv, vars
<1> QED
  BY <1>1, <1>2, <1>3, <1>4, <1>5, CreateTells, DiscussTells, PublishTells, BlockTells,
     UnblockTells, CompleteTells, CancelTells, ReassignTells, UpdateWatchersTells DEF Next

LEMMA TellInvInit == Init => TellInv
<1> SUFFICES ASSUME Init PROVE TellInv
  OBVIOUS
<1>1. Len(<<>>) = 0
  BY EmptySeq
<1> QED
  BY <1>1 DEF Init, TellInv, QueueTold, QueueOrdered, LineTold, LineOrdered, Ahead, PostersKnown

LEMMA TellInvAlways == Spec => [](LogInv /\ TellInv)
  BY LogInvAlways, TellInvInit, TellStep, PTL DEF Spec

\* A thread and the queue behind it, read as one line.
LineAnnounces(line, o, log) ==
  \A i \in DOMAIN line : line[i].obj = o /\ Lifecycle(line[i]) => Announces(line[i], log)
LineInOrder(line, o) ==
  \A i, j \in DOMAIN line :
    /\ i < j
    /\ line[i].obj = o /\ Lifecycle(line[i])
    /\ line[j].obj = o /\ Lifecycle(line[j])
    => line[i].index < line[j].index

LEMMA LineReads ==
  ASSUME NEW t \in Seq(Messages), NEW q \in Seq(Messages), NEW line, line = t \o q, NEW o, NEW log,
         LineTold(o, t, log), LineOrdered(t), Ahead(o, t, q), QueueOrdered(q),
         \A j \in 1..Len(q) : q[j].obj = o => Announces(q[j], log)
  PROVE  LineAnnounces(line, o, log) /\ LineInOrder(line, o)
<1>1. PICK m \in Nat : m = Len(t)
  BY LenProperties
<1>2. PICK k \in Nat : k = Len(q)
  BY LenProperties
<1>3. /\ DOMAIN line = 1..m+k
      /\ \A i \in 1..m+k : \/ i \in 1..m /\ line[i] = t[i]
                           \/ i \in m+1..m+k /\ i - m \in 1..k /\ line[i] = q[i - m]
  BY <1>1, <1>2, ConcatProperties, LenProperties
<1>4. ASSUME NEW i \in 1..m+k, line[i].obj = o, Lifecycle(line[i])
      PROVE  Announces(line[i], log)
  <2>1. CASE i \in 1..m /\ line[i] = t[i]
    BY <1>1, <1>4, <2>1 DEF LineTold, Told
  <2>2. CASE i - m \in 1..k /\ line[i] = q[i - m]
    BY <1>2, <1>4, <2>2
  <2> QED
    BY <1>3, <2>1, <2>2
<1>5. ASSUME NEW i \in 1..m+k, NEW j \in 1..m+k, i < j, line[i].obj = o, Lifecycle(line[i]),
             line[j].obj = o, Lifecycle(line[j])
      PROVE  line[i].index < line[j].index
  <2>1. CASE j \in 1..m /\ line[j] = t[j]
    <3>1. i \in 1..m /\ line[i] = t[i]
      BY <1>3, <1>5, <2>1
    <3> QED
      BY <1>1, <1>5, <2>1, <3>1 DEF LineOrdered
  <2>2. CASE j \in m+1..m+k /\ j - m \in 1..k /\ line[j] = q[j - m]
    <3>1. PICK b \in 1..k : b = j - m /\ line[j] = q[b]
      BY <2>2
    <3>2. CASE i \in 1..m /\ line[i] = t[i]
      BY <1>1, <1>2, <1>5, <3>1, <3>2 DEF Ahead
    <3>3. CASE i \in m+1..m+k /\ i - m \in 1..k /\ line[i] = q[i - m]
      <4>1. PICK a \in 1..k : a = i - m /\ line[i] = q[a]
        BY <3>3
      <4>2. a < b
        BY <1>5, <3>1, <4>1
      <4> QED
        BY <1>2, <1>5, <3>1, <4>1, <4>2 DEF QueueOrdered
    <3> QED
      BY <1>3, <3>2, <3>3
  <2> QED
    BY <1>3, <2>1, <2>2
<1> QED
  BY <1>3, <1>4, <1>5 DEF LineAnnounces, LineInOrder

\* Lifecycle messages reach a thread, and wait behind it, in the order of the
\* audit log: none twice, each with the kind, the actor and the status that the
\* log has at its index, whatever pushes fail and whenever the process dies.
THEOREM ThreadTellsTheAudit == Spec => []ThreadFollowsAudit
<1>1. ASSUME LogInv, TellInv, NEW o \in Ids
      PROVE  LET line == thread[o] \o outbox
                 told == {i \in DOMAIN line : line[i].obj = o /\ Lifecycle(line[i])}
             IN /\ \A i, j \in told : i < j => line[i].index < line[j].index
                /\ \A i \in told :
                     LET m == line[i]
                     IN /\ m.index \in DOMAIN audit[o]
                        /\ m.event = audit[o][m.index].kind
                        /\ m.from = audit[o][m.index].actor
                        /\ StatusAt(audit[o], m.index, m.status)
  <2>1. PICK line : line = thread[o] \o outbox
    OBVIOUS
  <2>2. PICK log \in Seq(Events) : log = audit[o]
    BY <1>1 DEF LogInv, TypeInv, TypeOK
  <2>3. PICK t \in Seq(Messages) : t = thread[o]
    BY <1>1 DEF LogInv, TypeInv, TypeOK
  <2>4. PICK q \in Seq(Messages) : q = outbox
    BY <1>1 DEF LogInv, TypeInv, TypeOK
  <2>5. /\ LineTold(o, t, log) /\ LineOrdered(t) /\ Ahead(o, t, q) /\ QueueOrdered(q)
        /\ \A j \in 1..Len(q) : q[j].obj = o => Announces(q[j], log)
    BY <1>1, <2>2, <2>3, <2>4 DEF TellInv, QueueTold, Told
  <2>6. LineAnnounces(line, o, log) /\ LineInOrder(line, o)
    BY <2>1, <2>3, <2>4, <2>5, LineReads
  <2>7. DOMAIN log = 1..Len(log)
    BY LenProperties
  <2> QED
    BY <2>1, <2>2, <2>6, <2>7 DEF Announces, LineAnnounces, LineInOrder
<1>2. LogInv /\ TellInv => ThreadFollowsAudit
  BY <1>1 DEF ThreadFollowsAudit
<1>3. QED
  BY <1>2, TellInvAlways, PTL

\* Whoever an event concerns is among the recipients of its push: the admins,
\* the originator, the actor, the name in the event, the holders before and
\* after it and, unless it is about watchers, everyone then watching.  And no
\* message of a thread, posts whose recipients were fixed before an await
\* included, goes to a name the audit log does not connect with the objective.
THEOREM RightPeopleAreTold == Spec => []RightAudience
<1>1. ASSUME LogInv, TellInv, NEW o \in Ids, NEW k \in DOMAIN thread[o]
      PROVE  /\ thread[o][k].to \subseteq Connected(audit[o])
             /\ Lifecycle(thread[o][k]) => Announces(thread[o][k], audit[o])
  <2>1. thread[o] \in Seq(Messages)
    BY <1>1 DEF LogInv, TypeInv, TypeOK
  <2>2. k \in 1..Len(thread[o])
    BY <1>1, <2>1, LenProperties
  <2> QED
    BY <1>1, <2>2 DEF TellInv, LineTold, Told
<1>2. ASSUME LogInv, TellInv, NEW o \in Ids
      PROVE  DOMAIN audit[o] = 1..Len(audit[o])
  BY <1>2, LenProperties DEF LogInv, TypeInv, TypeOK
<1>3. LogInv /\ TellInv => ConcernedAreTold
  <2> SUFFICES ASSUME LogInv, TellInv, NEW o \in Ids, NEW k \in DOMAIN thread[o],
                      NEW m, m = thread[o][k], Lifecycle(m),
                      NEW e, e = audit[o][m.index]
               PROVE  /\ Admins \cup {audit[o][1].actor, e.actor} \subseteq m.to
                      /\ e.name # Nobody => e.name \in m.to
                      /\ \A x \in Members :
                           HolderAt(audit[o], m.index, x) \/ HolderAt(audit[o], m.index - 1, x)
                             => x \in m.to
                      /\ e.kind \notin {"watcher_added", "watcher_removed"} =>
                           \A x \in Members : WatcherAt(audit[o], m.index, x) => x \in m.to
    BY DEF ConcernedAreTold
  <2>1. Announces(m, audit[o])
    BY <1>1
  <2> QED
    BY <2>1 DEF Announces, Watching
<1>4. LogInv /\ TellInv => NoStrangers
  BY <1>1, <1>2 DEF NoStrangers, Connected
<1>5. QED
  BY <1>3, <1>4, TellInvAlways, PTL DEF RightAudience
=============================================================================
