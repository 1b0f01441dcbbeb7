------------------------------ MODULE FileStore ------------------------------
(***************************************************************************)
(* The team's file store (apps/server/src/files/): a tree of entries and   *)
(* their grants in SQLite, and the bytes in a content-addressed directory. *)
(*                                                                         *)
(* Everything that touches only the tables is one step, because the        *)
(* database is synchronous.  An upload is not: it creates the directories  *)
(* above its target, streams its bytes into the blob directory, reusing    *)
(* bytes that are there, and only then commits a row.  The bytes of a row  *)
(* that lost its last reference are unlinked after the transaction, while  *)
(* other requests run.  A message and the grants of its attachment are one *)
(* step: the push between them is awaited, but never waits for anything.   *)
(*                                                                         *)
(* A path is a sequence of segments; a hash stands for the bytes.          *)
(***************************************************************************)
EXTENDS Integers, FiniteSets, Sequences, Functions

CONSTANTS
  Names,       \* members of the team
  Managers,    \* those with members.manage
  Objective,   \* the namespace segment of the one objective, <<Shared, Objective>>
  Shared,      \* the segment "objectives"
  Crew,        \* members of that objective
  Paths,       \* paths a request may name
  Others,      \* path -> candidates of dedupeBasename, in order
  Alike,       \* directory -> paths outside it that its LIKE pattern matches
  Hashes,      \* contents
  NoHash,
  Conns,       \* requests in progress at a time
  MaxWrites,   \* bound: uploads and copies
  MaxEdits,    \* bound: removals, moves and new directories
  MaxPosts,    \* bound: messages with an attachment
  MaxFaults    \* bound: crashes and failed commits

Prefixes(p) == {SubSeq(p, 1, k) : k \in 1..Len(p)}
Parent(p) == SubSeq(p, 1, Len(p) - 1)
Root == <<>>
IsPath(p) == p \in Seq(Range(p)) \ {Root}

\* isAncestorPath, of a path other than the root
Inside(d, p) == d \in Prefixes(p)

ASSUME PathsAssumption ==
  /\ IsFiniteSet(Paths)
  /\ \A p \in Paths : IsPath(p) /\ Prefixes(p) \subseteq Paths
  /\ {<<n>> : n \in Names} \subseteq Paths
ASSUME AlikeAssumption ==
  /\ Alike \in [Paths -> SUBSET Paths]
  /\ \A d \in Paths : \A p \in Alike[d] : \A q \in Paths : Inside(p, q) => q \in Alike[d]
ASSUME OthersAssumption ==
  \A p \in Paths : Others[p] \in Seq({q \in Paths : Parent(q) = Parent(p)})
ASSUME PeopleAssumption ==
  /\ IsFiniteSet(Names) /\ Managers \subseteq Names /\ Crew \subseteq Names
  /\ Shared \notin Names
ASSUME ContentAssumption == IsFiniteSet(Hashes) /\ NoHash \notin Hashes
ASSUME BoundsAssumption == {MaxWrites, MaxEdits, MaxPosts, MaxFaults} \subseteq Nat

VARIABLES
  entries,    \* table fs_entries: path -> [kind, hash]
  refs,       \* table fs_blobs: hash -> refcount, 0 where there is no row
  grants,     \* table fs_grants
  disk,       \* hashes whose bytes are in the blob directory
  unlinks,    \* hash -> unlinks asked for and not yet done
  requests,   \* connection -> request that waits for something
  leaked,     \* history: hash -> overwrites with the same bytes
  exposed,    \* history: hashes whose bytes an upload and an unlink raced for
  outlived,   \* history: paths whose upload outlived their directory
  writes, edits, posts, faults

tables == <<entries, refs, grants>>
blobs == <<disk, unlinks>>
history == <<leaked, exposed, outlived>>
vars == <<tables, blobs, requests, history, writes, edits, posts, faults>>

Directory == [kind |-> "directory", hash |-> NoHash]
File(h) == [kind |-> "file", hash |-> h]
Grants == [path : Paths, viewer : Names, via : 1..MaxPosts]
Collisions == {"error", "overwrite", "suffix"}

Uploads == [path : Paths, collision : Collisions, hash : Hashes,
            stage : {"streaming", "renaming", "stored"}]

TablesOK ==
  /\ entries \in UNION {[S -> {Directory} \cup {File(h) : h \in Hashes}] : S \in SUBSET Paths}
  /\ refs \in [Hashes -> Nat]
  /\ grants \subseteq Grants
BlobsOK == disk \subseteq Hashes /\ unlinks \in [Hashes -> Nat]
RequestsOK == DOMAIN requests \subseteq Conns /\ \A c \in DOMAIN requests : requests[c] \in Uploads
HistoryOK ==
  /\ leaked \in [Hashes -> Nat] /\ exposed \subseteq Hashes
  /\ outlived \subseteq Paths
CountsOK == writes \in 0..MaxWrites /\ edits \in 0..MaxEdits /\ posts \in 0..MaxPosts /\ faults \in 0..MaxFaults
TypeOK == TablesOK /\ BlobsOK /\ RequestsOK /\ HistoryOK /\ CountsOK

\* The first boot: every member has a home.
Init ==
  /\ entries = [p \in {<<n>> : n \in Names} |-> Directory]
  /\ refs = [h \in Hashes |-> 0] /\ grants = {}
  /\ disk = {} /\ unlinks = [h \in Hashes |-> 0]
  /\ requests = [c \in {} |-> 0]
  /\ leaked = [h \in Hashes |-> 0] /\ exposed = {} /\ outlived = {}
  /\ writes = 0 /\ edits = 0 /\ posts = 0 /\ faults = 0
-----------------------------------------------------------------------------
(* Questions the handlers ask. *)

With(f, k, v) == [x \in DOMAIN f \cup {k} |-> IF x = k THEN v ELSE f[x]]
Without(f, K) == Restrict(f, DOMAIN f \ K)

InNamespace(p) == Len(p) >= 2 /\ p[1] = Shared /\ p[2] = Objective
InCrew(n, p) == InNamespace(p) /\ n \in Crew
CanWrite(n, p) == n \in Managers \/ p[1] = n \/ InCrew(n, p)
HasGrant(p, n) == \E g \in grants : g.path = p /\ g.viewer = n
CanRead(n, p) == CanWrite(n, p) \/ HasGrant(p, n)

IsFile(p) == p \in DOMAIN entries /\ entries[p].kind = "file"
Attachable(n, p) == IsFile(p) /\ CanRead(n, p)
IsDirectory(p) == p \in DOMAIN entries /\ entries[p].kind = "directory"
Entered(h) == {p \in DOMAIN entries : entries[p].hash = h}

\* ensureDirectoryTree(p): it climbs to the first prefix that exists, gives up
\* when that is a file, and creates what is missing below it.
Missing(p) == {q \in Prefixes(p) : \A r \in Prefixes(p) : r \in DOMAIN entries => Len(r) < Len(q)}
Blocked(p) ==
  \E q \in Prefixes(p) : /\ IsFile(q)
                         /\ \A r \in Prefixes(p) : r \in DOMAIN entries => Len(r) <= Len(q)
WithTree(p) == [q \in DOMAIN entries \cup Missing(p) |->
                  IF q \in DOMAIN entries THEN entries[q] ELSE Directory]

\* Where a new file lands among the entries E: nowhere when it is refused.
Free(E, p) == {i \in DOMAIN Others[p] : Others[p][i] \notin DOMAIN E}
Lands(E, p, how) ==
  IF p \notin DOMAIN E THEN {p}
  ELSE IF E[p].kind = "directory" \/ how = "error" THEN {}
  ELSE IF how = "overwrite" THEN {p}
  ELSE {Others[p][i] : i \in {j \in Free(E, p) : \A k \in Free(E, p) : j <= k}}

\* The hash that loses its last reference when q is overwritten with h.
\* Mutant: off by one.
DroppedEarly(E, q, h) ==
  IF q \in DOMAIN E /\ E[q].hash # h /\ refs[E[q].hash] <= 2 THEN {E[q].hash} ELSE {}
Dropped(E, q, h) ==
  IF q \in DOMAIN E /\ E[q].hash # h /\ refs[E[q].hash] <= 1 THEN {E[q].hash} ELSE {}

\* An upload of h knows, or is about to make, the bytes it will refer to.
Counted(h) ==
  \E c \in DOMAIN requests :
    requests[c].hash = h /\ requests[c].stage # "streaming"

AskUnlink(H) ==
  /\ unlinks' = [h \in Hashes |-> unlinks[h] + IF h \in H THEN 1 ELSE 0]
  /\ exposed' = exposed \cup {h \in H : Counted(h)}

\* The database refuses a transaction after it has asked for the unlink of what
\* it meant to drop: the row keeps its reference, and its bytes go.
RollBack(H) ==
  /\ faults < MaxFaults /\ faults' = faults + 1
  /\ unlinks' = [h \in Hashes |-> unlinks[h] + IF h \in H THEN 1 ELSE 0]
  /\ exposed' = exposed \cup H
  /\ UNCHANGED <<refs, grants, disk, leaked, outlived>>

-----------------------------------------------------------------------------
(* Writing. *)

\* Mutant of Put: the reference of the file that is overwritten stays counted.
PutCountingBoth(E, q, h) ==
  /\ entries' = With(E, q, File(h))
  /\ refs' = [refs EXCEPT ![h] = @ + 1]
  /\ AskUnlink({})
  /\ leaked' = [leaked EXCEPT ![h] = @ + IF q \in DOMAIN E /\ E[q].hash = h THEN 1 ELSE 0]
  /\ outlived' = IF Len(q) = 1 \/ (Parent(q) \in DOMAIN E /\ E[Parent(q)] = Directory)
                 THEN outlived ELSE outlived \cup {q}
  /\ UNCHANGED <<grants, disk>>

\* The transaction of writeFile and copyByBlobRef, given where the file lands.
Put(E, q, h) ==
  /\ entries' = With(E, q, File(h))
  /\ refs' = [x \in Hashes |->
       refs[x] + (IF x = h THEN 1 ELSE 0)
               - (IF q \in DOMAIN E /\ E[q].hash = x /\ x # h THEN 1 ELSE 0)]
  /\ AskUnlink(Dropped(E, q, h))
  /\ leaked' = [leaked EXCEPT ![h] = @ + IF q \in DOMAIN E /\ E[q].hash = h THEN 1 ELSE 0]
  /\ outlived' = IF Len(q) = 1 \/ (Parent(q) \in DOMAIN E /\ E[Parent(q)] = Directory)
                 THEN outlived ELSE outlived \cup {q}
  /\ UNCHANGED <<grants, disk>>

BeginUpload(c) ==
  /\ c \notin DOMAIN requests /\ writes < MaxWrites
  /\ \E n \in Names, p \in Paths, how \in Collisions, h \in Hashes :
       /\ CanWrite(n, p)
       /\ ~Blocked(Parent(p))
       /\ entries' = WithTree(Parent(p))
       /\ requests' = With(requests, c,
            [path |-> p, collision |-> how, hash |-> h, stage |-> "streaming"])
  /\ writes' = writes + 1
  /\ UNCHANGED <<refs, grants, blobs, history, edits, posts, faults>>

\* The bytes are in a temporary file; stat says whether the blob is there.
Look(c) ==
  /\ c \in DOMAIN requests
  /\ LET h == requests[c].hash IN
       /\ requests[c].stage = "streaming"
       /\ requests' = [requests EXCEPT ![c].stage = IF h \in disk THEN "stored" ELSE "renaming"]
       /\ exposed' = IF unlinks[h] > 0 THEN exposed \cup {h} ELSE exposed
  /\ UNCHANGED <<tables, blobs, leaked, outlived, writes, edits, posts, faults>>

Rename(c) ==
  /\ c \in DOMAIN requests
  /\ requests[c].stage = "renaming"
  /\ requests' = [requests EXCEPT ![c].stage = "stored"]
  /\ disk' = disk \cup {requests[c].hash}
  /\ UNCHANGED <<tables, unlinks, history, writes, edits, posts, faults>>

\* Too many bytes, or the connection broke.
Abandon(c) ==
  /\ c \in DOMAIN requests
  /\ requests[c].stage = "streaming"
  /\ requests' = Without(requests, {c})
  /\ UNCHANGED <<tables, blobs, history, writes, edits, posts, faults>>

Stored(c) ==
  /\ c \in DOMAIN requests
  /\ requests[c].stage = "stored"
  /\ requests' = Without(requests, {c})

Landing(c) == Lands(entries, requests[c].path, requests[c].collision)

Commit(c) ==
  /\ Stored(c)
  /\ \E q \in Landing(c) : Put(entries, q, requests[c].hash)
  /\ UNCHANGED <<writes, edits, posts, faults>>

Refuse(c) ==
  /\ Stored(c)
  /\ Landing(c) = {}
  /\ UNCHANGED <<tables, blobs, history, writes, edits, posts, faults>>

CommitFails(c) ==
  /\ Stored(c)
  /\ \E q \in Landing(c) : RollBack(Dropped(entries, q, requests[c].hash))
  /\ UNCHANGED <<entries, writes, edits, posts>>

\* copyByBlobRef makes the directories even when the copy is then refused.
Copy ==
  /\ writes < MaxWrites /\ writes' = writes + 1
  /\ \E n \in Names, p, q \in Paths, how \in Collisions :
       LET E == WithTree(Parent(q)) IN
         /\ CanRead(n, p) /\ CanWrite(n, q) /\ IsFile(p)
         /\ ~Blocked(Parent(q))
         /\ \/ \E r \in Lands(E, q, how) : Put(E, r, entries[p].hash)
            \/ /\ Lands(E, q, how) = {}
               /\ entries' = E
               /\ UNCHANGED <<refs, grants, blobs, history>>
  /\ UNCHANGED <<requests, edits, posts, faults>>

\* The directories were made outside the transaction, and stay.
CopyFails ==
  /\ writes < MaxWrites /\ writes' = writes + 1
  /\ \E n \in Names, p, q \in Paths, how \in Collisions :
       LET E == WithTree(Parent(q)) IN
         /\ CanRead(n, p) /\ CanWrite(n, q) /\ IsFile(p)
         /\ ~Blocked(Parent(q))
         /\ entries' = E
         /\ \E r \in Lands(E, q, how) : RollBack(Dropped(E, r, entries[p].hash))
  /\ UNCHANGED <<requests, edits, posts>>

Edited == edits < MaxEdits /\ edits' = edits + 1

\* mkdir; without `recursive` it only adds that the parent has to exist.
Mkdir ==
  /\ Edited
  /\ \E n \in Names, p \in Paths :
       CanWrite(n, p) /\ ~Blocked(p) /\ entries' = WithTree(p)
  /\ UNCHANGED <<refs, grants, blobs, requests, history, writes, posts, faults>>

Children(p) == {q \in DOMAIN entries : Len(q) > 1 /\ Parent(q) = p}
\* Mutant of Subtree: only what lists the directory as its parent.
SubtreeOneLevel(p) == {p} \cup Children(p)
Subtree(p) == {q \in DOMAIN entries : Inside(p, q) \/ q \in Alike[p]}

\* Grants go with their paths.  Mutant: they stay.
KeepGrants(P) == UNCHANGED grants
DropGrants(P) == grants' = {g \in grants : g.path \notin P}

Remove ==
  /\ Edited
  /\ \E n \in Names, p \in DOMAIN entries, recursive \in BOOLEAN :
       LET gone == IF IsFile(p) THEN {p} ELSE Subtree(p)
           left == [h \in Hashes |-> refs[h] - Cardinality(Entered(h) \cap gone)] IN
         /\ CanWrite(n, p)
         /\ IsFile(p) \/ recursive \/ Children(p) = {}
         /\ entries' = Without(entries, gone)
         /\ DropGrants(gone)
         /\ refs' = left
         /\ AskUnlink({h \in Hashes : refs[h] > 0 /\ left[h] = 0})
         /\ outlived' = outlived \ gone
  /\ UNCHANGED <<disk, requests, leaked, writes, posts, faults>>

\* The directories above q are made before anything is asked about q itself.
Move ==
  /\ Edited
  /\ \E n \in Names, p, q \in Paths :
       LET E == WithTree(Parent(q)) IN
         /\ CanWrite(n, p) /\ CanWrite(n, q)
         /\ IsFile(p) /\ ~Inside(p, q)
         /\ ~Blocked(Parent(q))
         /\ \/ /\ q \in DOMAIN E
               /\ entries' = E
               /\ UNCHANGED <<grants, outlived>>
            \/ /\ q \notin DOMAIN E
               /\ entries' = With(Without(E, {p}), q, E[p])
               /\ grants' = {IF g.path = p THEN [g EXCEPT !.path = q] ELSE g : g \in grants}
               /\ outlived' = outlived \ {p}
  /\ UNCHANGED <<refs, blobs, requests, leaked, exposed, writes, posts, faults>>

Unlink(h) ==
  /\ unlinks[h] > 0
  /\ unlinks' = [unlinks EXCEPT ![h] = @ - 1]
  /\ disk' = disk \ {h}
  /\ UNCHANGED <<tables, requests, history, writes, edits, posts, faults>>

\* The process dies with its requests and its unlinks; the next boot makes the
\* homes that are missing.
Crash ==
  /\ faults < MaxFaults /\ faults' = faults + 1
  /\ entries' = [p \in DOMAIN entries \cup {<<n>> : n \in Names} |->
                   IF p \in DOMAIN entries THEN entries[p] ELSE Directory]
  /\ requests' = [c \in {} |-> 0]
  /\ unlinks' = [h \in Hashes |-> 0]
  /\ UNCHANGED <<refs, grants, disk, history, writes, edits, posts>>

-----------------------------------------------------------------------------
(* Attachments. *)

\* The owner of a file needs no grant.
Granted(p, viewers) == [path : {p}, via : {posts + 1}, viewer : viewers \ {p[1]}]

\* An attachment is granted to both ends of a direct message, to the team for a
\* broadcast and for a message to a channel, whoever is in it, and to the members
\* of an objective's thread.
Post ==
  /\ posts < MaxPosts /\ posts' = posts + 1
  /\ \E n \in Names, p \in Paths, viewers \in SUBSET Names :
       /\ Attachable(n, p)
       /\ \/ n \in viewers /\ Cardinality(viewers) <= 2
          \/ viewers \in {Names, Crew}
       /\ grants' = grants \cup Granted(p, viewers)
  /\ UNCHANGED <<entries, refs, blobs, requests, leaked, exposed, outlived, writes, edits, faults>>

Next ==
  \/ \E c \in Conns :
       \/ BeginUpload(c) \/ Look(c) \/ Rename(c) \/ Abandon(c)
       \/ Commit(c) \/ Refuse(c) \/ CommitFails(c)
  \/ \E h \in Hashes : Unlink(h)
  \/ Copy \/ CopyFails \/ Mkdir \/ Remove \/ Move \/ Post \/ Crash

Spec == Init /\ [][Next]_vars

-----------------------------------------------------------------------------
(* Properties. *)

\* A blob's refcount is the number of entries that refer to it, and one more for
\* every overwrite of a file with the bytes it had: writeFile and copyByBlobRef
\* count the new reference and do not take the old one off.
RefsCountEntries == \A h \in Hashes : refs[h] = Cardinality(Entered(h)) + leaked[h]

\* The bytes of every file are in the blob directory, unless an upload decided
\* to use them while an unlink of them was pending, an unlink was asked for
\* between that decision and the commit, or the commit that asked for it failed.
BytesPresent == \A p \in DOMAIN entries : IsFile(p) => entries[p].hash \in disk \cup exposed

\* Every entry lies in a directory, unless it is a file whose directory was
\* removed while it was uploaded.
TreeClosed ==
  \A p \in DOMAIN entries : Len(p) = 1 \/ IsDirectory(Parent(p)) \/ (p \in outlived /\ IsFile(p))

\* A grant ends with its file, and follows it when it is moved, however deep the
\* removal that took the file.
GrantsHaveFiles == \A g \in grants : IsFile(g.path)

\* A request removes entries of one subtree only: "the target dir plus every row
\* under it" (filesystem-store.ts, remove).
RemovesOneSubtree ==
  [][LET gone == DOMAIN entries \ DOMAIN entries' IN
       gone # {} => \E d \in gone : \A p \in gone : Inside(d, p)]_vars

=============================================================================
