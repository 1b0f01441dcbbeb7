--------------------------- MODULE FileStoreProofs ---------------------------
(***************************************************************************)
(* Theorems about FileStore, for any members and rights, any set of paths  *)
(* and contents, any number of uploads in progress, and directories whose  *)
(* LIKE patterns match whatever they like.                                 *)
(***************************************************************************)
EXTENDS FileStore, FiniteSetTheorems, SequenceTheorems, TLAPS

-----------------------------------------------------------------------------
(* Paths. *)

\* The prefixes of a path: one of every length, each the parent of the next.
LEMMA PrefixFacts ==
  ASSUME NEW d \in Paths \cup {Root}
  PROVE  /\ Len(d) \in Nat /\ (Len(d) = 0 <=> d = Root)
         /\ Prefixes(d) \subseteq Paths
         /\ \A q \in Prefixes(d) : Len(q) \in 1..Len(d)
         /\ \A q, r \in Prefixes(d) : Len(q) = Len(r) => q = r
         /\ \A q \in Prefixes(d) : Len(q) # 1 =>
              Parent(q) \in Prefixes(d) /\ Len(Parent(q)) = Len(q) - 1
         /\ d # Root => d \in Prefixes(d)
<1>1. CASE d = Root
  <2>1. Len(d) = 0 /\ 1..Len(d) = {}
    BY <1>1 DEF Root
  <2> QED
    BY <1>1, <2>1 DEF Prefixes
<1>2. CASE d \in Paths
  <2>1. d \in Seq(Range(d)) /\ d # <<>> /\ Prefixes(d) \subseteq Paths
    BY <1>2, PathsAssumption DEF IsPath, Root
  <2>2. Len(d) \in Nat /\ Len(d) # 0 /\ \A i \in 1..Len(d) : d[i] \in Range(d)
    BY <2>1, LenProperties, EmptySeq, ElementOfSeq
  <2>3. ASSUME NEW k \in 1..Len(d)
        PROVE  SubSeq(d, 1, k) \in Seq(Range(d)) /\ Len(SubSeq(d, 1, k)) = k
    <3>1. \A i \in 1..k : d[i] \in Range(d)
      BY <2>2
    <3>2. k \in Int /\ 1 \in Int /\ 1 <= k
      BY <2>2
    <3> QED
      BY <3>1, <3>2, SubSeqProperties
  <2>4. ASSUME NEW k \in 1..Len(d), k # 1
        PROVE  Parent(SubSeq(d, 1, k)) = SubSeq(d, 1, k - 1)
    <3>1. Parent(SubSeq(d, 1, k)) = SubSeq(SubSeq(d, 1, k), 1, k - 1)
      BY <2>3 DEF Parent
    <3> QED
      BY <2>1, <2>2, <2>4, <3>1, SubSeqOfSubSeq
  <2>5. SubSeq(d, 1, Len(d)) = d
    BY <2>1, SubSeqFull
  <2>6. Prefixes(d) = {SubSeq(d, 1, k) : k \in 1..Len(d)}
    BY DEF Prefixes
  <2>7. ASSUME NEW q \in Prefixes(d), Len(q) # 1
        PROVE  Parent(q) \in Prefixes(d) /\ Len(Parent(q)) = Len(q) - 1
    <3>1. PICK k \in 1..Len(d) : q = SubSeq(d, 1, k)
      BY <2>6
    <3>2. Len(q) = k /\ k - 1 \in 1..Len(d)
      BY <2>2, <2>3, <2>7, <3>1
    <3> QED
      BY <2>3, <2>4, <2>6, <2>7, <3>1, <3>2
  <2>8. d \in Prefixes(d)
    <3>1. Len(d) \in 1..Len(d)
      BY <2>2
    <3>2. SubSeq(d, 1, Len(d)) \in Prefixes(d)
      BY <2>6, <3>1
    <3> QED
      BY <2>5, <3>2
  <2>9. \A q \in Prefixes(d) : Len(q) \in 1..Len(d)
    BY <2>3, <2>6
  <2>10. \A q, r \in Prefixes(d) : Len(q) = Len(r) => q = r
    BY <2>3, <2>6
  <2> QED
    BY <2>1, <2>2, <2>7, <2>8, <2>9, <2>10 DEF Root
<1> QED
  BY <1>1, <1>2

\* A path lies in a path or, of one segment, in the root.
LEMMA ParentFacts ==
  ASSUME NEW p \in Paths
  PROVE  /\ Parent(p) \in Paths \cup {Root} /\ Parent(p) # p
         /\ (Parent(p) = Root) <=> (Len(p) = 1)
         /\ Prefixes(Parent(p)) \subseteq Prefixes(p)
<1>1. p \in Prefixes(p) /\ Len(p) \in Nat \ {0} /\ p # Root
  BY PrefixFacts, PathsAssumption DEF IsPath
<1>2. CASE Len(p) = 1
  <2>1. Parent(p) = Root
    BY <1>2, SubSeqEmpty DEF Parent, Root
  <2>2. Prefixes(Root) = {}
    BY DEF Prefixes, Root
  <2> QED
    BY <1>1, <1>2, <2>1, <2>2
<1>3. CASE Len(p) # 1
  <2>1. Parent(p) \in Prefixes(p) /\ Len(Parent(p)) = Len(p) - 1
    BY <1>1, <1>3, PrefixFacts
  <2>2. Parent(p) \in Paths
    BY <2>1, PrefixFacts
  <2>3. Parent(p) # p /\ Parent(p) # Root
    BY <1>1, <1>3, <2>1, PrefixFacts
  <2>4. ASSUME NEW q \in Prefixes(Parent(p)) PROVE q \in Prefixes(p)
    <3>1. p \in Seq(Range(p))
      BY PathsAssumption DEF IsPath
    <3>2. PICK k \in 1..Len(p) - 1 : q = SubSeq(Parent(p), 1, k)
      BY <2>1 DEF Prefixes
    <3>3. q = SubSeq(p, 1, k)
      BY <1>1, <1>3, <3>1, <3>2, SubSeqOfSubSeq DEF Parent
    <3> QED
      BY <1>1, <3>2, <3>3 DEF Prefixes
  <2>5. Prefixes(Parent(p)) \subseteq Prefixes(p)
    BY <2>4
  <2> QED
    BY <1>3, <2>2, <2>3, <2>5
<1> QED
  BY <1>2, <1>3

-----------------------------------------------------------------------------
(* Tables of entries. *)

Kinds == {Directory} \cup {File(h) : h \in Hashes}
Tables == UNION {[S -> Kinds] : S \in SUBSET Paths}

LEMMA IsTable ==
  ASSUME NEW E
  PROVE  E \in Tables <=> E \in [DOMAIN E -> Kinds] /\ DOMAIN E \subseteq Paths
<1>1. ASSUME E \in Tables PROVE E \in [DOMAIN E -> Kinds] /\ DOMAIN E \subseteq Paths
  <2>1. PICK S \in SUBSET Paths : E \in [S -> Kinds]
    BY <1>1 DEF Tables
  <2> QED
    BY <2>1
<1>2. ASSUME E \in [DOMAIN E -> Kinds], DOMAIN E \subseteq Paths PROVE E \in Tables
  BY <1>2 DEF Tables
<1> QED
  BY <1>1, <1>2

\* A directory has no content, a file has one.
LEMMA KindFacts ==
  ASSUME NEW v \in Kinds
  PROVE  /\ v.kind \in {"directory", "file"}
         /\ v.kind = "directory" <=> v = Directory
         /\ v.kind = "file" <=> v.hash \in Hashes
         /\ v.kind = "file" <=> v # Directory
         /\ v.kind = "file" => v = File(v.hash)
         /\ Directory.hash \notin Hashes
  BY ContentAssumption DEF Kinds, Directory, File

\* A row inserted or updated, and rows deleted.
LEMMA WithFacts ==
  ASSUME NEW E \in Tables, NEW q \in Paths, NEW v \in Kinds
  PROVE  /\ With(E, q, v) \in Tables
         /\ DOMAIN With(E, q, v) = DOMAIN E \cup {q}
         /\ With(E, q, v)[q] = v
         /\ \A p \in DOMAIN E : p # q => With(E, q, v)[p] = E[p]
<1>1. E \in [DOMAIN E -> Kinds] /\ DOMAIN E \subseteq Paths
  BY IsTable
<1>2. With(E, q, v) \in [DOMAIN E \cup {q} -> Kinds]
  BY <1>1 DEF With
<1>3. DOMAIN With(E, q, v) = DOMAIN E \cup {q}
  BY DEF With
<1>4. With(E, q, v) \in Tables
  BY <1>1, <1>2 DEF Tables
<1> QED
  BY <1>3, <1>4 DEF With

LEMMA WithoutFacts ==
  ASSUME NEW E \in Tables, NEW K
  PROVE  /\ Without(E, K) \in Tables
         /\ DOMAIN Without(E, K) = DOMAIN E \ K
         /\ \A p \in DOMAIN E \ K : Without(E, K)[p] = E[p]
<1>1. E \in [DOMAIN E -> Kinds] /\ DOMAIN E \subseteq Paths
  BY IsTable
<1>2. Without(E, K) \in [DOMAIN E \ K -> Kinds]
  BY <1>1 DEF Without, Restrict
<1>3. DOMAIN Without(E, K) = DOMAIN E \ K
  BY DEF Without, Restrict
<1>4. Without(E, K) \in Tables
  BY <1>1, <1>2 DEF Tables
<1> QED
  BY <1>3, <1>4 DEF Without, Restrict

\* E is what is there and directories more, each of them in a directory.
Grown(E) ==
  /\ E \in Tables /\ DOMAIN entries \subseteq DOMAIN E
  /\ \A p \in DOMAIN entries : E[p] = entries[p]
  /\ \A p \in DOMAIN E \ DOMAIN entries :
       /\ E[p] = Directory
       /\ Len(p) = 1 \/ (Parent(p) \in DOMAIN E /\ E[Parent(p)] = Directory)

\* ensureDirectoryTree makes a directory of d and grows the tree, unless a file
\* is in its way.
LEMMA TreeGrows ==
  ASSUME entries \in Tables, NEW d \in Paths \cup {Root}, ~Blocked(d)
  PROVE  /\ Grown(WithTree(d))
         /\ d = Root \/ (d \in DOMAIN WithTree(d) /\ WithTree(d)[d] = Directory)
<1> DEFINE E == WithTree(d)
<1>1. entries \in [DOMAIN entries -> Kinds] /\ DOMAIN entries \subseteq Paths
  BY IsTable
<1>2. /\ DOMAIN E = DOMAIN entries \cup Missing(d)
      /\ \A q \in DOMAIN E : E[q] = IF q \in DOMAIN entries THEN entries[q] ELSE Directory
  BY DEF WithTree
<1>3. Missing(d) \subseteq Prefixes(d) /\ Missing(d) \cap DOMAIN entries = {}
  <2>1. \A q \in Prefixes(d) : Len(q) \in Nat
    BY PrefixFacts
  <2> QED
    BY <2>1 DEF Missing
<1>4. E \in Tables
  <2>1. Directory \in Kinds
    BY DEF Kinds
  <2>2. E \in [DOMAIN entries \cup Missing(d) -> Kinds]
    BY <1>1, <2>1 DEF WithTree
  <2>3. DOMAIN entries \cup Missing(d) \subseteq Paths
    BY <1>1, <1>3, PrefixFacts
  <2> QED
    BY <2>2, <2>3 DEF Tables
<1>5. ASSUME NEW q \in Prefixes(d),
             q \in Missing(d) \/ \A r \in Prefixes(d) : r \in DOMAIN entries => Len(r) <= Len(q)
      PROVE  q \in DOMAIN E /\ E[q] = Directory
  <2>1. CASE q \in Missing(d)
    BY <1>2, <1>3, <2>1
  <2>2. CASE q \in DOMAIN entries
    <3>1. ~IsFile(q)
      BY <1>3, <1>5, <2>2 DEF Blocked
    <3>2. entries[q] \in Kinds
      BY <1>1, <2>2
    <3> QED
      BY <1>2, <2>2, <3>1, <3>2, KindFacts DEF IsFile
  <2>3. CASE q \notin DOMAIN entries /\ q \notin Missing(d)
    <3>1. \A r \in Prefixes(d) : r \in DOMAIN entries => Len(r) < Len(q)
      <4>1. ASSUME NEW r \in Prefixes(d), r \in DOMAIN entries PROVE Len(r) < Len(q)
        <5>1. Len(r) <= Len(q) /\ Len(r) # Len(q)
          BY <1>5, <2>3, <4>1, PrefixFacts
        <5> QED
          BY <5>1, PrefixFacts
      <4> QED
        BY <4>1
    <3> QED
      BY <2>3, <3>1 DEF Missing
  <2> QED
    BY <2>1, <2>2, <2>3
<1>6. ASSUME NEW q \in Missing(d), Len(q) # 1
      PROVE  Parent(q) \in DOMAIN E /\ E[Parent(q)] = Directory
  <2>1. Parent(q) \in Prefixes(d) /\ Len(Parent(q)) = Len(q) - 1 /\ Len(q) \in Nat
    BY <1>3, <1>6, PrefixFacts
  <2>2. \A r \in Prefixes(d) : r \in DOMAIN entries => Len(r) <= Len(Parent(q))
    <3>1. \A r \in Prefixes(d) : Len(r) \in Nat /\ (r \in DOMAIN entries => Len(r) < Len(q))
      BY <1>6, PrefixFacts DEF Missing
    <3> QED
      BY <2>1, <3>1
  <2> QED
    BY <1>5, <2>1, <2>2
<1>7. ASSUME d # Root PROVE d \in DOMAIN E /\ E[d] = Directory
  <2>1. d \in Prefixes(d) /\ \A r \in Prefixes(d) : Len(r) <= Len(d)
    BY <1>7, PrefixFacts
  <2> QED
    BY <1>5, <2>1
<1> QED
  BY <1>2, <1>3, <1>4, <1>6, <1>7 DEF Grown

-----------------------------------------------------------------------------
(* What does not concern the tables: bounds, requests, bytes. *)

LEMMA CountsKept == CountsOK /\ [Next]_vars => CountsOK'
<1> SUFFICES ASSUME CountsOK, [Next]_vars PROVE CountsOK'
  OBVIOUS
<1>1. {MaxWrites, MaxEdits, MaxPosts, MaxFaults} \subseteq Nat
  BY BoundsAssumption
<1>2. CASE \E c \in Conns : BeginUpload(c) \/ Look(c) \/ Rename(c) \/ Abandon(c)
                            \/ Commit(c) \/ Refuse(c) \/ CommitFails(c)
  BY <1>1, <1>2 DEF CountsOK, BeginUpload, Look, Rename, Abandon, Commit, Refuse, CommitFails, RollBack
<1>3. CASE \E h \in Hashes : Unlink(h)
  BY <1>3 DEF CountsOK, Unlink
<1>4. CASE Mkdir \/ Remove \/ Move
  <2>1. edits < MaxEdits /\ edits' = edits + 1 /\ UNCHANGED <<writes, posts, faults>>
    <3>1. CASE Mkdir
      BY <3>1 DEF Mkdir, Edited
    <3>2. CASE Remove
      BY <3>2 DEF Remove, Edited
    <3>3. CASE Move
      BY <3>3 DEF Move, Edited
    <3> QED
      BY <1>4, <3>1, <3>2, <3>3
  <2> QED
    BY <1>1, <2>1 DEF CountsOK
<1>6. CASE Copy
  BY <1>1, <1>6 DEF CountsOK, Copy
<1>8. CASE CopyFails
  BY <1>1, <1>8 DEF CountsOK, CopyFails, RollBack
<1>7. CASE Post \/ Crash
  BY <1>1, <1>7 DEF CountsOK, Post, Crash
<1>5. CASE UNCHANGED vars
  BY <1>5 DEF CountsOK, vars
<1> QED
  BY <1>2, <1>3, <1>4, <1>5, <1>6, <1>7, <1>8 DEF Next

LEMMA RequestsKept == RequestsOK /\ [Next]_vars => RequestsOK'
<1> SUFFICES ASSUME RequestsOK, [Next]_vars PROVE RequestsOK'
  OBVIOUS
<1> USE DEF RequestsOK
<1>1. ASSUME NEW c \in Conns, BeginUpload(c) PROVE RequestsOK'
  <2>1. PICK p \in Paths, how \in Collisions, h \in Hashes :
          requests' = With(requests, c,
            [path |-> p, collision |-> how, hash |-> h, stage |-> "streaming"])
    BY <1>1 DEF BeginUpload
  <2>2. [path |-> p, collision |-> how, hash |-> h, stage |-> "streaming"] \in Uploads
    BY DEF Uploads
  <2>3. /\ DOMAIN requests' = DOMAIN requests \cup {c}
        /\ requests'[c] \in Uploads
        /\ \A d \in DOMAIN requests : d # c => requests'[d] = requests[d]
    BY <2>1, <2>2 DEF With
  <2> QED
    BY <2>3
<1>2. ASSUME NEW c \in Conns, Look(c) \/ Rename(c) PROVE RequestsOK'
  <2>1. c \in DOMAIN requests /\ requests[c] \in Uploads
    BY <1>2 DEF Look, Rename
  <2>2. PICK s \in {"streaming", "renaming", "stored"} :
          requests' = [requests EXCEPT ![c].stage = s]
    BY <1>2 DEF Look, Rename
  <2>3. [requests[c] EXCEPT !.stage = s] \in Uploads
    BY <2>1 DEF Uploads
  <2> QED
    BY <2>1, <2>2, <2>3
<1>3. ASSUME NEW c \in Conns, Abandon(c) \/ Commit(c) \/ Refuse(c) \/ CommitFails(c)
      PROVE  RequestsOK'
  <2>1. requests' = Without(requests, {c})
    BY <1>3 DEF Abandon, Commit, Refuse, CommitFails, Stored
  <2> QED
    BY <2>1 DEF Without, Restrict
<1>4. CASE Crash
  BY <1>4 DEF Crash
<1>5. CASE \/ Copy \/ CopyFails \/ Mkdir \/ Remove \/ Move \/ Post
           \/ (\E h \in Hashes : Unlink(h)) \/ UNCHANGED vars
  <2>1. requests' = requests
    BY <1>5 DEF Copy, CopyFails, Mkdir, Remove, Move, Post, Unlink, vars
  <2> QED
    BY <2>1
<1> QED
  BY <1>1, <1>2, <1>3, <1>4, <1>5 DEF Next

LEMMA UnlinksAsked ==
  ASSUME BlobsOK, NEW H, AskUnlink(H)
  PROVE  unlinks' \in [Hashes -> Nat]
  BY DEF BlobsOK, AskUnlink

LEMMA RollBackAsked ==
  ASSUME BlobsOK, NEW H, RollBack(H)
  PROVE  disk' = disk /\ unlinks' \in [Hashes -> Nat]
  BY DEF BlobsOK, RollBack

LEMMA BlobsKept == BlobsOK /\ RequestsOK /\ [Next]_vars => BlobsOK'
<1> SUFFICES ASSUME BlobsOK, RequestsOK, [Next]_vars PROVE BlobsOK'
  OBVIOUS
<1>1. CASE \E c \in Conns : Commit(c)
  <2>1. disk' = disk /\ unlinks' \in [Hashes -> Nat]
    BY <1>1, UnlinksAsked DEF Commit, Put
  <2> QED
    BY <2>1 DEF BlobsOK
<1>8. CASE CopyFails \/ \E c \in Conns : CommitFails(c)
  <2>1. PICK H : RollBack(H)
    BY <1>8 DEF CopyFails, CommitFails
  <2> QED
    BY <2>1, RollBackAsked DEF BlobsOK
<1>2. CASE Copy
  <2>1. disk' = disk /\ unlinks' \in [Hashes -> Nat]
    BY <1>2, UnlinksAsked DEF Copy, Put, blobs, BlobsOK
  <2> QED
    BY <2>1 DEF BlobsOK
<1>3. CASE Remove
  <2>1. disk' = disk /\ unlinks' \in [Hashes -> Nat]
    BY <1>3, UnlinksAsked DEF Remove
  <2> QED
    BY <2>1 DEF BlobsOK
<1>4. CASE \E c \in Conns : Rename(c)
  <2>1. PICK c \in DOMAIN requests : disk' = disk \cup {requests[c].hash} /\ unlinks' = unlinks
    BY <1>4 DEF Rename
  <2> QED
    BY <2>1 DEF BlobsOK, RequestsOK, Uploads
<1>5. CASE \E h \in Hashes : Unlink(h)
  <2>1. PICK h \in Hashes : unlinks[h] > 0 /\ unlinks' = [unlinks EXCEPT ![h] = @ - 1] /\ disk' = disk \ {h}
    BY <1>5 DEF Unlink
  <2>2. unlinks[h] \in Nat /\ unlinks[h] - 1 \in Nat
    BY <2>1 DEF BlobsOK
  <2> QED
    BY <2>1, <2>2 DEF BlobsOK
<1>6. CASE Crash
  BY <1>6 DEF Crash, BlobsOK
<1>7. CASE \/ \E c \in Conns : BeginUpload(c) \/ Look(c) \/ Abandon(c) \/ Refuse(c)
           \/ Mkdir \/ Move \/ Post \/ UNCHANGED vars
  <2>1. UNCHANGED blobs
    BY <1>7 DEF BeginUpload, Look, Abandon, Refuse, Mkdir, Move, Post, vars
  <2> QED
    BY <2>1 DEF BlobsOK, blobs
<1> QED
  BY <1>1, <1>2, <1>3, <1>4, <1>5, <1>6, <1>7, <1>8 DEF Next

-----------------------------------------------------------------------------
(* Counting references. *)

Holding(E, h) == {p \in DOMAIN E : E[p].hash = h}

LEMMA HoldingFinite ==
  ASSUME NEW E \in Tables, NEW h
  PROVE  IsFiniteSet(Holding(E, h)) /\ Cardinality(Holding(E, h)) \in Nat
<1>1. Holding(E, h) \subseteq Paths
  BY IsTable DEF Holding
<1>2. IsFiniteSet(Holding(E, h))
  BY <1>1, PathsAssumption, FS_Subset
<1> QED
  BY <1>2, FS_CardinalityType

\* Directories refer to nothing.
LEMMA GrownHolds ==
  ASSUME NEW E, Grown(E), NEW h \in Hashes
  PROVE  Holding(E, h) = Entered(h)
<1>1. Directory.hash # h
  BY ContentAssumption DEF Directory
<1> QED
  BY <1>1 DEF Grown, Holding, Entered

\* A file put at q refers to its bytes, and what was there no longer to its own.
LEMMA PutHolds ==
  ASSUME NEW E \in Tables, NEW q \in Paths, NEW h \in Hashes, NEW x \in Hashes
  PROVE  Cardinality(Holding(With(E, q, File(h)), x)) =
           IF x = h THEN Cardinality(Holding(E, x)) + (IF q \in Holding(E, x) THEN 0 ELSE 1)
                    ELSE Cardinality(Holding(E, x)) - (IF q \in Holding(E, x) THEN 1 ELSE 0)
<1> DEFINE F == With(E, q, File(h))
<1>1. /\ F \in Tables /\ DOMAIN F = DOMAIN E \cup {q}
      /\ F[q] = File(h) /\ \A p \in DOMAIN E : p # q => F[p] = E[p]
  <2>1. File(h) \in Kinds
    BY DEF Kinds
  <2> QED
    BY <2>1, WithFacts
<1>2. File(h).hash = h
  BY DEF File
<1>3. IsFiniteSet(Holding(E, x)) /\ Cardinality(Holding(E, x)) \in Nat
  BY HoldingFinite
<1> HIDE DEF F
<1>5. ASSUME x = h
      PROVE  Cardinality(Holding(F, x)) = Cardinality(Holding(E, x)) + (IF q \in Holding(E, x) THEN 0 ELSE 1)
  <2>1. Holding(F, x) = Holding(E, x) \cup {q}
    BY <1>1, <1>2, <1>5 DEF Holding
  <2> QED
    BY <1>3, <2>1, FS_AddElement
<1>6. ASSUME x # h
      PROVE  Cardinality(Holding(F, x)) = Cardinality(Holding(E, x)) - (IF q \in Holding(E, x) THEN 1 ELSE 0)
  <2>1. Holding(F, x) = Holding(E, x) \ {q}
    BY <1>1, <1>2, <1>6 DEF Holding
  <2>2. q \in Holding(E, x) => Cardinality(Holding(E, x) \ {q}) = Cardinality(Holding(E, x)) - 1
    BY <1>3, FS_RemoveElement
  <2>3. q \notin Holding(E, x) => Holding(E, x) \ {q} = Holding(E, x)
    OBVIOUS
  <2> QED
    BY <1>3, <2>1, <2>2, <2>3
<1> QED
  BY <1>5, <1>6 DEF F

LEMMA RemoveHolds ==
  ASSUME NEW E \in Tables, NEW K, NEW x
  PROVE  /\ Cardinality(Holding(Without(E, K), x)) =
              Cardinality(Holding(E, x)) - Cardinality(Holding(E, x) \cap K)
         /\ Cardinality(Holding(E, x) \cap K) \in Nat
         /\ Cardinality(Holding(Without(E, K), x)) \in Nat
<1>1. Holding(Without(E, K), x) = Holding(E, x) \ K
  BY WithoutFacts DEF Holding
<1>2. IsFiniteSet(Holding(E, x)) /\ IsFiniteSet(Holding(E, x) \cap K)
  BY HoldingFinite, FS_Subset
<1> QED
  BY <1>1, <1>2, FS_Difference, FS_CardinalityType, HoldingFinite, WithoutFacts

\* A file that moves to a free path takes its reference along.
LEMMA MoveHolds ==
  ASSUME NEW E \in Tables, NEW p \in DOMAIN E, NEW q \in Paths \ DOMAIN E, NEW x
  PROVE  /\ With(Without(E, {p}), q, E[p]) \in Tables
         /\ Cardinality(Holding(With(Without(E, {p}), q, E[p]), x)) = Cardinality(Holding(E, x))
<1> DEFINE D == Without(E, {p})
           F == With(D, q, E[p])
<1>1. D \in Tables /\ DOMAIN D = DOMAIN E \ {p} /\ \A r \in DOMAIN D : D[r] = E[r]
  BY WithoutFacts
<1>2. E[p] \in Kinds
  BY IsTable
<1>3. /\ F \in Tables /\ DOMAIN F = DOMAIN D \cup {q}
      /\ F[q] = E[p] /\ \A r \in DOMAIN D : r # q => F[r] = D[r]
  <2> DEFINE v == E[p]
  <2>1. D \in Tables /\ q \in Paths /\ v \in Kinds
    BY <1>1, <1>2
  <2> HIDE DEF D, v
  <2>2. /\ With(D, q, v) \in Tables
        /\ DOMAIN With(D, q, v) = DOMAIN D \cup {q}
        /\ With(D, q, v)[q] = v
        /\ \A r \in DOMAIN D : r # q => With(D, q, v)[r] = D[r]
    BY ONLY <2>1, WithFacts
  <2> QED
    BY <2>2 DEF v
<1>4. IsFiniteSet(Holding(E, x)) /\ Cardinality(Holding(E, x)) \in Nat
  BY HoldingFinite
<1> HIDE DEF D, F
<1>5. CASE E[p].hash = x
  <2>1. Holding(F, x) = (Holding(E, x) \ {p}) \cup {q} /\ p \in Holding(E, x) /\ q \notin Holding(E, x)
    BY <1>1, <1>3, <1>5 DEF Holding
  <2>2. /\ IsFiniteSet(Holding(E, x) \ {p})
        /\ Cardinality(Holding(E, x) \ {p}) = Cardinality(Holding(E, x)) - 1
    BY <1>4, <2>1, FS_RemoveElement
  <2>3. Cardinality((Holding(E, x) \ {p}) \cup {q}) = Cardinality(Holding(E, x) \ {p}) + 1
    BY <2>1, <2>2, FS_AddElement
  <2> QED
    BY <1>3, <1>4, <2>1, <2>2, <2>3 DEF D, F
<1>6. CASE E[p].hash # x
  <2>1. Holding(F, x) = Holding(E, x)
    BY <1>1, <1>3, <1>6 DEF Holding
  <2> QED
    BY <1>3, <2>1 DEF D, F
<1> QED
  BY <1>5, <1>6

-----------------------------------------------------------------------------
(* What a step does to the tables. *)

\* A file lands beside the path it was meant for, on nothing or on a file.
LEMMA LandsFacts ==
  ASSUME NEW E \in Tables, NEW p \in Paths, NEW how, NEW q \in Lands(E, p, how)
  PROVE  /\ q \in Paths /\ Parent(q) = Parent(p)
         /\ q \in DOMAIN E => E[q].kind = "file"
<1>1. CASE q = p
  <2>1. p \in DOMAIN E => E[p].kind # "directory" \/ p \notin Lands(E, p, how)
    BY <1>1 DEF Lands, Free
  <2>2. p \in DOMAIN E => E[p] \in Kinds
    BY IsTable
  <2> QED
    BY <1>1, <2>1, <2>2, KindFacts
<1>2. CASE q # p
  <2>1. PICK i \in Free(E, p) : q = Others[p][i]
    BY <1>2 DEF Lands
  <2>2. i \in DOMAIN Others[p] /\ q \notin DOMAIN E
    BY <2>1 DEF Free
  <2>3. Others[p] \in Seq({r \in Paths : Parent(r) = Parent(p)})
    BY OthersAssumption
  <2>4. Others[p][i] \in {r \in Paths : Parent(r) = Parent(p)}
    BY <2>2, <2>3
  <2> QED
    BY <2>1, <2>2, <2>4
<1> QED
  BY <1>1, <1>2

\* The tables and their history count the references.
Counting == TablesOK /\ HistoryOK /\ RefsCountEntries

LEMMA PutKeeps ==
  ASSUME Counting, NEW E, Grown(E), NEW q \in Paths, NEW h \in Hashes,
         q \in DOMAIN E => E[q].kind = "file", Put(E, q, h)
  PROVE  Counting'
<1> DEFINE F == With(E, q, File(h))
<1>1. E \in Tables /\ F \in Tables /\ entries' = F
  <2>1. File(h) \in Kinds /\ E \in Tables
    BY DEF Kinds, Grown
  <2> QED
    BY <2>1, WithFacts DEF Put
<1> HIDE DEF F
<1>2. ASSUME NEW x \in Hashes
      PROVE  /\ Cardinality(Holding(E, x)) \in Nat /\ leaked[x] \in Nat
             /\ refs[x] = Cardinality(Holding(E, x)) + leaked[x]
  BY <1>1, HoldingFinite, GrownHolds DEF Counting, HistoryOK, RefsCountEntries
<1>3. ASSUME NEW x \in Hashes, x = h
      PROVE  /\ refs'[x] = refs[x] + 1
             /\ leaked'[x] = leaked[x] + (IF q \in Holding(E, x) THEN 1 ELSE 0)
             /\ Cardinality(Holding(F, x)) =
                  Cardinality(Holding(E, x)) + (IF q \in Holding(E, x) THEN 0 ELSE 1)
  <2>1. refs'[x] = refs[x] + 1
    BY <1>2, <1>3 DEF Put
  <2>2. leaked'[x] = leaked[x] + (IF q \in Holding(E, x) THEN 1 ELSE 0)
    BY <1>3 DEF Put, Counting, HistoryOK, Holding
  <2> QED
    BY <1>1, <1>3, <2>1, <2>2, PutHolds DEF F
<1>4. ASSUME NEW x \in Hashes, x # h
      PROVE  /\ refs'[x] = refs[x] - (IF q \in Holding(E, x) THEN 1 ELSE 0)
             /\ leaked'[x] = leaked[x]
             /\ Cardinality(Holding(F, x)) =
                  Cardinality(Holding(E, x)) - (IF q \in Holding(E, x) THEN 1 ELSE 0)
  <2>1. refs'[x] = refs[x] - (IF q \in Holding(E, x) THEN 1 ELSE 0)
    <3>1. refs[x] \in Int
      BY <1>2
    <3>2. refs'[x] = refs[x] + 0 - (IF q \in DOMAIN E /\ E[q].hash = x /\ x # h THEN 1 ELSE 0)
      BY <1>4 DEF Put
    <3>3. q \in Holding(E, x) <=> q \in DOMAIN E /\ E[q].hash = x
      BY DEF Holding
    <3> QED
      BY <1>4, <3>1, <3>2, <3>3
  <2>2. leaked'[x] = leaked[x]
    BY <1>4 DEF Put, Counting, HistoryOK
  <2> QED
    BY <1>1, <1>4, <2>1, <2>2, PutHolds DEF F
<1>5. leaked' \in [Hashes -> Nat]
  BY <1>2 DEF Put, Counting, HistoryOK
<1>6. ASSUME NEW x \in Hashes
      PROVE  /\ Cardinality(Holding(F, x)) \in Nat
             /\ refs'[x] = Cardinality(Holding(F, x)) + leaked'[x]
  <2>1. Cardinality(Holding(F, x)) \in Nat
    BY <1>1, HoldingFinite
  <2>2. CASE x = h
    BY <1>2, <1>3, <2>1, <2>2
  <2>3. CASE x # h
    BY <1>2, <1>4, <2>1, <2>3
  <2> QED
    BY <2>1, <2>2, <2>3
<1>7. refs' \in [Hashes -> Nat]
  <2>1. DOMAIN refs' = Hashes /\ refs' = [x \in Hashes |-> refs'[x]]
    BY DEF Put
  <2>2. \A x \in Hashes : refs'[x] \in Nat
    BY <1>5, <1>6
  <2> QED
    BY <2>1, <2>2
<1>8. exposed' \subseteq Hashes /\ outlived' \subseteq Paths
  <2>1. q \in DOMAIN E => E[q].hash \in Hashes
    BY <1>1, IsTable, KindFacts
  <2>2. Dropped(E, q, h) \subseteq Hashes
    BY <2>1 DEF Dropped
  <2> QED
    BY <2>2 DEF Put, AskUnlink, Counting, HistoryOK
<1>9. entries' \in Tables /\ grants' \subseteq Grants
  BY <1>1 DEF Put, Counting, TablesOK
<1>10. \A x \in Hashes : refs'[x] = Cardinality(Holding(entries', x)) + leaked'[x]
  BY <1>1, <1>6
<1> QED
  BY <1>5, <1>7, <1>8, <1>9, <1>10
  DEF Counting, TablesOK, HistoryOK, RefsCountEntries, Entered, Holding, Tables, Kinds

LEMMA GrowKeeps ==
  ASSUME Counting, NEW E, Grown(E), entries' = E,
         refs' = refs, grants' \subseteq Grants, leaked' = leaked,
         exposed' \subseteq Hashes, outlived' \subseteq Paths
  PROVE  Counting'
<1>1. entries' \in Tables
  BY DEF Grown
<1>2. \A x \in Hashes : refs'[x] = Cardinality(Holding(entries', x)) + leaked'[x]
  BY GrownHolds DEF Counting, RefsCountEntries
<1> QED
  BY <1>1, <1>2
  DEF Counting, TablesOK, HistoryOK, RefsCountEntries, Entered, Holding, Tables, Kinds

LEMMA RemoveKeeps ==
  ASSUME Counting, Remove
  PROVE  Counting'
<1>1. PICK gone :
        /\ entries' = Without(entries, gone)
        /\ grants' \subseteq grants
        /\ refs' = [h \in Hashes |-> refs[h] - Cardinality(Entered(h) \cap gone)]
        /\ exposed' \subseteq exposed \cup Hashes /\ outlived' \subseteq outlived
  BY DEF Remove, DropGrants, AskUnlink
<1>2. entries \in Tables
  BY DEF Counting, TablesOK, Tables, Kinds
<1>3. entries' \in Tables
  BY <1>1, <1>2, WithoutFacts
<1>4. leaked' = leaked
  BY DEF Remove
<1>5. ASSUME NEW x \in Hashes
      PROVE  /\ refs'[x] = Cardinality(Holding(entries', x)) + leaked'[x]
             /\ refs'[x] \in Nat
  <2>1. /\ Cardinality(Holding(Without(entries, gone), x)) =
             Cardinality(Holding(entries, x)) - Cardinality(Holding(entries, x) \cap gone)
        /\ Cardinality(Holding(entries, x) \cap gone) \in Nat
        /\ Cardinality(Holding(Without(entries, gone), x)) \in Nat
    BY <1>2, RemoveHolds
  <2>2. /\ refs[x] = Cardinality(Holding(entries, x)) + leaked[x]
        /\ Cardinality(Holding(entries, x)) \in Nat /\ leaked[x] \in Nat
    BY <1>2, HoldingFinite DEF Counting, HistoryOK, RefsCountEntries, Entered, Holding
  <2>3. refs'[x] = refs[x] - Cardinality(Holding(entries, x) \cap gone)
    BY <1>1 DEF Entered, Holding
  <2> QED
    BY <1>1, <1>4, <2>1, <2>2, <2>3
<1>6. refs' \in [Hashes -> Nat]
  <2>1. refs' = [x \in Hashes |-> refs'[x]]
    BY <1>1
  <2> QED
    BY <1>5, <2>1
<1> QED
  BY <1>1, <1>3, <1>4, <1>5, <1>6
  DEF Counting, TablesOK, HistoryOK, RefsCountEntries, Entered, Holding, Tables, Kinds

LEMMA MoveKeeps ==
  ASSUME Counting, Move
  PROVE  Counting'
<1>1. entries \in Tables
  BY DEF Counting, TablesOK, Tables, Kinds
<1>2. PICK p, q, E :
        /\ p \in Paths /\ q \in Paths
        /\ E = WithTree(Parent(q)) /\ ~Blocked(Parent(q)) /\ IsFile(p)
        /\ \/ q \in DOMAIN E /\ entries' = E /\ grants' = grants /\ outlived' = outlived
           \/ /\ q \notin DOMAIN E
              /\ entries' = With(Without(E, {p}), q, E[p])
              /\ grants' = {IF g.path = p THEN [g EXCEPT !.path = q] ELSE g : g \in grants}
              /\ outlived' = outlived \ {p}
  BY DEF Move
<1>3. Grown(E)
  BY <1>1, <1>2, ParentFacts, TreeGrows
<1>4. refs' = refs /\ leaked' = leaked /\ exposed' = exposed
  BY DEF Move
<1>5. grants' \subseteq Grants /\ outlived' \subseteq Paths /\ exposed' \subseteq Hashes
  <2>1. grants \subseteq Grants /\ outlived \subseteq Paths /\ exposed \subseteq Hashes
    BY DEF Counting, TablesOK, HistoryOK
  <2>2. \A g \in Grants : [g EXCEPT !.path = q] \in Grants
    BY <1>2 DEF Grants
  <2>3. {IF g.path = p THEN [g EXCEPT !.path = q] ELSE g : g \in grants} \subseteq Grants
    BY <2>1, <2>2
  <2> QED
    BY <1>2, <1>4, <2>1, <2>3
<1>6. CASE q \in DOMAIN E /\ entries' = E
  BY <1>3, <1>4, <1>5, <1>6, GrowKeeps
<1>7. CASE q \notin DOMAIN E /\ entries' = With(Without(E, {p}), q, E[p])
  <2>1. E \in Tables /\ p \in DOMAIN E
    BY <1>2, <1>3 DEF Grown, IsFile
  <2>2. q \in Paths \ DOMAIN E
    BY <1>2, <1>7
  <2>3. /\ entries' \in Tables
        /\ \A x : Cardinality(Holding(entries', x)) = Cardinality(Holding(E, x))
    BY <1>7, <2>1, <2>2, MoveHolds
  <2>4. \A x \in Hashes : refs'[x] = Cardinality(Holding(entries', x)) + leaked'[x]
    BY <1>3, <1>4, <2>3, GrownHolds DEF Counting, RefsCountEntries
  <2> QED
    BY <1>4, <1>5, <2>3, <2>4
    DEF Counting, TablesOK, HistoryOK, RefsCountEntries, Entered, Holding, Tables, Kinds
<1> QED
  BY <1>2, <1>6, <1>7

\* A file in place of nothing or of a file, in a directory that is there: what
\* a commit or a copy that is not refused does.
LEMMA PutSteps ==
  ASSUME entries \in Tables, RequestsOK, Copy \/ \E c \in Conns : Commit(c)
  PROVE  \/ \E E \in Tables, q \in Paths, h \in Hashes :
              /\ Grown(E) /\ (q \in DOMAIN E => E[q].kind = "file")
              /\ Put(E, q, h)
         \/ /\ \E E : Grown(E) /\ entries' = E
            /\ UNCHANGED <<refs, grants, blobs, history>>
<1>1. Grown(entries)
  BY DEF Grown
<1>2. ASSUME NEW c \in Conns, Commit(c)
      PROVE  \E E \in Tables, q \in Paths, h \in Hashes :
               Grown(E) /\ (q \in DOMAIN E => E[q].kind = "file") /\ Put(E, q, h)
  <2>1. requests[c] \in Uploads
    BY <1>2 DEF RequestsOK, Commit, Stored
  <2>2. requests[c].path \in Paths /\ requests[c].hash \in Hashes
    BY <2>1 DEF Uploads
  <2>3. PICK q \in Landing(c) : Put(entries, q, requests[c].hash)
    BY <1>2 DEF Commit
  <2>4. q \in Paths /\ (q \in DOMAIN entries => entries[q].kind = "file")
    BY <2>2, <2>3, LandsFacts DEF Landing
  <2>5. PICK E, h : E = entries /\ h = requests[c].hash
    OBVIOUS
  <2>6. Grown(E) /\ Put(E, q, h)
    BY <1>1, <2>3, <2>5
  <2> QED
    BY <2>2, <2>4, <2>5, <2>6 DEF Grown
<1>3. CASE Copy
  <2>1. PICK p, q, how, E, h :
          /\ p \in Paths /\ q \in Paths
          /\ E = WithTree(Parent(q)) /\ h = entries[p].hash
          /\ IsFile(p) /\ ~Blocked(Parent(q))
          /\ \/ \E r \in Lands(E, q, how) : Put(E, r, h)
             \/ /\ entries' = E
                /\ UNCHANGED <<refs, grants, blobs, history>>
    BY <1>3 DEF Copy
  <2>2. Grown(E)
    BY <2>1, ParentFacts, TreeGrows
  <2>3. h \in Hashes
    BY <2>1, IsTable, KindFacts DEF IsFile
  <2>4. E \in Tables
    BY <2>2 DEF Grown
  <2>5. \A r \in Lands(E, q, how) : r \in Paths /\ (r \in DOMAIN E => E[r].kind = "file")
    BY <2>1, <2>4, LandsFacts
  <2> QED
    BY <2>1, <2>2, <2>3, <2>4, <2>5
<1> QED
  BY <1>2, <1>3

\* The directories that uploads, mkdir and the boot make grow the tree.
LEMMA GrowSteps ==
  ASSUME entries \in Tables, Mkdir \/ Crash \/ \E c \in Conns : BeginUpload(c)
  PROVE  /\ \E E \in Tables : Grown(E) /\ entries' = E
         /\ UNCHANGED <<refs, grants, disk, history>>
<1>1. CASE Mkdir
  <2>1. PICK p \in Paths : ~Blocked(p) /\ entries' = WithTree(p)
    BY <1>1 DEF Mkdir
  <2>2. Grown(WithTree(p))
    BY <2>1, TreeGrows
  <2>3. PICK E : E = WithTree(p)
    OBVIOUS
  <2> QED
    BY <1>1, <2>1, <2>2, <2>3 DEF Mkdir, Grown, blobs
<1>2. CASE \E c \in Conns : BeginUpload(c)
  <2>1. PICK p \in Paths : ~Blocked(Parent(p)) /\ entries' = WithTree(Parent(p))
    BY <1>2 DEF BeginUpload
  <2>2. Grown(WithTree(Parent(p)))
    BY <2>1, ParentFacts, TreeGrows
  <2>3. PICK E : E = WithTree(Parent(p))
    OBVIOUS
  <2> QED
    BY <1>2, <2>1, <2>2, <2>3 DEF BeginUpload, Grown, blobs
<1>3. CASE Crash
  <2>1. PICK E : E = [p \in DOMAIN entries \cup {<<n>> : n \in Names} |->
                        IF p \in DOMAIN entries THEN entries[p] ELSE Directory]
    OBVIOUS
  <2>2. /\ DOMAIN E = DOMAIN entries \cup {<<n>> : n \in Names}
        /\ \A p \in DOMAIN E : E[p] = IF p \in DOMAIN entries THEN entries[p] ELSE Directory
    BY <2>1
  <2>3. E \in Tables
    <3>1. entries \in [DOMAIN entries -> Kinds] /\ DOMAIN entries \subseteq Paths
      BY IsTable
    <3>2. E \in [DOMAIN E -> Kinds] /\ DOMAIN E \subseteq Paths
      BY <2>1, <3>1, PathsAssumption DEF Kinds
    <3> QED
      BY <3>2, IsTable
  <2>4. \A p \in DOMAIN E \ DOMAIN entries : E[p] = Directory /\ Len(p) = 1
    BY <2>2
  <2>5. Grown(E)
    BY <2>2, <2>3, <2>4 DEF Grown
  <2> QED
    BY <1>3, <2>1, <2>3, <2>5 DEF Crash
<1> QED
  BY <1>1, <1>2, <1>3

\* A transaction that fails drops the bytes of files there are, and the
\* directories made before it grow the tree.
LEMMA RollBackSteps ==
  ASSUME entries \in Tables, RequestsOK, CopyFails \/ \E c \in Conns : CommitFails(c)
  PROVE  /\ \E H \in SUBSET Hashes : RollBack(H)
         /\ \E E \in Tables : Grown(E) /\ entries' = E
         /\ DOMAIN requests' \subseteq DOMAIN requests
         /\ \A d \in DOMAIN requests' : requests'[d] = requests[d]
<1>1. ASSUME NEW E, Grown(E), NEW q \in Paths, NEW how, NEW r \in Lands(E, q, how), NEW h
      PROVE  Dropped(E, r, h) \in SUBSET Hashes
  <2>1. E \in Tables
    BY <1>1 DEF Grown
  <2>2. r \in DOMAIN E => E[r].kind = "file"
    BY <1>1, <2>1, LandsFacts
  <2>3. r \in DOMAIN E => E[r].hash \in Hashes
    BY <2>1, <2>2, IsTable, KindFacts
  <2> QED
    BY <2>3 DEF Dropped
<1>2. ASSUME NEW c \in Conns, CommitFails(c)
      PROVE  /\ \E H \in SUBSET Hashes : RollBack(H)
             /\ entries' = entries /\ requests' = Without(requests, {c})
  <2>1. requests[c] \in Uploads
    BY <1>2 DEF RequestsOK, CommitFails, Stored
  <2>2. requests[c].path \in Paths
    BY <2>1 DEF Uploads
  <2>3. PICK q \in Landing(c) : RollBack(Dropped(entries, q, requests[c].hash))
    BY <1>2 DEF CommitFails
  <2>4. Grown(entries)
    BY DEF Grown
  <2>5. Dropped(entries, q, requests[c].hash) \in SUBSET Hashes
    BY <1>1, <2>2, <2>3, <2>4 DEF Landing
  <2> QED
    BY <1>2, <2>3, <2>5 DEF CommitFails, Stored
<1>3. CASE \E c \in Conns : CommitFails(c)
  <2>1. PICK c \in Conns : CommitFails(c)
    BY <1>3
  <2>2. /\ DOMAIN requests' \subseteq DOMAIN requests
        /\ \A d \in DOMAIN requests' : requests'[d] = requests[d]
    BY <1>2, <2>1 DEF Without, Restrict
  <2>3. \E E \in Tables : Grown(E) /\ entries' = E
    BY <1>2, <2>1 DEF Grown
  <2> QED
    BY <1>2, <2>1, <2>2, <2>3
<1>4. CASE CopyFails
  <2>1. PICK p, q, how, E, r :
          /\ q \in Paths /\ E = WithTree(Parent(q)) /\ ~Blocked(Parent(q))
          /\ entries' = E
          /\ r \in Lands(E, q, how) /\ RollBack(Dropped(E, r, entries[p].hash))
    BY <1>4 DEF CopyFails
  <2>2. Grown(E)
    BY <2>1, ParentFacts, TreeGrows
  <2>3. Dropped(E, r, entries[p].hash) \in SUBSET Hashes
    BY <1>1, <2>1, <2>2
  <2>4. requests' = requests
    BY <1>4 DEF CopyFails
  <2> QED
    BY <2>1, <2>2, <2>3, <2>4 DEF Grown
<1> QED
  BY <1>3, <1>4

LEMMA CountingKept ==
  Counting /\ CountsOK /\ BlobsOK /\ RequestsOK /\ [Next]_vars => Counting'
<1> SUFFICES ASSUME Counting, CountsOK, BlobsOK, RequestsOK, [Next]_vars PROVE Counting'
  OBVIOUS
<1>1. /\ entries \in Tables /\ grants \subseteq Grants
      /\ exposed \subseteq Hashes /\ outlived \subseteq Paths
  BY DEF Counting, TablesOK, HistoryOK, Tables, Kinds
<1>2. Grown(entries)
  BY <1>1 DEF Grown
<1>3. CASE Mkdir \/ Crash \/ \E c \in Conns : BeginUpload(c)
  BY <1>1, <1>3, GrowSteps, GrowKeeps DEF history
<1>4. CASE Copy \/ \E c \in Conns : Commit(c)
  <2>1. CASE \E E \in Tables, q \in Paths, h \in Hashes :
               /\ Grown(E) /\ (q \in DOMAIN E => E[q].kind = "file")
               /\ Put(E, q, h)
    BY <2>1, PutKeeps
  <2>2. CASE /\ \E E : Grown(E) /\ entries' = E
             /\ UNCHANGED <<refs, grants, blobs, history>>
    BY <1>1, <2>2, GrowKeeps DEF history
  <2> QED
    BY <1>1, <1>4, <2>1, <2>2, PutSteps
<1>5. CASE Remove \/ Move
  BY <1>5, RemoveKeeps, MoveKeeps
<1>6. CASE Post
  <2>1. PICK p \in Paths, viewers \in SUBSET Names : grants' = grants \cup Granted(p, viewers)
    BY <1>6 DEF Post
  <2>2. posts + 1 \in 1..MaxPosts
    BY <1>6, BoundsAssumption DEF Post, CountsOK
  <2>3. Granted(p, viewers) \subseteq Grants
    BY <2>2 DEF Granted, Grants
  <2>4. PICK E : E = entries
    OBVIOUS
  <2>5. entries' = E /\ refs' = refs /\ leaked' = leaked /\ exposed' = exposed /\ outlived' = outlived
    BY <1>6, <2>4 DEF Post
  <2> QED
    BY <1>1, <1>2, <2>1, <2>3, <2>4, <2>5, GrowKeeps
<1>7. ASSUME NEW c \in Conns, Look(c) PROVE Counting'
  <2>1. c \in DOMAIN requests /\ requests[c] \in Uploads
    BY <1>7 DEF Look, RequestsOK
  <2>2. requests[c].hash \in Hashes
    BY <2>1 DEF Uploads
  <2>3. exposed' \subseteq Hashes
    BY <1>1, <1>7, <2>2 DEF Look
  <2>4. PICK E : E = entries
    OBVIOUS
  <2>5. entries' = E /\ refs' = refs /\ grants' = grants /\ leaked' = leaked /\ outlived' = outlived
    BY <1>7, <2>4 DEF Look, tables
  <2> QED
    BY <1>1, <1>2, <2>3, <2>4, <2>5, GrowKeeps
<1>9. CASE CopyFails \/ \E c \in Conns : CommitFails(c)
  <2>1. PICK H \in SUBSET Hashes, E \in Tables : RollBack(H) /\ Grown(E) /\ entries' = E
    BY <1>1, <1>9, RollBackSteps
  <2>2. refs' = refs /\ grants' = grants /\ leaked' = leaked /\ outlived' = outlived
    BY <2>1 DEF RollBack
  <2>3. exposed' \subseteq Hashes
    BY <1>1, <2>1 DEF RollBack
  <2> QED
    BY <1>1, <2>1, <2>2, <2>3, GrowKeeps
<1>8. CASE \/ \E c \in Conns : Rename(c) \/ Abandon(c) \/ Refuse(c)
           \/ \E h \in Hashes : Unlink(h)
           \/ UNCHANGED vars
  <2>1. UNCHANGED <<tables, history>>
    BY <1>8 DEF Rename, Abandon, Refuse, Unlink, vars
  <2>2. UNCHANGED <<entries, refs, grants, leaked, exposed, outlived>>
    BY <2>1 DEF tables, history
  <2> QED
    BY <2>2 DEF Counting, TablesOK, HistoryOK, RefsCountEntries, Entered
<1> QED
  BY <1>3, <1>4, <1>5, <1>6, <1>7, <1>8, <1>9 DEF Next

\* The types together with the counts are inductive.
Typed == TypeOK /\ RefsCountEntries

LEMMA TypedKept == Typed /\ [Next]_vars => Typed'
  BY CountingKept, CountsKept, RequestsKept, BlobsKept DEF Typed, TypeOK, Counting

LEMMA TypedAtFirst == Init => Typed
<1> SUFFICES ASSUME Init PROVE Typed
  OBVIOUS
<1>1. entries \in [{<<n>> : n \in Names} -> Kinds] /\ DOMAIN entries = {<<n>> : n \in Names}
  BY DEF Init, Kinds
<1>2. entries \in Tables
  BY <1>1, PathsAssumption DEF Tables
<1>3. \A h \in Hashes : Entered(h) = {}
  <2>1. \A p \in DOMAIN entries : entries[p] = Directory
    BY DEF Init
  <2> QED
    BY <2>1, ContentAssumption DEF Entered, Directory
<1>4. RefsCountEntries
  <2>1. \A h \in Hashes : refs[h] = 0 /\ leaked[h] = 0 /\ Cardinality(Entered(h)) = 0
    BY <1>3, FS_EmptySet DEF Init
  <2> QED
    BY <2>1 DEF RefsCountEntries
<1>5. CountsOK
  BY BoundsAssumption DEF Init, CountsOK
<1>6. TablesOK
  BY <1>2 DEF Init, TablesOK, Tables, Kinds
<1>7. BlobsOK /\ HistoryOK
  BY DEF Init, BlobsOK, HistoryOK
<1>8. RequestsOK
  BY DEF Init, RequestsOK
<1> QED
  BY <1>4, <1>5, <1>6, <1>7, <1>8 DEF Typed, TypeOK

\* Every variable has its type: a refcount never falls below zero, whichever
\* request takes the last reference.
THEOREM FileStoreTypeCorrect == Spec => []TypeOK
<1>1. Typed => TypeOK
  BY DEF Typed
<1> QED
  BY <1>1, TypedAtFirst, TypedKept, PTL DEF Spec

\* A blob's refcount is the number of entries that refer to it and of the
\* overwrites that counted a reference without taking the old one off.
THEOREM CountsAreExact == Spec => []RefsCountEntries
<1>1. Typed => RefsCountEntries
  BY DEF Typed
<1> QED
  BY <1>1, TypedAtFirst, TypedKept, PTL DEF Spec

-----------------------------------------------------------------------------
(* Bytes. *)

\* A request that has found or made its bytes, and not committed.
Holds(h) == \E c \in DOMAIN requests : requests[c].hash = h /\ requests[c].stage = "stored"

\* The bytes of a file are there, and so are those an upload has found or made;
\* nobody is about to unlink them, nor those an upload is about to make.
BytesKept ==
  \A h \in Hashes \ exposed :
    /\ Entered(h) # {} \/ Counted(h) => unlinks[h] = 0
    /\ Entered(h) # {} \/ Holds(h) => h \in disk

\* A step that asks for no unlink keeps them.
LEMMA QuietKeeps ==
  ASSUME BytesKept, NEW x \in Hashes, x \notin exposed, unlinks'[x] = unlinks[x],
         Entered(x)' # {} => Entered(x) # {} \/ Holds(x),
         Counted(x)' => Entered(x) # {} \/ Counted(x),
         Holds(x)' => Entered(x) # {} \/ Holds(x) \/ x \in disk',
         x \in disk => x \in disk'
  PROVE  /\ Entered(x)' # {} \/ Counted(x)' => unlinks'[x] = 0
         /\ Entered(x)' # {} \/ Holds(x)' => x \in disk'
<1>1. Holds(x) => Counted(x)
  BY DEF Holds, Counted
<1> QED
  BY <1>1 DEF BytesKept

\* The only reference there is.
LEMMA LastReference ==
  ASSUME Typed, NEW E, Grown(E), NEW q \in DOMAIN E, E[q].hash \in Hashes, refs[E[q].hash] <= 1
  PROVE  Holding(E, E[q].hash) = {q}
<1> DEFINE x == E[q].hash
<1>1. E \in Tables /\ q \in Holding(E, x)
  BY DEF Grown, Holding
<1>2. IsFiniteSet(Holding(E, x)) /\ Cardinality(Holding(E, x)) \in Nat
  BY <1>1, HoldingFinite
<1>3. refs[x] = Cardinality(Holding(E, x)) + leaked[x] /\ leaked[x] \in Nat
  BY GrownHolds DEF Typed, TypeOK, HistoryOK, RefsCountEntries
<1>4. Cardinality(Holding(E, x)) # 0
  BY <1>1, <1>2, FS_EmptySet
<1>5. Cardinality(Holding(E, x)) = 1
  BY <1>2, <1>3, <1>4
<1>6. PICK r : Holding(E, x) = {r}
  BY <1>2, <1>5, FS_Singleton
<1> QED
  BY <1>1, <1>6

LEMMA PutKeepsBytes ==
  ASSUME Typed, BytesKept, NEW E, Grown(E), NEW q \in Paths, NEW h \in Hashes,
         q \in DOMAIN E => E[q].kind = "file", Put(E, q, h),
         Entered(h) # {} \/ Holds(h),
         DOMAIN requests' \subseteq DOMAIN requests,
         \A c \in DOMAIN requests' : requests'[c] = requests[c]
  PROVE  BytesKept'
<1> DEFINE F == With(E, q, File(h))
<1>1. E \in Tables /\ entries' = F /\ disk' = disk
  BY DEF Put, Grown
<1>2. /\ DOMAIN F = DOMAIN E \cup {q} /\ F[q].hash = h
      /\ \A p \in DOMAIN E : p # q => F[p] = E[p]
  <2> DEFINE v == File(h)
  <2>1. E \in Tables /\ v \in Kinds /\ v.hash = h
    BY <1>1 DEF Kinds, File
  <2> HIDE DEF v
  <2>2. /\ DOMAIN With(E, q, v) = DOMAIN E \cup {q}
        /\ With(E, q, v)[q] = v
        /\ \A p \in DOMAIN E : p # q => With(E, q, v)[p] = E[p]
    BY ONLY <2>1, WithFacts
  <2> QED
    BY <2>1, <2>2 DEF v
<1> HIDE DEF F
<1>3. ASSUME NEW x \in Hashes PROVE (Counted(x)' => Counted(x)) /\ (Holds(x)' => Holds(x))
  BY DEF Counted, Holds
<1>4. ASSUME NEW x \in Hashes, x # h PROVE Entered(x)' = Entered(x) \ {q}
  <2>1. Entered(x)' = Holding(F, x)
    BY <1>1 DEF Entered, Holding
  <2>2. Holding(F, x) = Holding(E, x) \ {q}
    BY <1>2, <1>4 DEF Holding
  <2> QED
    BY <2>1, <2>2, GrownHolds
<1>5. \A x \in Hashes : unlinks'[x] = unlinks[x] + IF x \in Dropped(E, q, h) THEN 1 ELSE 0
  BY DEF Put, AskUnlink
<1>6. ASSUME NEW x \in Hashes, x \notin exposed'
      PROVE  /\ Entered(x)' # {} \/ Counted(x)' => unlinks'[x] = 0
             /\ Entered(x)' # {} \/ Holds(x)' => x \in disk'
  <2>1. x \notin exposed /\ (x \in Dropped(E, q, h) => ~Counted(x))
    BY <1>6 DEF Put, AskUnlink
  <2>2. CASE x \in Dropped(E, q, h)
    <3>1. q \in DOMAIN E /\ E[q].hash = x /\ x # h /\ refs[x] <= 1
      BY <2>2 DEF Dropped
    <3>2. Holding(E, x) = {q}
      BY <3>1, LastReference
    <3>3. Entered(x)' = {}
      BY <1>4, <3>1, <3>2, GrownHolds
    <3>4. ~Counted(x)' /\ ~Holds(x)'
      BY <1>3, <2>1, <2>2 DEF Holds, Counted
    <3> QED
      BY <3>3, <3>4
  <2>3. CASE x \notin Dropped(E, q, h)
    <3>1. unlinks'[x] = unlinks[x]
      BY <1>5, <2>3 DEF Typed, TypeOK, BlobsOK
    <3>2. Entered(x)' # {} => Entered(x) # {} \/ Holds(x)
      BY <1>4
    <3> QED
      BY <1>1, <1>3, <2>1, <3>1, <3>2, QuietKeeps
  <2> QED
    BY <2>2, <2>3
<1> QED
  BY <1>6 DEF BytesKept

LEMMA RemoveKeepsBytes ==
  ASSUME Typed, BytesKept, Remove
  PROVE  BytesKept'
<1>1. PICK gone :
        LET left == [h \in Hashes |-> refs[h] - Cardinality(Entered(h) \cap gone)] IN
          /\ entries' = Without(entries, gone)
          /\ AskUnlink({h \in Hashes : refs[h] > 0 /\ left[h] = 0})
  BY DEF Remove
<1>2. disk' = disk /\ requests' = requests
  BY DEF Remove
<1>3. entries \in Tables
  BY DEF Typed, TypeOK, TablesOK, Tables, Kinds
<1>4. ASSUME NEW x \in Hashes
      PROVE  (Counted(x)' <=> Counted(x)) /\ (Holds(x)' <=> Holds(x))
  BY <1>2 DEF Counted, Holds
<1>5. ASSUME NEW x \in Hashes PROVE Entered(x)' = Entered(x) \ gone
  <2>1. Entered(x)' = Holding(Without(entries, gone), x)
    BY <1>1 DEF Entered, Holding
  <2>2. Holding(Without(entries, gone), x) = Holding(entries, x) \ gone
    BY <1>3, WithoutFacts DEF Holding
  <2> QED
    BY <2>1, <2>2 DEF Entered, Holding
<1>6. ASSUME NEW x \in Hashes, x \notin exposed'
      PROVE  /\ Entered(x)' # {} \/ Counted(x)' => unlinks'[x] = 0
             /\ Entered(x)' # {} \/ Holds(x)' => x \in disk'
  <2> DEFINE lost == refs[x] > 0 /\ refs[x] - Cardinality(Entered(x) \cap gone) = 0
  <2>1. x \notin exposed /\ (lost => ~Counted(x))
    BY <1>1, <1>6 DEF AskUnlink
  <2>2. unlinks'[x] = unlinks[x] + IF lost THEN 1 ELSE 0
    BY <1>1 DEF AskUnlink
  <2>3. CASE lost
    <3>1. IsFiniteSet(Entered(x)) /\ Cardinality(Entered(x)) \in Nat
      BY <1>3, HoldingFinite DEF Entered, Holding
    <3>2. /\ Cardinality(Entered(x) \ gone) = Cardinality(Entered(x)) - Cardinality(Entered(x) \cap gone)
          /\ IsFiniteSet(Entered(x) \ gone)
      BY <3>1, FS_Difference
    <3>3. Cardinality(Entered(x) \cap gone) \in Nat
      BY <3>1, FS_Subset, FS_CardinalityType
    <3>4. Cardinality(Entered(x) \ gone) \in Nat
      BY <3>2, FS_CardinalityType
    <3>5. refs[x] = Cardinality(Entered(x)) + leaked[x] /\ leaked[x] \in Nat
      BY DEF Typed, TypeOK, HistoryOK, RefsCountEntries
    <3>6. Cardinality(Entered(x) \ gone) = 0
      BY <2>3, <3>1, <3>2, <3>3, <3>4, <3>5
    <3>7. Entered(x)' = {}
      BY <1>5, <3>2, <3>6, FS_EmptySet
    <3> QED
      BY <1>4, <2>1, <2>3, <3>7 DEF Holds, Counted
  <2>4. CASE ~lost
    <3>1. unlinks'[x] = unlinks[x]
      BY <2>2, <2>4 DEF Typed, TypeOK, BlobsOK
    <3> QED
      BY <1>2, <1>4, <1>5, <2>1, <3>1, QuietKeeps
  <2> QED
    BY <2>3, <2>4
<1> QED
  BY <1>6 DEF BytesKept

\* The steps that write no row and ask for no unlink.
LEMMA RequestsKeepBytes ==
  ASSUME Typed, BytesKept, NEW c \in Conns, Look(c) \/ Rename(c) \/ Abandon(c) \/ Refuse(c)
  PROVE  BytesKept'
<1>1. c \in DOMAIN requests /\ entries' = entries /\ unlinks' = unlinks /\ disk \subseteq disk'
  BY DEF Look, Rename, Abandon, Refuse, Stored, tables, blobs
<1>2. ASSUME NEW x \in Hashes PROVE Entered(x)' = Entered(x)
  BY <1>1 DEF Entered
<1>3. CASE Look(c)
  <2>1. PICK s \in {"renaming", "stored"} :
          /\ requests' = [requests EXCEPT ![c].stage = s]
          /\ s = "stored" => requests[c].hash \in disk
    BY <1>3 DEF Look
  <2>2. /\ requests[c].hash \in Hashes /\ unlinks[requests[c].hash] \in Nat
        /\ requests[c] \in Uploads
    BY <1>1 DEF Typed, TypeOK, RequestsOK, BlobsOK, Uploads
  <2>3. /\ DOMAIN requests' = DOMAIN requests
        /\ requests'[c].hash = requests[c].hash /\ requests'[c].stage = s
        /\ \A d \in DOMAIN requests : d # c => requests'[d] = requests[d]
    BY <1>1, <2>1, <2>2 DEF Uploads
  <2>4. ASSUME NEW x \in Hashes, x \notin exposed'
        PROVE  /\ Entered(x)' # {} \/ Counted(x)' => unlinks'[x] = 0
               /\ Entered(x)' # {} \/ Holds(x)' => x \in disk'
    <3>1. x \notin exposed /\ (x = requests[c].hash => unlinks[x] = 0)
      BY <1>3, <2>2, <2>4 DEF Look
    <3>2. x # requests[c].hash => (Counted(x)' => Counted(x)) /\ (Holds(x)' => Holds(x))
      BY <2>3 DEF Counted, Holds
    <3>3. x = requests[c].hash => (Holds(x)' => Holds(x) \/ x \in disk)
      BY <2>1, <2>3 DEF Holds
    <3> QED
      BY <1>1, <1>2, <3>1, <3>2, <3>3 DEF BytesKept
  <2> QED
    BY <2>4 DEF BytesKept
<1>4. CASE Rename(c)
  <2>1. /\ requests' = [requests EXCEPT ![c].stage = "stored"] /\ requests[c].stage = "renaming"
        /\ disk' = disk \cup {requests[c].hash} /\ exposed' = exposed
    BY <1>4 DEF Rename, history
  <2>2. requests[c] \in Uploads
    BY <1>1 DEF Typed, TypeOK, RequestsOK
  <2>3. /\ DOMAIN requests' = DOMAIN requests
        /\ requests'[c].hash = requests[c].hash
        /\ \A d \in DOMAIN requests : d # c => requests'[d] = requests[d]
    BY <1>1, <2>1, <2>2 DEF Uploads
  <2>4. ASSUME NEW x \in Hashes
        PROVE  (Counted(x)' => Counted(x)) /\ (Holds(x)' => Holds(x) \/ x \in disk')
    BY <2>1, <2>3 DEF Counted, Holds
  <2> QED
    BY <1>1, <1>2, <2>1, <2>4, QuietKeeps DEF BytesKept
<1>5. CASE Abandon(c) \/ Refuse(c)
  <2>1. requests' = Without(requests, {c}) /\ exposed' = exposed /\ disk' = disk
    BY <1>5 DEF Abandon, Refuse, Stored, history, blobs
  <2>2. /\ DOMAIN requests' \subseteq DOMAIN requests
        /\ \A d \in DOMAIN requests' : requests'[d] = requests[d]
    BY <2>1 DEF Without, Restrict
  <2>3. ASSUME NEW x \in Hashes
        PROVE  (Counted(x)' => Counted(x)) /\ (Holds(x)' => Holds(x))
    BY <2>2 DEF Counted, Holds
  <2> QED
    BY <1>1, <1>2, <2>1, <2>3, QuietKeeps DEF BytesKept
<1> QED
  BY <1>3, <1>4, <1>5

\* A transaction that fails has asked for the unlink of what it exposes.
LEMMA FailureKeepsBytes ==
  ASSUME Typed, BytesKept, CopyFails \/ \E c \in Conns : CommitFails(c)
  PROVE  BytesKept'
<1>1. entries \in Tables /\ RequestsOK
  BY DEF Typed, TypeOK, TablesOK, Tables, Kinds
<1>2. PICK H, E : RollBack(H) /\ Grown(E) /\ entries' = E
  BY <1>1, RollBackSteps
<1>3. /\ DOMAIN requests' \subseteq DOMAIN requests
      /\ \A d \in DOMAIN requests' : requests'[d] = requests[d]
  BY <1>1, RollBackSteps
<1>4. ASSUME NEW x \in Hashes
      PROVE  (Counted(x)' => Counted(x)) /\ (Holds(x)' => Holds(x))
  BY <1>3 DEF Counted, Holds
<1>5. ASSUME NEW x \in Hashes PROVE Entered(x)' = Entered(x)
  BY <1>2, GrownHolds DEF Entered, Holding
<1>6. ASSUME NEW x \in Hashes, x \notin exposed'
      PROVE  x \notin exposed /\ unlinks'[x] = unlinks[x]
  BY <1>2, <1>6 DEF RollBack, Typed, TypeOK, BlobsOK
<1>7. disk' = disk
  BY <1>2 DEF RollBack
<1> QED
  BY <1>4, <1>5, <1>6, <1>7, QuietKeeps DEF BytesKept

\* A step that changes no content: the bytes that are referred to stay the same.
LEMMA GrowKeepsBytes ==
  ASSUME Typed, BytesKept, disk' = disk, exposed' = exposed,
         \A x \in Hashes : Entered(x)' # {} => Entered(x) # {},
         \/ unlinks' = unlinks /\ \A x \in Hashes : (Counted(x)' => Counted(x)) /\ (Holds(x)' => Holds(x))
         \/ unlinks' = [x \in Hashes |-> 0] /\ DOMAIN requests' = {}
  PROVE  BytesKept'
<1>1. CASE unlinks' = unlinks /\ \A x \in Hashes : (Counted(x)' => Counted(x)) /\ (Holds(x)' => Holds(x))
  BY <1>1, QuietKeeps DEF BytesKept
<1>2. CASE unlinks' = [x \in Hashes |-> 0] /\ DOMAIN requests' = {}
  BY <1>2 DEF BytesKept, Holds
<1> QED
  BY <1>1, <1>2

LEMMA MoveKeepsBytes ==
  ASSUME Typed, BytesKept, Move
  PROVE  BytesKept'
<1>1. entries \in Tables
  BY DEF Typed, TypeOK, TablesOK, Tables, Kinds
<1>2. PICK p, q, E :
        /\ p \in Paths /\ q \in Paths
        /\ E = WithTree(Parent(q)) /\ ~Blocked(Parent(q)) /\ IsFile(p)
        /\ \/ entries' = E
           \/ q \notin DOMAIN E /\ entries' = With(Without(E, {p}), q, E[p])
  BY DEF Move
<1>3. Grown(E)
  BY <1>1, <1>2, ParentFacts, TreeGrows
<1>4. ASSUME NEW x \in Hashes, Entered(x) = {} PROVE Entered(x)' = {}
  <2>1. Holding(E, x) = {} /\ E \in Tables /\ p \in DOMAIN E
    BY <1>2, <1>3, <1>4, GrownHolds DEF Grown, IsFile
  <2>2. CASE entries' = E
    BY <2>1, <2>2 DEF Entered, Holding
  <2>3. CASE q \notin DOMAIN E /\ entries' = With(Without(E, {p}), q, E[p])
    <3>1. q \in Paths \ DOMAIN E
      BY <1>2, <2>3
    <3>2. entries' \in Tables /\ Cardinality(Holding(entries', x)) = Cardinality(Holding(E, x))
      BY <2>1, <2>3, <3>1, MoveHolds
    <3>3. Cardinality(Holding(E, x)) = 0
      BY <2>1, FS_EmptySet
    <3>4. IsFiniteSet(Holding(entries', x))
      BY <3>2, HoldingFinite
    <3>5. Holding(entries', x) = {}
      BY <3>2, <3>3, <3>4, FS_EmptySet
    <3> QED
      BY <3>5 DEF Entered, Holding
  <2> QED
    BY <1>2, <2>2, <2>3
<1>5. requests' = requests /\ unlinks' = unlinks /\ disk' = disk /\ exposed' = exposed
  BY DEF Move, blobs
<1> QED
  BY <1>4, <1>5, GrowKeepsBytes DEF Counted, Holds

LEMMA BytesKeptStep == Typed /\ BytesKept /\ [Next]_vars => BytesKept'
<1> SUFFICES ASSUME Typed, BytesKept, [Next]_vars PROVE BytesKept'
  OBVIOUS
<1>1. entries \in Tables /\ RequestsOK
  BY DEF Typed, TypeOK, TablesOK, Tables, Kinds
<1>2. CASE \/ \E c \in Conns : Look(c) \/ Rename(c) \/ Abandon(c) \/ Refuse(c) \/ CommitFails(c)
           \/ CopyFails
  BY <1>2, RequestsKeepBytes, FailureKeepsBytes
<1>3. ASSUME NEW c \in Conns, Commit(c) PROVE BytesKept'
  <2>1. /\ requests[c] \in Uploads /\ requests[c].stage = "stored" /\ c \in DOMAIN requests
        /\ requests' = Without(requests, {c})
    BY <1>1, <1>3 DEF RequestsOK, Commit, Stored
  <2>2. requests[c].path \in Paths /\ requests[c].hash \in Hashes
    BY <2>1 DEF Uploads
  <2>3. PICK E, q, h : E = entries /\ q \in Landing(c) /\ h = requests[c].hash /\ Put(E, q, h)
    BY <1>3 DEF Commit
  <2>4. q \in Paths /\ (q \in DOMAIN E => E[q].kind = "file")
    BY <1>1, <2>2, <2>3, LandsFacts DEF Landing
  <2>5. Grown(E) /\ Holds(h)
    BY <1>1, <2>1, <2>3 DEF Grown, Holds
  <2>6. /\ DOMAIN requests' \subseteq DOMAIN requests
        /\ \A d \in DOMAIN requests' : requests'[d] = requests[d]
    BY <2>1 DEF Without, Restrict
  <2> QED
    BY <2>2, <2>3, <2>4, <2>5, <2>6, PutKeepsBytes
<1>4. CASE Copy
  <2>1. PICK p, q, how, E, h :
          /\ p \in Paths /\ q \in Paths
          /\ E = WithTree(Parent(q)) /\ h = entries[p].hash
          /\ IsFile(p) /\ ~Blocked(Parent(q))
          /\ \/ \E r \in Lands(E, q, how) : Put(E, r, h)
             \/ /\ entries' = E
                /\ UNCHANGED <<refs, grants, blobs, history>>
    BY <1>4 DEF Copy
  <2>2. Grown(E) /\ requests' = requests
    BY <1>1, <1>4, <2>1, ParentFacts, TreeGrows DEF Copy
  <2>3. h \in Hashes /\ Entered(h) # {}
    BY <1>1, <2>1, IsTable, KindFacts DEF IsFile, Entered
  <2>4. ASSUME NEW r \in Lands(E, q, how), Put(E, r, h) PROVE BytesKept'
    <3>1. r \in Paths /\ (r \in DOMAIN E => E[r].kind = "file")
      BY <2>1, <2>2, LandsFacts DEF Grown
    <3> QED
      BY <2>2, <2>3, <2>4, <3>1, PutKeepsBytes
  <2>5. CASE entries' = E /\ UNCHANGED <<refs, grants, blobs, history>>
    <3>1. \A x \in Hashes : Entered(x)' = Entered(x)
      BY <2>2, <2>5, GrownHolds DEF Entered, Holding
    <3> QED
      BY <2>2, <2>5, <3>1, GrowKeepsBytes DEF Counted, Holds, blobs, history
  <2> QED
    BY <2>1, <2>4, <2>5
<1>5. CASE Mkdir \/ Crash \/ \E c \in Conns : BeginUpload(c)
  <2>1. PICK E : Grown(E) /\ entries' = E
    BY <1>1, <1>5, GrowSteps
  <2>2. disk' = disk /\ exposed' = exposed
    BY <1>1, <1>5, GrowSteps DEF history
  <2>3. \A x \in Hashes : Entered(x)' = Entered(x)
    BY <2>1, GrownHolds DEF Entered, Holding
  <2>4. CASE Crash
    BY <2>2, <2>3, <2>4, GrowKeepsBytes DEF Crash
  <2>5. CASE Mkdir
    BY <2>2, <2>3, <2>5, GrowKeepsBytes DEF Mkdir, blobs, Counted, Holds
  <2>6. ASSUME NEW c \in Conns, BeginUpload(c) PROVE BytesKept'
    <3>1. PICK p, how, h :
            /\ c \notin DOMAIN requests
            /\ requests' = With(requests, c,
                 [path |-> p, collision |-> how, hash |-> h, stage |-> "streaming"])
            /\ unlinks' = unlinks
      BY <2>6 DEF BeginUpload, blobs
    <3>2. /\ DOMAIN requests' = DOMAIN requests \cup {c} /\ requests'[c].stage = "streaming"
          /\ \A d \in DOMAIN requests : d # c => requests'[d] = requests[d]
      BY <3>1 DEF With
    <3>3. ASSUME NEW x \in Hashes PROVE (Counted(x)' => Counted(x)) /\ (Holds(x)' => Holds(x))
      BY <3>2 DEF Counted, Holds
    <3> QED
      BY <2>2, <2>3, <3>1, <3>3, GrowKeepsBytes
  <2> QED
    BY <1>5, <2>4, <2>5, <2>6
<1>6. CASE Remove \/ Move
  BY <1>6, RemoveKeepsBytes, MoveKeepsBytes
<1>7. ASSUME NEW h \in Hashes, Unlink(h) PROVE BytesKept'
  <2>1. /\ unlinks[h] > 0 /\ unlinks' = [unlinks EXCEPT ![h] = @ - 1] /\ disk' = disk \ {h}
        /\ entries' = entries /\ requests' = requests /\ exposed' = exposed
    BY <1>7 DEF Unlink, tables, history
  <2>2. unlinks \in [Hashes -> Nat]
    BY DEF Typed, TypeOK, BlobsOK
  <2>3. ASSUME NEW x \in Hashes
        PROVE  (Counted(x)' <=> Counted(x)) /\ (Holds(x)' <=> Holds(x)) /\ Entered(x)' = Entered(x)
    BY <2>1 DEF Counted, Holds, Entered
  <2>4. ASSUME NEW x \in Hashes, x \notin exposed, x # h
        PROVE  /\ Entered(x)' # {} \/ Counted(x)' => unlinks'[x] = 0
               /\ Entered(x)' # {} \/ Holds(x)' => x \in disk'
    BY <2>1, <2>2, <2>3, <2>4, QuietKeeps
  <2>5. h \notin exposed => Entered(h)' = {} /\ ~Counted(h)' /\ ~Holds(h)'
    <3>1. unlinks[h] # 0
      BY <2>1, <2>2
    <3> QED
      BY <2>3, <3>1 DEF BytesKept, Holds, Counted
  <2> QED
    BY <2>1, <2>4, <2>5 DEF BytesKept
<1>8. CASE Post \/ UNCHANGED vars
  <2>1. UNCHANGED <<entries, requests, disk, unlinks, exposed>>
    BY <1>8 DEF Post, vars, tables, blobs, history
  <2> QED
    BY <2>1 DEF BytesKept, Entered, Counted, Holds
<1> QED
  BY <1>2, <1>3, <1>4, <1>5, <1>6, <1>7, <1>8 DEF Next

\* The bytes of every file are there, whatever uploads, removals and unlinks run
\* at once, but for contents an upload and an unlink raced for and those whose
\* commit failed: what a race can lose is what the code leaves unguarded there.
THEOREM BytesStay == Spec => []BytesPresent
<1>1. Init => BytesKept
  <2> SUFFICES ASSUME Init PROVE BytesKept
    OBVIOUS
  <2>1. \A h \in Hashes : Entered(h) = {}
    <3>1. \A p \in DOMAIN entries : entries[p] = Directory
      BY DEF Init
    <3> QED
      BY <3>1, ContentAssumption DEF Entered, Directory
  <2> QED
    BY <2>1 DEF Init, BytesKept, Holds
<1>2. Typed /\ BytesKept => BytesPresent
  <2> SUFFICES ASSUME Typed, BytesKept, NEW p \in DOMAIN entries, IsFile(p)
               PROVE  entries[p].hash \in disk \cup exposed
    BY DEF BytesPresent
  <2>1. entries \in Tables
    BY DEF Typed, TypeOK, TablesOK, Tables, Kinds
  <2>2. entries[p].hash \in Hashes /\ Entered(entries[p].hash) # {}
    BY <2>1, IsTable, KindFacts DEF IsFile, Entered
  <2> QED
    BY <2>2 DEF BytesKept
<1> QED
  BY <1>1, <1>2, TypedAtFirst, TypedKept, BytesKeptStep, PTL DEF Spec

-----------------------------------------------------------------------------
(* The tree. *)

\* Every entry of E lies in a directory, unless it is a file of O.
Closed(E, O) ==
  \A p \in DOMAIN E :
    \/ Len(p) = 1
    \/ Parent(p) \in DOMAIN E /\ E[Parent(p)] = Directory
    \/ p \in O /\ E[p].kind = "file"

LEMMA ClosedTree ==
  ASSUME entries \in Tables
  PROVE  TreeClosed <=> Closed(entries, outlived)
<1>1. \A p \in DOMAIN entries : IsDirectory(p) <=> entries[p] = Directory
  BY IsTable, KindFacts DEF IsDirectory
<1>2. \A p : IsDirectory(p) => p \in DOMAIN entries
  BY DEF IsDirectory
<1> QED
  BY <1>1, <1>2 DEF TreeClosed, Closed, IsFile

LEMMA GrownIsClosed ==
  ASSUME Closed(entries, outlived), NEW E, Grown(E)
  PROVE  Closed(E, outlived)
  BY DEF Closed, Grown

LEMMA PutKeepsTree ==
  ASSUME NEW E \in Tables, NEW O, Closed(E, O), NEW q \in Paths, NEW h \in Hashes,
         q \in DOMAIN E => E[q].kind = "file",
         NEW P, O \subseteq P,
         q \in P \/ Len(q) = 1 \/ (Parent(q) \in DOMAIN E /\ E[Parent(q)] = Directory)
  PROVE  Closed(With(E, q, File(h)), P)
<1> DEFINE F == With(E, q, File(h))
<1>1. /\ DOMAIN F = DOMAIN E \cup {q} /\ F[q] = File(h)
      /\ \A p \in DOMAIN E : p # q => F[p] = E[p]
  <2> DEFINE v == File(h)
  <2>1. E \in Tables /\ v \in Kinds
    BY DEF Closed, Kinds
  <2> HIDE DEF v
  <2>2. /\ DOMAIN With(E, q, v) = DOMAIN E \cup {q}
        /\ With(E, q, v)[q] = v
        /\ \A p \in DOMAIN E : p # q => With(E, q, v)[p] = E[p]
    BY ONLY <2>1, WithFacts
  <2> QED
    BY <2>2 DEF v
<1>2. Directory.kind # "file" /\ File(h).kind = "file"
  BY DEF Directory, File
<1> HIDE DEF F
<1>3. \A d \in DOMAIN E : E[d] = Directory => d # q /\ d \in DOMAIN F /\ F[d] = Directory
  BY <1>1, <1>2
<1>4. ASSUME NEW p \in DOMAIN E, p # q
      PROVE  Len(p) = 1 \/ (Parent(p) \in DOMAIN F /\ F[Parent(p)] = Directory)
             \/ (p \in P /\ F[p].kind = "file")
  BY <1>1, <1>3, <1>4 DEF Closed
<1>5. Len(q) = 1 \/ (Parent(q) \in DOMAIN F /\ F[Parent(q)] = Directory)
      \/ (q \in P /\ F[q].kind = "file")
  BY <1>1, <1>2, <1>3
<1>6. Closed(F, P)
  BY <1>1, <1>4, <1>5 DEF Closed
<1> QED
  BY <1>6 DEF F

\* A subtree goes with all that lies in it, and so does what a pattern matches.
LEMMA RemoveKeepsTree ==
  ASSUME Typed, Closed(entries, outlived), Remove
  PROVE  Closed(entries', outlived')
<1>1. PICK p, gone :
        /\ p \in DOMAIN entries
        /\ gone = IF IsFile(p) THEN {p} ELSE Subtree(p)
        /\ entries' = Without(entries, gone) /\ outlived' = outlived \ gone
  BY DEF Remove
<1>2. entries \in Tables /\ DOMAIN entries \subseteq Paths
  BY IsTable DEF Typed, TypeOK, TablesOK, Tables, Kinds
<1>3. ASSUME NEW r \in DOMAIN entries, Len(r) # 1, Parent(r) \in DOMAIN entries,
             entries[Parent(r)] = Directory, Parent(r) \in gone
      PROVE  r \in gone
  <2>1. r \in Paths /\ p \in Paths /\ r \in Prefixes(r) /\ Parent(r) \in Prefixes(r)
    BY <1>1, <1>2, <1>3, PrefixFacts, PathsAssumption DEF IsPath
  <2>2. ~IsFile(p)
    BY <1>1, <1>3 DEF IsFile, Directory
  <2>3. Inside(p, Parent(r)) \/ Parent(r) \in Alike[p]
    BY <1>1, <1>3, <2>2 DEF Subtree
  <2>4. Inside(p, Parent(r)) => Inside(p, r)
    BY <2>1, ParentFacts DEF Inside
  <2>5. Parent(r) \in Alike[p] => r \in Alike[p]
    BY <2>1, AlikeAssumption DEF Inside
  <2> QED
    BY <1>1, <2>2, <2>3, <2>4, <2>5 DEF Subtree
<1> DEFINE F == Without(entries, gone)
<1>4. DOMAIN F = DOMAIN entries \ gone /\ \A r \in DOMAIN F : F[r] = entries[r]
  BY <1>2, WithoutFacts
<1> HIDE DEF F
<1>5. Closed(F, outlived \ gone)
  BY <1>3, <1>4 DEF Closed
<1> QED
  BY <1>1, <1>5 DEF F

LEMMA MoveKeepsTree ==
  ASSUME Typed, Closed(entries, outlived), Move
  PROVE  Closed(entries', outlived')
<1>1. entries \in Tables
  BY DEF Typed, TypeOK, TablesOK, Tables, Kinds
<1>2. PICK p, q, E :
        /\ p \in Paths /\ q \in Paths
        /\ E = WithTree(Parent(q)) /\ ~Blocked(Parent(q)) /\ IsFile(p)
        /\ \/ q \in DOMAIN E /\ entries' = E /\ outlived' = outlived
           \/ /\ q \notin DOMAIN E
              /\ entries' = With(Without(E, {p}), q, E[p])
              /\ outlived' = outlived \ {p}
  BY DEF Move
<1>3. /\ Grown(E) /\ Closed(E, outlived)
      /\ Len(q) = 1 \/ (Parent(q) \in DOMAIN E /\ E[Parent(q)] = Directory)
  BY <1>1, <1>2, ParentFacts, TreeGrows, GrownIsClosed
<1>4. CASE q \notin DOMAIN E /\ entries' = With(Without(E, {p}), q, E[p]) /\ outlived' = outlived \ {p}
  <2> DEFINE D == Without(E, {p})
  <2>1. /\ E \in Tables /\ p \in DOMAIN E /\ E[p] # Directory /\ E[p] \in Kinds
        /\ E[p].kind = "file"
    BY <1>2, <1>3, IsTable DEF Grown, IsFile, Directory
  <2>2. D \in Tables /\ DOMAIN D = DOMAIN E \ {p} /\ \A r \in DOMAIN D : D[r] = E[r]
    BY <2>1, WithoutFacts
  <2>3. PICK h \in Hashes : E[p] = File(h)
    BY <2>1 DEF Kinds
  <2>4. \A d \in DOMAIN E : E[d] = Directory => d \in DOMAIN D /\ D[d] = Directory
    BY <2>1, <2>2
  <2> HIDE DEF D
  <2>5. Closed(D, outlived \ {p})
    BY <1>3, <2>2, <2>4 DEF Closed
  <2>6. Len(q) = 1 \/ (Parent(q) \in DOMAIN D /\ D[Parent(q)] = Directory)
    BY <1>3, <2>4
  <2>7. q \notin DOMAIN D
    BY <1>4, <2>2
  <2>8. PICK O : O = outlived \ {p}
    OBVIOUS
  <2>9. Closed(With(D, q, File(h)), O)
    BY <1>2, <2>2, <2>5, <2>6, <2>7, <2>8, PutKeepsTree
  <2> QED
    BY <1>4, <2>3, <2>8, <2>9 DEF D
<1> QED
  BY <1>2, <1>3, <1>4

LEMMA TreeKept == Typed /\ TreeClosed /\ [Next]_vars => TreeClosed'
<1> SUFFICES ASSUME Typed, Typed', TreeClosed, [Next]_vars PROVE TreeClosed'
  BY TypedKept
<1>1. entries \in Tables /\ RequestsOK /\ Closed(entries, outlived)
  BY ClosedTree DEF Typed, TypeOK, TablesOK, Tables, Kinds
<1>2. Closed(entries', outlived') => TreeClosed'
  <2>1. entries' \in Tables
    BY DEF Typed, TypeOK, TablesOK, Tables, Kinds
  <2>2. \A p \in DOMAIN entries' : entries'[p] = Directory => IsDirectory(p)'
    BY DEF IsDirectory, Directory
  <2> QED
    BY <2>2 DEF TreeClosed, Closed, IsFile
<1>3. CASE Mkdir \/ Crash \/ \E c \in Conns : BeginUpload(c)
  <2>1. PICK E : Grown(E) /\ entries' = E /\ outlived' = outlived
    BY <1>1, <1>3, GrowSteps DEF history
  <2> QED
    BY <1>1, <1>2, <2>1, GrownIsClosed
<1>4. CASE Copy \/ \E c \in Conns : Commit(c)
  <2>1. ASSUME NEW E \in Tables, NEW q \in Paths, NEW h \in Hashes,
               Grown(E), q \in DOMAIN E => E[q].kind = "file", Put(E, q, h)
        PROVE  TreeClosed'
    <3>1. PICK O, P : O = outlived /\ P = outlived'
      OBVIOUS
    <3>2. Closed(E, O)
      BY <1>1, <2>1, <3>1, GrownIsClosed
    <3>3. /\ O \subseteq P
          /\ q \in P \/ Len(q) = 1 \/ (Parent(q) \in DOMAIN E /\ E[Parent(q)] = Directory)
      BY <2>1, <3>1 DEF Put
    <3>4. Closed(With(E, q, File(h)), P)
      BY <2>1, <3>2, <3>3, PutKeepsTree
    <3> QED
      BY <1>2, <2>1, <3>1, <3>4 DEF Put
  <2>2. CASE /\ \E E : Grown(E) /\ entries' = E
             /\ UNCHANGED <<refs, grants, blobs, history>>
    BY <1>1, <1>2, <2>2, GrownIsClosed DEF history
  <2> QED
    BY <1>1, <1>4, <2>1, <2>2, PutSteps
<1>5. CASE Remove \/ Move
  BY <1>1, <1>2, <1>5, RemoveKeepsTree, MoveKeepsTree
<1>7. CASE CopyFails \/ \E c \in Conns : CommitFails(c)
  <2>1. PICK E, H : Grown(E) /\ entries' = E /\ RollBack(H)
    BY <1>1, <1>7, RollBackSteps
  <2>2. outlived' = outlived
    BY <2>1 DEF RollBack
  <2> QED
    BY <1>1, <1>2, <2>1, <2>2, GrownIsClosed
<1>6. CASE \/ \E c \in Conns : Look(c) \/ Rename(c) \/ Abandon(c) \/ Refuse(c)
           \/ \E h \in Hashes : Unlink(h)
           \/ Post \/ UNCHANGED vars
  <2>1. UNCHANGED <<entries, outlived>>
    BY <1>6 DEF Look, Rename, Abandon, Refuse, Unlink, Post, vars, tables, history
  <2> QED
    BY <1>1, <1>2, <2>1
<1> QED
  BY <1>3, <1>4, <1>5, <1>6, <1>7 DEF Next

\* Every entry lies in a directory, unless it is a file whose directory was
\* removed while it was uploaded: no removal, move or crash orphans anything else.
THEOREM TreeStaysClosed == Spec => []TreeClosed
<1>1. Init => TreeClosed
  <2> SUFFICES ASSUME Init, NEW p \in DOMAIN entries PROVE Len(p) = 1
    BY DEF TreeClosed
  <2> QED
    BY DEF Init
<1> QED
  BY <1>1, TypedAtFirst, TypedKept, TreeKept, PTL DEF Spec

-----------------------------------------------------------------------------
(* Grants. *)

LEMMA GrantsKept == Typed /\ GrantsHaveFiles /\ [Next]_vars => GrantsHaveFiles'
<1> SUFFICES ASSUME Typed, GrantsHaveFiles, [Next]_vars PROVE GrantsHaveFiles'
  OBVIOUS
<1>1. entries \in Tables /\ RequestsOK
  BY DEF Typed, TypeOK, TablesOK, Tables, Kinds
<1>2. ASSUME NEW E, Grown(E), entries' = E, grants' = grants PROVE GrantsHaveFiles'
  BY <1>2 DEF GrantsHaveFiles, IsFile, Grown
<1>3. CASE Mkdir \/ Crash \/ \E c \in Conns : BeginUpload(c)
  BY <1>1, <1>2, <1>3, GrowSteps
<1>4. CASE Copy \/ \E c \in Conns : Commit(c)
  <2>1. ASSUME NEW E \in Tables, NEW q \in Paths, NEW h \in Hashes, Grown(E), Put(E, q, h)
        PROVE  GrantsHaveFiles'
    <3>1. File(h) \in Kinds /\ File(h).kind = "file"
      BY DEF Kinds, File
    <3>2. /\ entries' = With(E, q, File(h)) /\ grants' = grants
          /\ DOMAIN With(E, q, File(h)) = DOMAIN E \cup {q}
          /\ With(E, q, File(h))[q] = File(h)
          /\ \A p \in DOMAIN E : p # q => With(E, q, File(h))[p] = E[p]
      BY <2>1, <3>1, WithFacts DEF Put
    <3>3. \A p : IsFile(p) => p \in DOMAIN E /\ E[p].kind = "file"
      BY <2>1 DEF IsFile, Grown
    <3>4. \A p : IsFile(p) => p \in DOMAIN entries' /\ entries'[p].kind = "file"
      BY <3>1, <3>2, <3>3
    <3> QED
      BY <3>2, <3>4 DEF GrantsHaveFiles, IsFile
  <2> QED
    BY <1>1, <1>2, <1>4, <2>1, PutSteps
<1>5. CASE Remove
  <2>1. PICK gone : entries' = Without(entries, gone) /\ grants' = {g \in grants : g.path \notin gone}
    BY <1>5 DEF Remove, DropGrants
  <2> DEFINE F == Without(entries, gone)
  <2>2. DOMAIN F = DOMAIN entries \ gone /\ \A p \in DOMAIN F : F[p] = entries[p]
    BY <1>1, WithoutFacts
  <2>3. entries' = F
    BY <2>1
  <2> HIDE DEF F
  <2> QED
    BY <2>1, <2>2, <2>3 DEF GrantsHaveFiles, IsFile
<1>6. CASE Move
  <2>1. PICK p, q, E :
          /\ p \in Paths /\ q \in Paths
          /\ E = WithTree(Parent(q)) /\ ~Blocked(Parent(q)) /\ IsFile(p)
          /\ \/ q \in DOMAIN E /\ entries' = E /\ grants' = grants /\ outlived' = outlived
             \/ /\ q \notin DOMAIN E
                /\ entries' = With(Without(E, {p}), q, E[p])
                /\ grants' = {IF g.path = p THEN [g EXCEPT !.path = q] ELSE g : g \in grants}
                /\ outlived' = outlived \ {p}
    BY <1>6 DEF Move
  <2>2. Grown(E)
    BY <1>1, <2>1, ParentFacts, TreeGrows
  <2>3. CASE /\ q \notin DOMAIN E
             /\ entries' = With(Without(E, {p}), q, E[p])
             /\ grants' = {IF g.path = p THEN [g EXCEPT !.path = q] ELSE g : g \in grants}
    <3>1. E \in Tables /\ p \in DOMAIN E /\ E[p] \in Kinds /\ E[p].kind = "file"
      BY <2>1, <2>2, IsTable DEF Grown, IsFile
    <3> DEFINE D == Without(E, {p})
               v == E[p]
    <3>2. D \in Tables /\ DOMAIN D = DOMAIN E \ {p} /\ \A r \in DOMAIN D : D[r] = E[r]
      BY <3>1, WithoutFacts
    <3>3. v \in Kinds /\ v.kind = "file" /\ entries' = With(D, q, v)
      BY <2>3, <3>1
    <3> HIDE DEF D, v
    <3> DEFINE F == With(D, q, v)
    <3>4. /\ DOMAIN F = DOMAIN D \cup {q} /\ F[q] = v
          /\ \A r \in DOMAIN D : r # q => F[r] = D[r]
      <4>1. D \in Tables /\ q \in Paths /\ v \in Kinds
        BY <2>1, <3>2, <3>3
      <4> QED
        BY <4>1, WithFacts
    <3>8. entries' = F
      BY <3>3
    <3> HIDE DEF F
    <3>5. IsFile(q)'
      BY <3>3, <3>4, <3>8 DEF IsFile
    <3>6. ASSUME NEW r, IsFile(r), r # p PROVE IsFile(r)'
      <4>1. r \in DOMAIN E /\ E[r].kind = "file" /\ r # q
        BY <2>2, <2>3, <3>6 DEF IsFile, Grown
      <4> QED
        BY <3>2, <3>4, <3>6, <3>8, <4>1 DEF IsFile
    <3>7. ASSUME NEW g \in grants PROVE IsFile((IF g.path = p THEN [g EXCEPT !.path = q] ELSE g).path)'
      <4>1. g \in Grants /\ IsFile(g.path)
        BY DEF Typed, TypeOK, TablesOK, GrantsHaveFiles
      <4>2. [g EXCEPT !.path = q].path = q
        BY <4>1 DEF Grants
      <4> QED
        BY <3>5, <3>6, <4>1, <4>2
    <3> QED
      BY <2>3, <3>7 DEF GrantsHaveFiles
  <2> QED
    BY <1>2, <2>1, <2>2, <2>3
<1>7. CASE Post
  <2>1. PICK p, viewers : IsFile(p) /\ grants' = grants \cup Granted(p, viewers) /\ entries' = entries
    BY <1>7 DEF Post, Attachable
  <2>2. \A g \in Granted(p, viewers) : g.path = p
    BY DEF Granted
  <2> QED
    BY <2>1, <2>2 DEF GrantsHaveFiles, IsFile
<1>9. CASE CopyFails \/ \E c \in Conns : CommitFails(c)
  <2>1. PICK E, H : Grown(E) /\ entries' = E /\ RollBack(H)
    BY <1>1, <1>9, RollBackSteps
  <2>2. grants' = grants
    BY <2>1 DEF RollBack
  <2> QED
    BY <1>2, <2>1, <2>2
<1>8. CASE \/ \E c \in Conns : Look(c) \/ Rename(c) \/ Abandon(c) \/ Refuse(c)
           \/ \E h \in Hashes : Unlink(h)
           \/ UNCHANGED vars
  <2>1. UNCHANGED <<entries, grants>>
    BY <1>8 DEF Look, Rename, Abandon, Refuse, Unlink, vars, tables
  <2> QED
    BY <2>1 DEF GrantsHaveFiles, IsFile
<1> QED
  BY <1>3, <1>4, <1>5, <1>6, <1>7, <1>8, <1>9 DEF Next

\* A grant ends with its file and follows it when it moves: no removal, however
\* deep, leaves one that a later upload to the same path would inherit.
THEOREM GrantsEndWithFiles == Spec => []GrantsHaveFiles
<1>1. Init => GrantsHaveFiles
  BY DEF Init, GrantsHaveFiles
<1> QED
  BY <1>1, TypedAtFirst, TypedKept, GrantsKept, PTL DEF Spec

=============================================================================
