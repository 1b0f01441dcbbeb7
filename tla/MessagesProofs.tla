--------------------------- MODULE MessagesProofs ---------------------------
(***************************************************************************)
(* Theorems about what members read: the channels, for every team, every   *)
(* set of slugs and any number of channels and waiting requests; and the   *)
(* transcript of a viewer, for any threads, any log and any sizes of a     *)
(* backfill and a page.                                                    *)
(***************************************************************************)
EXTENDS Channels, Transcript, FiniteSetTheorems, SequenceTheorems, TLAPS

-----------------------------------------------------------------------------
(* Channels. *)

\* A membership is a function from some names to roles.
LEMMA IsMembership ==
  ASSUME NEW f
  PROVE  f \in Memberships <=> f \in [DOMAIN f -> Roles] /\ DOMAIN f \subseteq Names
<1>1. ASSUME f \in Memberships PROVE f \in [DOMAIN f -> Roles] /\ DOMAIN f \subseteq Names
  <2>1. PICK S \in SUBSET Names : f \in [S -> Roles]
    BY <1>1 DEF Memberships
  <2> QED
    BY <2>1
<1>2. ASSUME f \in [DOMAIN f -> Roles], DOMAIN f \subseteq Names PROVE f \in Memberships
  BY <1>2 DEF Memberships
<1> QED
  BY <1>1, <1>2

\* Joining and leaving make a membership of a membership.
LEMMA JoinAndLeave ==
  ASSUME NEW f \in Memberships, NEW n \in Names, NEW role \in Roles
  PROVE  /\ With(f, n, role) \in Memberships
         /\ Restrict(f, DOMAIN f \ {n}) \in Memberships
         /\ Nobody \in Memberships
<1>1. f \in [DOMAIN f -> Roles] /\ DOMAIN f \subseteq Names
  BY IsMembership
<1>2. With(f, n, role) \in [DOMAIN f \cup {n} -> Roles]
  BY <1>1 DEF With
<1>3. Restrict(f, DOMAIN f \ {n}) \in [DOMAIN f \ {n} -> Roles]
  BY <1>1 DEF Restrict
<1>4. Nobody \in [{} -> Roles]
  BY DEF Nobody
<1> QED
  BY <1>1, <1>2, <1>3, <1>4 DEF Memberships

\* What a new row of channels and its memberships look like.
LEMMA AppendRow ==
  ASSUME TypeOK, NEW c \in Channel, NEW f \in Memberships,
         channels' = Append(channels, c), rows' = Append(rows, f)
  PROVE  /\ channels' \in Seq(Channel) /\ rows' \in Seq(Memberships)
         /\ Len(rows') = Len(channels') /\ Len(channels') = Len(channels) + 1
         /\ Ids' = Ids \cup {Len(channels) + 1} /\ Len(channels) + 1 \notin Ids
         /\ channels'[Len(channels) + 1] = c /\ rows'[Len(channels) + 1] = f
         /\ \A i \in Ids : channels'[i] = channels[i] /\ rows'[i] = rows[i]
<1>1. /\ channels \in Seq(Channel) /\ rows \in Seq(Memberships)
      /\ Len(rows) = Len(channels) /\ Len(channels) \in Nat /\ Ids = 1..Len(channels)
  BY LenProperties DEF TypeOK, Ids
<1>2. /\ channels' \in Seq(Channel) /\ Len(channels') = Len(channels) + 1
      /\ \A i \in 1..Len(channels) : channels'[i] = channels[i]
      /\ channels'[Len(channels) + 1] = c
  BY <1>1, AppendProperties
<1>3. /\ rows' \in Seq(Memberships) /\ Len(rows') = Len(rows) + 1
      /\ \A i \in 1..Len(rows) : rows'[i] = rows[i]
      /\ rows'[Len(rows) + 1] = f
  BY <1>1, AppendProperties
<1>4. Ids' = 1..Len(channels) + 1
  BY <1>2, LenProperties DEF Ids
<1> QED
  BY <1>1, <1>2, <1>3, <1>4
-----------------------------------------------------------------------------
(* Types, one lemma per action that touches the tables. *)

\* A slug resolves to a channel.
LEMMA Resolved == \A s \in Slugs : Resolve(s) \subseteq Ids
  BY DEF Resolve

\* A new channel: its first admin is inserted, or the channel is adrift.
LEMMA Created ==
  ASSUME TypeOK, Create
  PROVE  \E n \in Names, s \in Slugs, f \in Memberships, k \in Nat :
           /\ IndexAllows(s) /\ k = Len(channels) + 1 /\ k <= MaxChannels
           /\ channels' = Append(channels, [slug |-> s, archived |-> FALSE])
           /\ [slug |-> s, archived |-> FALSE] \in Channel
           /\ rows' = Append(rows, f)
           /\ \/ n \in DOMAIN f /\ f[n] = "admin" /\ UNCHANGED <<adrift, faults>>
              \/ adrift' = adrift \cup {k} /\ faults' \in 0..MaxFaults
<1>1. PICK n \in callers, s \in Slugs :
        /\ IndexAllows(s)
        /\ channels' = Append(channels, [slug |-> s, archived |-> FALSE])
        /\ \/ rows' = Append(rows, With(Nobody, n, "admin")) /\ UNCHANGED <<adrift, faults>>
           \/ /\ faults < MaxFaults /\ faults' = faults + 1
              /\ rows' = Append(rows, Nobody)
              /\ adrift' = adrift \cup {Len(channels) + 1}
  BY DEF Create
<1>2. n \in Names /\ "admin" \in Roles
  BY DEF TypeOK, Roles
<1>3. Nobody \in Memberships
  BY DEF Memberships, Nobody
<1>4. With(Nobody, n, "admin") \in Memberships
  BY <1>2, <1>3, JoinAndLeave
<1>5. n \in DOMAIN With(Nobody, n, "admin") /\ With(Nobody, n, "admin")[n] = "admin"
  BY DEF With
<1>6. [slug |-> s, archived |-> FALSE] \in Channel
  BY DEF Channel
<1>7. PICK k \in Nat : k = Len(channels) + 1 /\ k <= MaxChannels
  <2>1. Len(channels) \in Nat /\ Len(channels) < MaxChannels /\ MaxChannels \in Nat
    BY LenProperties, BoundsAssumption DEF TypeOK, Create
  <2> QED
    BY <2>1
<1>8. faults < MaxFaults => faults + 1 \in 0..MaxFaults
  BY BoundsAssumption DEF TypeOK
<1>9. CASE rows' = Append(rows, With(Nobody, n, "admin")) /\ UNCHANGED <<adrift, faults>>
  BY <1>1, <1>2, <1>4, <1>5, <1>6, <1>7, <1>9
<1>10. CASE /\ faults < MaxFaults /\ faults' = faults + 1
            /\ rows' = Append(rows, Nobody)
            /\ adrift' = adrift \cup {Len(channels) + 1}
  BY <1>1, <1>2, <1>3, <1>6, <1>7, <1>8, <1>10
<1> QED
  BY <1>1, <1>9, <1>10

LEMMA CreateTypes == TypeOK /\ Create => TypeOK'
<1> SUFFICES ASSUME TypeOK, Create PROVE TypeOK'
  OBVIOUS
<1>1. PICK s \in Slugs, f \in Memberships, k \in Nat :
        /\ k = Len(channels) + 1 /\ k <= MaxChannels
        /\ channels' = Append(channels, [slug |-> s, archived |-> FALSE])
        /\ [slug |-> s, archived |-> FALSE] \in Channel
        /\ rows' = Append(rows, f)
        /\ UNCHANGED <<adrift, faults>> \/ (adrift' = adrift \cup {k} /\ faults' \in 0..MaxFaults)
  BY Created
<1>2. /\ channels' \in Seq(Channel) /\ rows' \in Seq(Memberships)
      /\ Len(rows') = Len(channels') /\ Len(channels') = k
      /\ Ids' = Ids \cup {k}
  BY <1>1, AppendRow
<1>3. UNCHANGED <<team, callers, waiting, edits>>
  BY DEF Create
<1> QED
  BY <1>1, <1>2, <1>3 DEF TypeOK

\* The tables after an edit of one row.
LEMMA EditTypes ==
  ASSUME TypeOK, NEW i \in Ids, NEW c \in Channel, NEW f \in Memberships
  PROVE  /\ [channels EXCEPT ![i] = c] \in Seq(Channel)
         /\ Len([channels EXCEPT ![i] = c]) = Len(channels)
         /\ DOMAIN [channels EXCEPT ![i] = c] = Ids
         /\ [rows EXCEPT ![i] = f] \in Seq(Memberships)
         /\ Len([rows EXCEPT ![i] = f]) = Len(rows)
<1>1. i \in 1..Len(channels) /\ i \in 1..Len(rows)
  BY LenProperties DEF TypeOK, Ids
<1> QED
  BY <1>1, ExceptSeq DEF TypeOK, Ids

LEMMA RowTypes ==
  ASSUME TypeOK, NEW i \in Ids
  PROVE  /\ channels[i] \in Channel /\ rows[i] \in Memberships
         /\ Ids = 1..Len(channels) /\ Len(channels) \in Nat
         /\ DOMAIN rows = Ids
  BY LenProperties, ElementOfSeq DEF TypeOK, Ids

LEMMA RenameTypes == TypeOK /\ Rename => TypeOK'
<1> SUFFICES ASSUME TypeOK, Rename PROVE TypeOK'
  OBVIOUS
<1>1. PICK s \in Slugs, t \in Slugs : \E i \in Resolve(s) :
        channels' = [channels EXCEPT ![i].slug = t]
  BY DEF Rename
<1>2. PICK i \in Ids : channels' = [channels EXCEPT ![i].slug = t]
  BY <1>1, Resolved
<1>3. UNCHANGED <<rows, team, callers, waiting, adrift, edits, faults>>
  BY DEF Rename
<1>4. [channels[i] EXCEPT !.slug = t] \in Channel /\ rows[i] \in Memberships
  BY RowTypes DEF Channel
<1>5. channels' = [channels EXCEPT ![i] = [channels[i] EXCEPT !.slug = t]]
  BY <1>2
<1>6. channels' \in Seq(Channel) /\ Len(channels') = Len(channels) /\ Ids' = Ids
  BY <1>4, <1>5, EditTypes DEF Ids
<1> QED
  BY <1>3, <1>6 DEF TypeOK

LEMMA ArchiveTypes == TypeOK /\ Archive => TypeOK'
<1> SUFFICES ASSUME TypeOK, Archive PROVE TypeOK'
  OBVIOUS
<1>1. PICK s \in Slugs : \E i \in Resolve(s) :
        channels' = [channels EXCEPT ![i].archived = TRUE]
  BY DEF Archive
<1>2. PICK i \in Ids : channels' = [channels EXCEPT ![i].archived = TRUE]
  BY <1>1, Resolved
<1>3. UNCHANGED <<rows, team, callers, waiting, adrift, edits, faults>>
  BY DEF Archive
<1>4. [channels[i] EXCEPT !.archived = TRUE] \in Channel /\ rows[i] \in Memberships
  BY RowTypes DEF Channel
<1>5. channels' = [channels EXCEPT ![i] = [channels[i] EXCEPT !.archived = TRUE]]
  BY <1>2
<1>6. channels' \in Seq(Channel) /\ Len(channels') = Len(channels) /\ Ids' = Ids
  BY <1>4, <1>5, EditTypes DEF Ids
<1> QED
  BY <1>3, <1>6 DEF TypeOK

LEMMA BeginAddTypes == TypeOK /\ BeginAdd => TypeOK'
<1> SUFFICES ASSUME TypeOK, BeginAdd PROVE TypeOK'
  OBVIOUS
<1>1. LookedUp \subseteq Requests /\ \A r \in LookedUp : r.channel \in Ids
  BY Resolved DEF LookedUp
<1>2. UNCHANGED <<channels, rows, team, callers, adrift, edits, faults>> /\ Ids' = Ids
  BY DEF BeginAdd, tables, Ids
<1>3. PICK r \in LookedUp : waiting' = waiting \cup {r}
  BY DEF BeginAdd
<1> QED
  BY <1>1, <1>2, <1>3 DEF TypeOK

\* Joining: the channel is of the team's tables and still active.
LEMMA Joined ==
  ASSUME TypeOK, Add
  PROVE  \E i \in Ids, n \in Names, role \in Roles :
           /\ Active(i)
           /\ rows' = rows \/ rows' = [rows EXCEPT ![i] = With(rows[i], n, role)]
           /\ n \in DOMAIN rows[i] => rows' = rows
<1>1. LookedUp \subseteq Requests /\ \A r \in LookedUp : r.channel \in Ids
  BY Resolved DEF LookedUp
<1>2. PICK r \in waiting \cup LookedUp, n \in Names, role \in Roles :
        /\ Active(r.channel)
        /\ rows' = IF n \in DOMAIN rows[r.channel] THEN rows
                   ELSE [rows EXCEPT ![r.channel] = With(@, n, role)]
  BY DEF Add, OpenForMembers
<1>3. r.channel \in Ids
  BY <1>1, <1>2 DEF TypeOK
<1> QED
  BY <1>2, <1>3

LEMMA AddTypes == TypeOK /\ Add => TypeOK'
<1> SUFFICES ASSUME TypeOK, Add PROVE TypeOK'
  OBVIOUS
<1>1. PICK i \in Ids, n \in Names, role \in Roles :
        rows' = rows \/ rows' = [rows EXCEPT ![i] = With(rows[i], n, role)]
  BY Joined
<1>2. With(rows[i], n, role) \in Memberships /\ channels[i] \in Channel
  BY RowTypes, JoinAndLeave
<1>3. rows' \in Seq(Memberships) /\ Len(rows') = Len(rows)
  BY <1>1, <1>2, EditTypes DEF TypeOK
<1>4. waiting' \subseteq waiting
  BY DEF Add
<1>5. UNCHANGED <<channels, team, callers, adrift, edits, faults>> /\ Ids' = Ids
  BY DEF Add, Ids
<1> QED
  BY <1>3, <1>4, <1>5 DEF TypeOK

\* Leaving: who may leave does, and the rest of the channel stays.
LEMMA Parted ==
  ASSUME TypeOK, Remove
  PROVE  \E i \in Ids, n \in Names :
           /\ MayLeave(n, i) /\ n \in DOMAIN rows[i]
           /\ rows' = [rows EXCEPT ![i] = Restrict(rows[i], DOMAIN rows[i] \ {n})]
           /\ adrift' = IF DOMAIN rows[i] = {n} THEN adrift \cup {i} ELSE adrift
<1>1. PICK n \in Names, s \in Slugs : \E i \in Resolve(s) :
        /\ n \in DOMAIN rows[i] /\ MayLeave(n, i)
        /\ rows' = [rows EXCEPT ![i] = Restrict(@, DOMAIN @ \ {n})]
        /\ adrift' = IF DOMAIN rows[i] = {n} THEN adrift \cup {i} ELSE adrift
  BY DEF Remove
<1> QED
  BY <1>1, Resolved

LEMMA RemoveTypes == TypeOK /\ Remove => TypeOK'
<1> SUFFICES ASSUME TypeOK, Remove PROVE TypeOK'
  OBVIOUS
<1>1. PICK i \in Ids, n \in Names :
        /\ rows' = [rows EXCEPT ![i] = Restrict(rows[i], DOMAIN rows[i] \ {n})]
        /\ adrift' = IF DOMAIN rows[i] = {n} THEN adrift \cup {i} ELSE adrift
  BY Parted
<1>2. "member" \in Roles
  BY DEF Roles
<1>3. Restrict(rows[i], DOMAIN rows[i] \ {n}) \in Memberships /\ channels[i] \in Channel
  BY <1>2, RowTypes, JoinAndLeave
<1>4. rows' \in Seq(Memberships) /\ Len(rows') = Len(rows)
  BY <1>1, <1>3, EditTypes
<1>5. UNCHANGED <<channels, team, callers, waiting, edits, faults>> /\ Ids' = Ids
  BY DEF Remove, Ids
<1> QED
  BY <1>1, <1>4, <1>5 DEF TypeOK

LEMMA TeamTypes == TypeOK /\ (DeleteMember \/ CreateMember \/ Crash) => TypeOK'
<1> SUFFICES ASSUME TypeOK, DeleteMember \/ CreateMember \/ Crash PROVE TypeOK'
  OBVIOUS
<1>1. UNCHANGED <<channels, rows, adrift>> /\ Ids' = Ids /\ waiting' \subseteq waiting
  BY DEF DeleteMember, CreateMember, Crash, tables, Ids
<1>2. team' \subseteq callers' /\ callers' \subseteq Names
  BY DEF DeleteMember, CreateMember, Crash, TypeOK
<1>3. edits' \in 0..MaxTeamEdits /\ faults' \in 0..MaxFaults
  BY BoundsAssumption DEF DeleteMember, CreateMember, Crash, TypeOK
<1> QED
  BY <1>1, <1>2, <1>3 DEF TypeOK

LEMMA TypesKept == TypeOK /\ [Next]_vars => TypeOK'
<1> SUFFICES ASSUME TypeOK, [Next]_vars PROVE TypeOK'
  OBVIOUS
<1>1. CASE UNCHANGED vars
  BY <1>1 DEF vars, tables, TypeOK, Ids
<1> QED
  BY <1>1, CreateTypes, RenameTypes, ArchiveTypes, BeginAddTypes, AddTypes, RemoveTypes,
     TeamTypes DEF Next

LEMMA InitTypes == Init => TypeOK
<1> SUFFICES ASSUME Init PROVE TypeOK
  OBVIOUS
<1>1. channels \in Seq(Channel) /\ rows \in Seq(Memberships) /\ Len(channels) = 0 /\ Len(rows) = 0
  BY EmptySeq DEF Init
<1>2. team \subseteq Names
  BY NamesAssumption DEF Init
<1> QED
  BY <1>1, <1>2, BoundsAssumption DEF Init, TypeOK, Ids

\* The tables, the team and the waiting requests keep their types.
THEOREM ChannelsTypeCorrect == Spec => []TypeOK
  BY InitTypes, TypesKept, PTL DEF Spec
-----------------------------------------------------------------------------
(* One active channel to a slug.  Whatever the lookup shows a handler, the    *)
(* index speaks for all rows; nothing makes an archived channel active.       *)

LEMMA CreateOne == TypeOK /\ OneActivePerSlug /\ Create => OneActivePerSlug'
<1> SUFFICES ASSUME TypeOK, OneActivePerSlug, Create PROVE OneActivePerSlug'
  OBVIOUS
<1>1. PICK s \in Slugs, f \in Memberships, k \in Nat :
        /\ IndexAllows(s) /\ k = Len(channels) + 1
        /\ channels' = Append(channels, [slug |-> s, archived |-> FALSE])
        /\ [slug |-> s, archived |-> FALSE] \in Channel
        /\ rows' = Append(rows, f)
  BY Created
<1> DEFINE c == [slug |-> s, archived |-> FALSE]
<1>2. /\ Ids' = Ids \cup {k} /\ channels'[k] = c
      /\ \A i \in Ids : channels'[i] = channels[i]
  <2> HIDE DEF c
  <2> QED
    BY <1>1, AppendRow DEF c
<1>3. \A i \in Ids : channels[i].slug = s => channels[i].archived
  BY <1>1 DEF IndexAllows, Active
<1> SUFFICES ASSUME NEW i \in Ids', NEW j \in Ids',
                    ~channels'[i].archived, ~channels'[j].archived,
                    channels'[i].slug = channels'[j].slug
             PROVE  i = j
  BY DEF OneActivePerSlug, Active
<1> QED
  BY <1>2, <1>3 DEF OneActivePerSlug, Active

LEMMA RenameOne == TypeOK /\ OneActivePerSlug /\ Rename => OneActivePerSlug'
<1> SUFFICES ASSUME TypeOK, OneActivePerSlug, Rename PROVE OneActivePerSlug'
  OBVIOUS
<1>1. PICK s \in Slugs, t \in Slugs : \E i \in Resolve(s) :
        IndexAllows(t) /\ channels' = [channels EXCEPT ![i].slug = t]
  BY DEF Rename
<1>2. PICK i \in Ids : channels' = [channels EXCEPT ![i].slug = t]
  BY <1>1, Resolved
<1>3. Ids' = Ids
  BY <1>2 DEF Ids
<1>4. channels[i] \in Channel
  BY RowTypes
<1>5. /\ channels'[i].slug = t /\ channels'[i].archived = channels[i].archived
      /\ \A j \in Ids : j # i => channels'[j] = channels[j]
  BY <1>2, <1>4 DEF Channel, Ids
<1>6. \A j \in Ids : channels[j].slug = t => channels[j].archived
  BY <1>1 DEF IndexAllows, Active
<1> QED
  BY <1>3, <1>5, <1>6 DEF OneActivePerSlug, Active

LEMMA ArchiveOne == TypeOK /\ OneActivePerSlug /\ Archive => OneActivePerSlug'
<1> SUFFICES ASSUME TypeOK, OneActivePerSlug, Archive PROVE OneActivePerSlug'
  OBVIOUS
<1>1. PICK s \in Slugs : \E i \in Resolve(s) :
        channels' = [channels EXCEPT ![i].archived = TRUE]
  BY DEF Archive
<1>2. PICK i \in Ids : channels' = [channels EXCEPT ![i].archived = TRUE]
  BY <1>1, Resolved
<1>3. channels[i] \in Channel
  BY RowTypes
<1>4. /\ channels'[i].archived /\ Ids' = Ids
      /\ \A j \in Ids : j # i => channels'[j] = channels[j]
  BY <1>2, <1>3 DEF Channel, Ids
<1> QED
  BY <1>4 DEF OneActivePerSlug, Active

LEMMA OthersOne ==
  OneActivePerSlug /\ (BeginAdd \/ Add \/ Remove \/ DeleteMember \/ CreateMember \/ Crash)
    => OneActivePerSlug'
<1> SUFFICES ASSUME OneActivePerSlug,
                    BeginAdd \/ Add \/ Remove \/ DeleteMember \/ CreateMember \/ Crash
             PROVE  OneActivePerSlug'
  OBVIOUS
<1>1. channels' = channels
  BY DEF BeginAdd, Add, Remove, DeleteMember, CreateMember, Crash, tables
<1> QED
  BY <1>1 DEF OneActivePerSlug, Active, Ids

\* No two active channels ever bear the same slug, for any number of channels.
THEOREM SlugsAreUnique == Spec => []OneActivePerSlug
<1>1. Init => OneActivePerSlug
  BY DEF Init, OneActivePerSlug, Ids
<1>2. TypeOK /\ OneActivePerSlug /\ [Next]_vars => OneActivePerSlug'
  <2>1. CASE UNCHANGED vars
    BY <2>1 DEF vars, tables, OneActivePerSlug, Active, Ids
  <2> QED
    BY <2>1, CreateOne, RenameOne, ArchiveOne, OthersOne DEF Next
<1> QED
  BY <1>1, <1>2, ChannelsTypeCorrect, PTL DEF Spec

-----------------------------------------------------------------------------
(* An admin in each channel that is not adrift. *)

LEMMA CreateAdmin == TypeOK /\ AnAdminInEach /\ Create => AnAdminInEach'
<1> SUFFICES ASSUME TypeOK, AnAdminInEach, Create PROVE AnAdminInEach'
  OBVIOUS
<1>1. PICK n \in Names, s \in Slugs, f \in Memberships, k \in Nat :
        /\ k = Len(channels) + 1
        /\ channels' = Append(channels, [slug |-> s, archived |-> FALSE])
        /\ [slug |-> s, archived |-> FALSE] \in Channel
        /\ rows' = Append(rows, f)
        /\ \/ n \in DOMAIN f /\ f[n] = "admin" /\ UNCHANGED adrift
           \/ adrift' = adrift \cup {k}
  BY Created
<1>2. Ids' = Ids \cup {k} /\ rows'[k] = f /\ \A i \in Ids : rows'[i] = rows[i]
  BY <1>1, AppendRow
<1>3. ASSUME NEW i \in Ids, i \notin adrift' PROVE \E m \in Names : IsAdmin(m, i)'
  BY <1>1, <1>2, <1>3 DEF AnAdminInEach, IsAdmin
<1>4. k \notin adrift' => IsAdmin(n, k)'
  BY <1>1, <1>2 DEF IsAdmin
<1> QED
  BY <1>2, <1>3, <1>4 DEF AnAdminInEach

LEMMA AddAdmin == TypeOK /\ AnAdminInEach /\ Add => AnAdminInEach'
<1> SUFFICES ASSUME TypeOK, AnAdminInEach, Add PROVE AnAdminInEach'
  OBVIOUS
<1>1. PICK i \in Ids, n \in Names, role \in Roles :
        /\ rows' = rows \/ rows' = [rows EXCEPT ![i] = With(rows[i], n, role)]
        /\ n \in DOMAIN rows[i] => rows' = rows
  BY Joined
<1>2. UNCHANGED <<channels, adrift>> /\ Ids' = Ids
  BY DEF Add, Ids
<1>3. ASSUME NEW j \in Ids, NEW m \in Names, IsAdmin(m, j) PROVE IsAdmin(m, j)'
  <2>1. DOMAIN rows = Ids
    BY RowTypes
  <2>2. CASE rows' = rows
    BY <1>3, <2>2 DEF IsAdmin
  <2>3. CASE rows' # rows
    BY <1>1, <1>3, <2>1, <2>3 DEF IsAdmin, With
  <2> QED
    BY <2>2, <2>3
<1> QED
  BY <1>2, <1>3 DEF AnAdminInEach

LEMMA RemoveAdmin == TypeOK /\ AnAdminInEach /\ Remove => AnAdminInEach'
<1> SUFFICES ASSUME TypeOK, AnAdminInEach, Remove PROVE AnAdminInEach'
  OBVIOUS
<1>1. PICK i \in Ids, n \in Names :
        /\ MayLeave(n, i) /\ n \in DOMAIN rows[i]
        /\ rows' = [rows EXCEPT ![i] = Restrict(rows[i], DOMAIN rows[i] \ {n})]
        /\ adrift' = IF DOMAIN rows[i] = {n} THEN adrift \cup {i} ELSE adrift
  BY Parted
<1>2. UNCHANGED channels /\ Ids' = Ids /\ DOMAIN rows = Ids
  BY RowTypes DEF Remove, Ids
<1>3. /\ \A j \in Ids : j # i => rows'[j] = rows[j]
      /\ rows'[i] = [m \in DOMAIN rows[i] \ {n} |-> rows[i][m]]
  BY <1>1, <1>2 DEF Restrict
<1>4. \A m \in Names : m # n /\ IsAdmin(m, i) => IsAdmin(m, i)'
  BY <1>3 DEF IsAdmin
<1>5. \A j \in Ids, m \in Names : j # i /\ IsAdmin(m, j) => IsAdmin(m, j)'
  BY <1>3 DEF IsAdmin
<1>6. i \notin adrift' => \E m \in Names : IsAdmin(m, i)'
  <2> SUFFICES ASSUME i \notin adrift' PROVE \E m \in Names : IsAdmin(m, i)'
    OBVIOUS
  <2>1. i \notin adrift /\ DOMAIN rows[i] # {n}
    BY <1>1
  <2>2. PICK m \in Names : IsAdmin(m, i)
    BY <2>1 DEF AnAdminInEach
  <2>3. \E k \in Names \ {n} : IsAdmin(k, i)
    BY <1>1, <2>1, <2>2 DEF MayLeave
  <2> QED
    BY <1>4, <2>3
<1> QED
  BY <1>1, <1>2, <1>5, <1>6 DEF AnAdminInEach

LEMMA OthersAdmin ==
  AnAdminInEach
    /\ (Rename \/ Archive \/ BeginAdd \/ DeleteMember \/ CreateMember \/ Crash)
    => AnAdminInEach'
<1> SUFFICES ASSUME AnAdminInEach,
                    Rename \/ Archive \/ BeginAdd \/ DeleteMember \/ CreateMember \/ Crash
             PROVE  AnAdminInEach'
  OBVIOUS
<1>1. UNCHANGED <<rows, adrift>>
  BY DEF Rename, Archive, BeginAdd, DeleteMember, CreateMember, Crash, tables
<1>2. Ids' = Ids
  BY DEF Rename, Archive, BeginAdd, DeleteMember, CreateMember, Crash, tables, Ids
<1> QED
  BY <1>1, <1>2 DEF AnAdminInEach, IsAdmin

\* Every channel whose first admin was inserted, and that never stood empty, has an
\* admin among its rows, whoever joins, leaves or is removed.
THEOREM ChannelsKeepAnAdmin == Spec => []AnAdminInEach
<1>1. Init => AnAdminInEach
  BY DEF Init, AnAdminInEach, Ids
<1>2. TypeOK /\ AnAdminInEach /\ [Next]_vars => AnAdminInEach'
  <2>1. CASE UNCHANGED vars
    BY <2>1 DEF vars, tables, AnAdminInEach, IsAdmin, Ids
  <2> QED
    BY <2>1, CreateAdmin, AddAdmin, RemoveAdmin, OthersAdmin DEF Next
<1> QED
  BY <1>1, <1>2, ChannelsTypeCorrect, PTL DEF Spec

-----------------------------------------------------------------------------
(* Archived channels. *)

\* What a step may do to a channel that is archived.
LeftAlone(i) == channels'[i] = channels[i] /\ DOMAIN rows'[i] \subseteq DOMAIN rows[i]

LEMMA ArchivedStays ==
  ASSUME TypeOK, Next, NEW i \in Ids, channels[i].archived
  PROVE  LeftAlone(i)
<1> USE DEF LeftAlone
<1>1. channels[i] \in Channel /\ DOMAIN rows = Ids
  BY RowTypes
<1>2. CASE Create
  <2>1. PICK s \in Slugs, f \in Memberships :
          /\ channels' = Append(channels, [slug |-> s, archived |-> FALSE])
          /\ [slug |-> s, archived |-> FALSE] \in Channel
          /\ rows' = Append(rows, f)
    BY <1>2, Created
  <2> QED
    BY <2>1, AppendRow
<1>3. CASE Rename
  <2>1. PICK s \in Slugs, t \in Slugs : \E j \in Resolve(s) :
          Active(j) /\ channels' = [channels EXCEPT ![j].slug = t]
    BY <1>3 DEF Rename
  <2>2. PICK j \in Ids : Active(j) /\ channels' = [channels EXCEPT ![j].slug = t]
    BY <2>1, Resolved
  <2>3. rows' = rows /\ i # j
    BY <1>3, <2>2 DEF Rename, Active
  <2> QED
    BY <2>2, <2>3 DEF Ids
<1>4. CASE Archive
  <2>1. PICK s \in Slugs : \E j \in Resolve(s) :
          Active(j) /\ channels' = [channels EXCEPT ![j].archived = TRUE]
    BY <1>4 DEF Archive
  <2>2. PICK j \in Ids : Active(j) /\ channels' = [channels EXCEPT ![j].archived = TRUE]
    BY <2>1, Resolved
  <2>3. rows' = rows /\ i # j
    BY <1>4, <2>2 DEF Archive, Active
  <2> QED
    BY <2>2, <2>3 DEF Ids
<1>5. CASE Add
  <2>1. PICK j \in Ids, n \in Names, role \in Roles :
          Active(j) /\ (rows' = rows \/ rows' = [rows EXCEPT ![j] = With(rows[j], n, role)])
    BY <1>5, Joined
  <2>2. channels' = channels /\ i # j
    BY <1>5, <2>1 DEF Add, Active
  <2> QED
    BY <1>1, <2>1, <2>2
<1>6. CASE Remove
  <2>1. PICK j \in Ids, n \in Names :
          rows' = [rows EXCEPT ![j] = Restrict(rows[j], DOMAIN rows[j] \ {n})]
    BY <1>6, Parted
  <2>2. channels' = channels
    BY <1>6 DEF Remove
  <2> QED
    BY <1>1, <2>1, <2>2 DEF Restrict
<1>7. CASE BeginAdd \/ DeleteMember \/ CreateMember \/ Crash
  BY <1>7 DEF BeginAdd, DeleteMember, CreateMember, Crash, tables
<1> QED
  BY <1>2, <1>3, <1>4, <1>5, <1>6, <1>7 DEF Next

\* An archived channel is never renamed, opened again or joined, also by a request
\* that looked it up while it was active.
THEOREM ArchivedIsFinal == Spec => ReadOnlyOnceArchived
<1>1. TypeOK /\ [Next]_vars
        => [\A i \in Ids : channels[i].archived =>
              channels'[i] = channels[i] /\ DOMAIN rows'[i] \subseteq DOMAIN rows[i]]_vars
  BY ArchivedStays DEF LeftAlone
<1> QED
  BY <1>1, ChannelsTypeCorrect, PTL DEF Spec, ReadOnlyOnceArchived

-----------------------------------------------------------------------------
(* Ranks.  Under a strict total order R of a finite set, the number of        *)
(* elements before one tells which one it is, and every number is taken.      *)

Before(R, X, x) == {y \in X : <<y, x>> \in R}

StrictOrder(R, X) ==
  /\ \A x \in X : <<x, x>> \notin R
  /\ \A x, y, z \in X : <<x, y>> \in R /\ <<y, z>> \in R => <<x, z>> \in R
  /\ \A x, y \in X : x = y \/ <<x, y>> \in R \/ <<y, x>> \in R

\* An element has more before it than the elements before it have.
LEMMA RankGrows ==
  ASSUME NEW X, IsFiniteSet(X), NEW R, StrictOrder(R, X), NEW x \in X, NEW y \in X, <<x, y>> \in R
  PROVE  Cardinality(Before(R, X, x)) < Cardinality(Before(R, X, y))
<1>1. PICK A, B : A = Before(R, X, x) /\ B = Before(R, X, y)
  OBVIOUS
<1>2. B \in SUBSET X /\ A \in SUBSET B /\ x \in B /\ x \notin A
  BY <1>1 DEF Before, StrictOrder
<1>3. IsFiniteSet(B)
  BY <1>2, FS_Subset
<1>4. IsFiniteSet(A) /\ Cardinality(A) <= Cardinality(B) /\ Cardinality(A) # Cardinality(B)
  BY <1>2, <1>3, FS_Subset
<1>5. Cardinality(A) \in Nat /\ Cardinality(B) \in Nat
  BY <1>3, <1>4, FS_CardinalityType
<1> QED
  BY <1>1, <1>4, <1>5

\* Each rank is that of exactly one element.
LEMMA RankHits ==
  ASSUME NEW X, IsFiniteSet(X), NEW R, StrictOrder(R, X), NEW r \in 0..Cardinality(X) - 1
  PROVE  \E x \in X : Cardinality(Before(R, X, x)) = r
<1>1. PICK n \in Nat : n = Cardinality(X)
  BY FS_CardinalityType
<1>2. PICK T : T = 0..n - 1
  OBVIOUS
<1>3. IsFiniteSet(T) /\ Cardinality(T) = n
  <2>1. 0 \in Int /\ n - 1 \in Int
    BY <1>1
  <2>2. IsFiniteSet(T) /\ Cardinality(T) = IF 0 > n - 1 THEN 0 ELSE (n - 1) - 0 + 1
    BY <1>2, <2>1, FS_Interval
  <2> QED
    BY <1>1, <2>2
<1>4. PICK f : f = [x \in X |-> Cardinality(Before(R, X, x))]
  OBVIOUS
<1>5. ASSUME NEW x \in X PROVE f[x] \in T
  <2>1. PICK A : A = Before(R, X, x)
    OBVIOUS
  <2>2. A \in SUBSET X /\ x \notin A
    BY <2>1 DEF Before, StrictOrder
  <2>3. IsFiniteSet(A) /\ Cardinality(A) <= n /\ Cardinality(A) # n
    BY <1>1, <2>2, FS_Subset
  <2>4. Cardinality(A) \in Nat
    BY <2>3, FS_CardinalityType
  <2>5. f[x] = Cardinality(A)
    BY <1>4, <2>1
  <2> QED
    BY <1>1, <1>2, <2>3, <2>4, <2>5
<1>6. f \in [X -> T]
  BY <1>4, <1>5
<1>7. ASSUME NEW x \in X, NEW y \in X, f[x] = f[y] PROVE x = y
  <2>1. f[x] \in T /\ f[y] \in T
    BY <1>5
  <2>2. f[x] \in Int /\ f[y] \in Int
    BY <1>2, <2>1
  <2>3. f[x] = Cardinality(Before(R, X, x)) /\ f[y] = Cardinality(Before(R, X, y))
    BY <1>4
  <2>4. <<x, y>> \notin R /\ <<y, x>> \notin R
    <3>1. PICK a, b : a = Cardinality(Before(R, X, x)) /\ b = Cardinality(Before(R, X, y))
      OBVIOUS
    <3>2. <<x, y>> \in R => a < b
      BY <3>1, RankGrows
    <3>3. <<y, x>> \in R => b < a
      BY <3>1, RankGrows
    <3>4. a = b /\ a \in Int
      BY <1>7, <2>2, <2>3, <3>1
    <3>5. ~(a < b) /\ ~(b < a)
      BY <3>4
    <3> QED
      BY <3>2, <3>3, <3>5
  <2> QED
    BY <2>4 DEF StrictOrder
<1>8. f \in Injection(X, T)
  BY <1>6, <1>7 DEF Injection, IsInjective
<1>9. f \in Surjection(X, T)
  BY <1>1, <1>3, <1>8, FS_Injection
<1>10. r \in T
  BY <1>1, <1>2
<1>11. PICK x \in X : f[x] = r
  BY <1>9, <1>10 DEF Surjection
<1> QED
  BY <1>4, <1>11

-----------------------------------------------------------------------------
(* Sorting. *)

Members(q) == {q[i] : i \in 1..Len(q)}
Apart(q) == \A i, j \in 1..Len(q) : i < j => q[i] # q[j]
Chronological(q) == \A i, j \in 1..Len(q) : i < j => Ts(q[i]) <= Ts(q[j]) /\ q[i] # q[j]
Dated(S) == \A m \in S : Ts(m) \in Int

\* r has the elements of q in the order of time.
Sorting(r, q, S) == r \in Seq(S) /\ Members(r) = Members(q) /\ Chronological(r)

\* Pairs of positions ordered by v, those of one value by the position.
ByValue(n, v) ==
  {p \in (1..n) \X (1..n) : v[p[1]] < v[p[2]] \/ (v[p[1]] = v[p[2]] /\ p[1] < p[2])}

LEMMA ByValueIsOrder ==
  ASSUME NEW n \in Nat, NEW v \in [1..n -> Int]
  PROVE  /\ StrictOrder(ByValue(n, v), 1..n)
         /\ \A i \in 1..n : Before(ByValue(n, v), 1..n, i)
                              = {j \in 1..n : v[j] < v[i] \/ (v[j] = v[i] /\ j < i)}
<1>1. \A i, j \in 1..n :
        <<i, j>> \in ByValue(n, v) <=> v[i] < v[j] \/ (v[i] = v[j] /\ i < j)
  BY DEF ByValue
<1>2. \A i \in 1..n : v[i] \in Int /\ i \in Int
  OBVIOUS
<1>3. \A i \in 1..n : <<i, i>> \notin ByValue(n, v)
  BY <1>1, <1>2
<1>4. ASSUME NEW i \in 1..n, NEW j \in 1..n, NEW k \in 1..n,
             <<i, j>> \in ByValue(n, v), <<j, k>> \in ByValue(n, v)
      PROVE  <<i, k>> \in ByValue(n, v)
  <2>1. PICK a, b, c : a = v[i] /\ b = v[j] /\ c = v[k]
    OBVIOUS
  <2>2. {a, b, c, i, j, k} \subseteq Int
    BY <1>2, <2>1
  <2>3. (a < b \/ (a = b /\ i < j)) /\ (b < c \/ (b = c /\ j < k))
    BY <1>1, <1>4, <2>1
  <2>4. a < c \/ (a = c /\ i < k)
    BY ONLY <2>2, <2>3
  <2> QED
    BY <1>1, <2>1, <2>4
<1>5. ASSUME NEW i \in 1..n, NEW j \in 1..n
      PROVE  i = j \/ <<i, j>> \in ByValue(n, v) \/ <<j, i>> \in ByValue(n, v)
  <2>1. PICK a, b : a = v[i] /\ b = v[j]
    OBVIOUS
  <2>2. {a, b, i, j} \subseteq Int
    BY <1>2, <2>1
  <2>3. i = j \/ a < b \/ (a = b /\ i < j) \/ b < a \/ (b = a /\ j < i)
    BY ONLY <2>2
  <2> QED
    BY <1>1, <2>1, <2>3
<1>6. StrictOrder(ByValue(n, v), 1..n)
  BY <1>3, <1>4, <1>5 DEF StrictOrder
<1>7. ASSUME NEW i \in 1..n
      PROVE  Before(ByValue(n, v), 1..n, i) = {j \in 1..n : v[j] < v[i] \/ (v[j] = v[i] /\ j < i)}
  BY <1>1 DEF Before
<1> QED
  BY <1>6, <1>7

\* Array.prototype.sort keeps the elements and puts them in the order of time.
LEMMA SortedSorts ==
  ASSUME NEW S, Dated(S), NEW q \in Seq(S), Apart(q)
  PROVE  Sorting(Sorted(q), q, S)
<1>1. PICK n \in Nat : n = Len(q)
  BY LenProperties
<1>2. \A i \in 1..n : q[i] \in S
  BY <1>1, ElementOfSeq
<1>3. PICK v : v = [i \in 1..n |-> Ts(q[i])]
  OBVIOUS
<1>4. v \in [1..n -> Int]
  BY <1>2, <1>3 DEF Dated
<1>5. PICK R, X : R = ByValue(n, v) /\ X = 1..n
  OBVIOUS
<1>6. /\ StrictOrder(R, X)
      /\ \A i \in X : Before(R, X, i) = {j \in 1..n : v[j] < v[i] \/ (v[j] = v[i] /\ j < i)}
  BY <1>4, <1>5, ByValueIsOrder
<1>7. IsFiniteSet(X) /\ Cardinality(X) = n
  <2>1. 1 \in Int /\ n \in Int
    BY <1>1
  <2>2. IsFiniteSet(X) /\ Cardinality(X) = IF 1 > n THEN 0 ELSE n - 1 + 1
    BY <1>5, <2>1, FS_Interval
  <2> QED
    BY <1>1, <2>2
<1>8. PICK rank : rank = [i \in X |-> Cardinality(Before(R, X, i))]
  OBVIOUS
<1>9. ASSUME NEW i \in X
      PROVE  Cardinality({j \in 1..Len(q) : Ts(q[j]) < Ts(q[i]) \/ (Ts(q[j]) = Ts(q[i]) /\ j < i)})
               = rank[i]
  <2>1. {j \in 1..Len(q) : Ts(q[j]) < Ts(q[i]) \/ (Ts(q[j]) = Ts(q[i]) /\ j < i)}
          = {j \in 1..n : v[j] < v[i] \/ (v[j] = v[i] /\ j < i)}
    BY <1>1, <1>3, <1>5
  <2> QED
    BY <1>6, <1>8, <2>1
<1>10. PICK at : at = [r \in 1..Len(q) |-> CHOOSE i \in 1..Len(q) :
          Cardinality({j \in 1..Len(q) :
            Ts(q[j]) < Ts(q[i]) \/ (Ts(q[j]) = Ts(q[i]) /\ j < i)}) + 1 = r]
  OBVIOUS
<1>11. ASSUME NEW i \in X PROVE rank[i] \in 0..n - 1
  <2>1. PICK A : A = Before(R, X, i)
    OBVIOUS
  <2>2. A \in SUBSET X /\ i \notin A
    BY <1>6, <2>1 DEF Before, StrictOrder
  <2>3. IsFiniteSet(A) /\ Cardinality(A) <= n /\ Cardinality(A) # n
    BY <1>7, <2>2, FS_Subset
  <2>4. Cardinality(A) \in Nat
    BY <2>3, FS_CardinalityType
  <2>5. rank[i] = Cardinality(A)
    BY <1>8, <2>1
  <2> QED
    BY <1>1, <2>3, <2>4, <2>5
<1>12. ASSUME NEW i \in X, NEW j \in X, <<i, j>> \in R PROVE rank[i] < rank[j]
  BY <1>6, <1>7, <1>8, <1>12, RankGrows
<1>13. ASSUME NEW r \in X PROVE at[r] \in X /\ rank[at[r]] = r - 1
  <2>1. r - 1 \in 0..n - 1 /\ r \in Nat
    BY <1>1, <1>5
  <2>2. \E i \in X : Cardinality(Before(R, X, i)) = r - 1
    <3>1. PICK k : k = r - 1
      OBVIOUS
    <3>2. k \in 0..Cardinality(X) - 1
      BY <1>7, <2>1, <3>1
    <3>3. \E i \in X : Cardinality(Before(R, X, i)) = k
      BY ONLY <1>6, <1>7, <3>2, RankHits
    <3> QED
      BY <3>1, <3>3
  <2>3. \E i \in X : rank[i] + 1 = r
    BY <1>8, <2>1, <2>2
  <2>4. at[r] \in X /\ rank[at[r]] + 1 = r
    <3>1. 1..Len(q) = X
      BY <1>1, <1>5
    <3>2. \E i \in 1..Len(q) :
            Cardinality({j \in 1..Len(q) :
              Ts(q[j]) < Ts(q[i]) \/ (Ts(q[j]) = Ts(q[i]) /\ j < i)}) + 1 = r
      BY <1>9, <2>3, <3>1
    <3>3. /\ at[r] \in 1..Len(q)
          /\ Cardinality({j \in 1..Len(q) :
               Ts(q[j]) < Ts(q[at[r]]) \/ (Ts(q[j]) = Ts(q[at[r]]) /\ j < at[r])}) + 1 = r
      BY <1>10, <3>1, <3>2
    <3> QED
      BY <1>9, <3>1, <3>3
  <2>5. rank[at[r]] \in Int
    BY <1>11, <2>4
  <2> QED
    BY <2>1, <2>4, <2>5
<1>14. PICK s : s = Sorted(q)
  OBVIOUS
<1>15. s = [r \in X |-> q[at[r]]]
  <2>1. s = [r \in 1..Len(q) |-> q[at[r]]]
    BY <1>10, <1>14 DEF Sorted
  <2> QED
    BY <1>1, <1>5, <2>1
<1>16. s \in Seq(S) /\ Len(s) = n
  <2>1. s \in [1..n -> S]
    BY <1>2, <1>5, <1>13, <1>15
  <2> QED
    BY <1>1, <2>1, SeqDef, LenProperties
<1>17. ASSUME NEW i \in X PROVE \E r \in X : s[r] = q[i]
  <2>1. PICK r : r = rank[i] + 1
    OBVIOUS
  <2>2. r \in X /\ r - 1 = rank[i]
    BY <1>1, <1>5, <1>11, <2>1
  <2>3. at[r] \in X /\ rank[at[r]] = rank[i]
    BY <1>13, <2>2
  <2>4. rank[i] \in Int
    BY <1>11
  <2>5. <<at[r], i>> \notin R /\ <<i, at[r]>> \notin R
    BY <1>12, <2>3, <2>4
  <2>6. at[r] = i
    BY <1>6, <2>3, <2>5 DEF StrictOrder
  <2> QED
    BY <1>15, <2>2, <2>6
<1>18. Members(s) = Members(q)
  <2>1. Members(q) = {q[i] : i \in X} /\ Members(s) = {s[i] : i \in X}
    BY <1>1, <1>5, <1>16 DEF Members
  <2>2. \A r \in X : s[r] \in {q[i] : i \in X}
    BY <1>13, <1>15
  <2> QED
    BY <1>17, <2>1, <2>2
<1>19. ASSUME NEW a \in X, NEW b \in X, a < b
       PROVE  Ts(s[a]) <= Ts(s[b]) /\ s[a] # s[b]
  <2>1. PICK i, j : i = at[a] /\ j = at[b]
    OBVIOUS
  <2>2. i \in X /\ j \in X /\ rank[i] = a - 1 /\ rank[j] = b - 1
    BY <1>13, <2>1
  <2>3. rank[i] < rank[j] /\ rank[i] \in Int /\ rank[j] \in Int
    BY <1>1, <1>5, <1>19, <2>2
  <2>4. i # j /\ <<j, i>> \notin R
    BY <1>12, <2>2, <2>3
  <2>5. <<i, j>> \in R
    BY <1>6, <2>2, <2>4 DEF StrictOrder
  <2>6. v[i] <= v[j]
    BY <1>4, <1>5, <2>2, <2>5 DEF ByValue
  <2>7. q[i] # q[j]
    <3>1. i < j \/ j < i
      BY <1>5, <2>2, <2>4
    <3> QED
      BY <1>1, <1>5, <2>2, <3>1 DEF Apart
  <2> QED
    BY <1>3, <1>5, <1>15, <2>1, <2>2, <2>6, <2>7
<1>20. Chronological(s)
  BY <1>5, <1>16, <1>19 DEF Chronological
<1> QED
  BY <1>14, <1>16, <1>18, <1>20 DEF Sorting

-----------------------------------------------------------------------------
(* Merging. *)

\* An answer lists each message once.
LEMMA NewestFirstLists ==
  ASSUME NEW S, IsFiniteSet(S), S \subseteq Int
  PROVE  NewestFirst(S) \in Seq(S) /\ Members(NewestFirst(S)) = S /\ Apart(NewestFirst(S))
<1>1. PICK n \in Nat : n = Cardinality(S)
  BY FS_CardinalityType
<1>2. PICK R : R = {p \in S \X S : p[1] > p[2]}
  OBVIOUS
<1>3. \A k, m \in S : <<k, m>> \in R <=> k > m
  BY <1>2
<1>4. StrictOrder(R, S)
  BY <1>3 DEF StrictOrder
<1>5. \A m \in S : Before(R, S, m) = {k \in S : k > m}
  BY <1>3 DEF Before
<1>6. PICK f : f = NewestFirst(S)
  OBVIOUS
<1>7. f = [i \in 1..n |-> CHOOSE m \in S : Cardinality({k \in S : k > m}) = i - 1]
  BY <1>1, <1>6 DEF NewestFirst
<1>8. ASSUME NEW i \in 1..n PROVE f[i] \in S /\ Cardinality(Before(R, S, f[i])) = i - 1
  <2>1. PICK r : r = i - 1
    OBVIOUS
  <2>2. r \in 0..Cardinality(S) - 1
    BY <1>1, <2>1
  <2>3. \E m \in S : Cardinality(Before(R, S, m)) = r
    BY ONLY IsFiniteSet(S), <1>4, <2>2, RankHits
  <2>4. \E m \in S : Cardinality({k \in S : k > m}) = i - 1
    BY <1>5, <2>1, <2>3
  <2>5. f[i] \in S /\ Cardinality({k \in S : k > f[i]}) = i - 1
    BY <1>7, <2>4
  <2> QED
    BY <1>5, <2>5
<1>9. f \in Seq(S) /\ Len(f) = n
  <2>1. f \in [1..n -> S]
    BY <1>7, <1>8
  <2> QED
    BY <1>1, <2>1, SeqDef, LenProperties
<1>10. Apart(f)
  <2> SUFFICES ASSUME NEW i \in 1..n, NEW j \in 1..n, i < j PROVE f[i] # f[j]
    BY <1>9 DEF Apart
  <2>1. i - 1 # j - 1
    OBVIOUS
  <2> QED
    BY <1>8, <2>1
<1>11. ASSUME NEW m \in S PROVE \E i \in 1..n : f[i] = m
  <2>1. PICK A : A = Before(R, S, m)
    OBVIOUS
  <2>2. A \in SUBSET S /\ m \notin A
    BY <1>4, <2>1 DEF Before, StrictOrder
  <2>3. IsFiniteSet(A) /\ Cardinality(A) <= n /\ Cardinality(A) # n
    BY <1>1, <2>2, FS_Subset
  <2>4. Cardinality(A) \in Nat
    BY <2>3, FS_CardinalityType
  <2>5. PICK i : i = Cardinality(A) + 1
    OBVIOUS
  <2>6. i \in 1..n /\ i - 1 = Cardinality(A)
    BY <1>1, <2>3, <2>4, <2>5
  <2>7. PICK x : x = f[i]
    OBVIOUS
  <2>8. x \in S /\ Cardinality(Before(R, S, x)) = Cardinality(A)
    BY <1>8, <2>6, <2>7
  <2>9. PICK a, b : a = Cardinality(Before(R, S, x)) /\ b = Cardinality(Before(R, S, m))
    OBVIOUS
  <2>10. a = b /\ a \in Int
    BY <2>1, <2>4, <2>8, <2>9
  <2>11. (<<x, m>> \in R => a < b) /\ (<<m, x>> \in R => b < a)
    BY <1>4, <2>8, <2>9, RankGrows
  <2>12. <<x, m>> \notin R /\ <<m, x>> \notin R
    BY <2>10, <2>11
  <2>13. x = m
    BY <1>4, <2>8, <2>12 DEF StrictOrder
  <2> QED
    BY <2>6, <2>7, <2>13
<1>12. Members(f) = S
  BY <1>8, <1>9, <1>11 DEF Members
<1> QED
  BY <1>6, <1>9, <1>10, <1>12

\* How a \o b, of m and n elements, reads.
Concatenated(all, a, m, b, n, S) ==
  /\ all \in Seq(S) /\ Len(all) = m + n /\ m \in Nat /\ n \in Nat
  /\ \A i \in 1..m : i \in 1..m + n /\ all[i] = a[i]
  /\ \A i \in 1..n : m + i \in 1..m + n /\ all[m + i] = b[i]
  /\ \A i \in 1..m + n : i \in 1..m \/ \E j \in 1..n : i = m + j

LEMMA JoinReads ==
  ASSUME NEW S, NEW a \in Seq(S), NEW b \in Seq(S), NEW all, all = a \o b,
         NEW m, m = Len(a), NEW n, n = Len(b)
  PROVE  Concatenated(all, a, m, b, n, S)
<1>1. m \in Nat /\ n \in Nat
  BY LenProperties
<1>2. /\ all \in Seq(S) /\ Len(all) = m + n
      /\ \A i \in 1..m + n : all[i] = IF i <= m THEN a[i] ELSE b[i - m]
  BY ConcatProperties
<1>3. \A i \in 1..n : m + i \in 1..m + n /\ ~(m + i <= m) /\ (m + i) - m = i
  BY <1>1
<1>4. \A i \in 1..n : all[m + i] = b[i]
  BY <1>2, <1>3
<1>5. \A i \in 1..m + n : ~(i \in 1..m) => i - m \in 1..n /\ i = m + (i - m)
  BY <1>1
<1>6. \A i \in 1..m : i \in 1..m + n /\ i <= m
  BY <1>1
<1>7. \A i \in 1..m + n : i \in 1..m \/ \E j \in 1..n : i = m + j
  BY ONLY <1>5
<1>8. \A i \in 1..m : all[i] = a[i]
  BY <1>2, <1>6
<1> QED
  BY <1>1, <1>2, <1>3, <1>4, <1>6, <1>7, <1>8 DEF Concatenated

\* The last of one line comes no later than the first of the other.
Follows(a, b) == a = <<>> \/ b = <<>> \/ Ts(a[Len(a)]) <= Ts(b[1])

\* One line behind another with other messages.
LEMMA Joining ==
  ASSUME NEW S, Dated(S), NEW a \in Seq(S), NEW b \in Seq(S), Chronological(a), Chronological(b),
         Members(a) \cap Members(b) = {}
  PROVE  /\ a \o b \in Seq(S) /\ Apart(a \o b) /\ Members(a \o b) = Members(a) \cup Members(b)
         /\ Follows(a, b) => Chronological(a \o b)
<1>1. PICK all, m, n : all = a \o b /\ m = Len(a) /\ n = Len(b)
  OBVIOUS
<1>2. Concatenated(all, a, m, b, n, S)
  BY <1>1, JoinReads
<1>3. /\ all \in Seq(S) /\ Len(all) = m + n /\ m \in Nat /\ n \in Nat
      /\ \A i \in 1..m : i \in 1..m + n /\ all[i] = a[i]
      /\ \A i \in 1..n : m + i \in 1..m + n /\ all[m + i] = b[i]
      /\ \A i \in 1..m + n : i \in 1..m \/ \E j \in 1..n : i = m + j
  BY <1>2 DEF Concatenated
<1>4. (\A i \in 1..m : a[i] \in Members(a)) /\ (\A i \in 1..n : b[i] \in Members(b))
  BY <1>1 DEF Members
<1>5. Members(all) = Members(a) \cup Members(b)
  <2>1. ASSUME NEW i \in 1..m + n PROVE all[i] \in Members(a) \cup Members(b)
    <3>1. CASE i \in 1..m
      BY <1>3, <1>4, <3>1
    <3>2. ASSUME NEW j \in 1..n, i = m + j PROVE all[i] \in Members(b)
      BY <1>3, <1>4, <3>2
    <3> QED
      BY <1>3, <3>1, <3>2
  <2>2. ASSUME NEW i \in 1..m PROVE a[i] \in Members(all)
    BY <1>3, <2>2 DEF Members
  <2>3. ASSUME NEW i \in 1..n PROVE b[i] \in Members(all)
    <3>1. m + i \in 1..Len(all) /\ all[m + i] = b[i]
      BY <1>3
    <3> QED
      BY <3>1 DEF Members
  <2>4. Members(all) \subseteq Members(a) \cup Members(b)
    BY <1>3, <2>1 DEF Members
  <2>5. Members(a) \cup Members(b) \subseteq Members(all)
    BY <1>1, <2>2, <2>3 DEF Members
  <2> QED
    BY <2>4, <2>5
<1>6. ASSUME NEW i \in 1..m, NEW j \in 1..n PROVE a[i] # b[j]
  BY <1>4
<1>7. /\ \A i, j \in 1..m : i < j => Ts(a[i]) <= Ts(a[j]) /\ a[i] # a[j]
      /\ \A i, j \in 1..n : i < j => Ts(b[i]) <= Ts(b[j]) /\ b[i] # b[j]
  BY <1>1 DEF Chronological
<1>8. ASSUME NEW i \in 1..m + n, NEW j \in 1..m + n, i < j
      PROVE  \/ i \in 1..m /\ j \in 1..m
             \/ i \in 1..m /\ \E k \in 1..n : j = m + k
             \/ \E h, k \in 1..n : i = m + h /\ j = m + k /\ h < k
  <2>1. CASE i \in 1..m
    BY <1>3, <2>1
  <2>2. ASSUME NEW h \in 1..n, i = m + h
        PROVE  \E k \in 1..n : j = m + k /\ h < k
    <3>1. j \notin 1..m
      BY <1>3, <1>8, <2>2
    <3>2. PICK k \in 1..n : j = m + k
      BY <1>3, <3>1
    <3>3. h < k
      BY <1>3, <1>8, <2>2, <3>2
    <3> QED
      BY <3>2, <3>3
  <2> QED
    BY <1>3, <2>1, <2>2
<1>9. Apart(all)
  <2> SUFFICES ASSUME NEW i \in 1..m + n, NEW j \in 1..m + n, i < j PROVE all[i] # all[j]
    BY <1>3 DEF Apart
  <2>1. CASE i \in 1..m /\ j \in 1..m
    BY <1>3, <1>7, <2>1
  <2>2. ASSUME i \in 1..m, NEW k \in 1..n, j = m + k PROVE all[i] # all[j]
    BY <1>3, <1>6, <2>2
  <2>3. ASSUME NEW h \in 1..n, NEW k \in 1..n, i = m + h, j = m + k, h < k PROVE all[i] # all[j]
    <3>1. all[i] = b[h] /\ all[j] = b[k]
      BY <1>3, <2>3
    <3>2. b[h] # b[k]
      BY <1>7, <2>3
    <3> QED
      BY <3>1, <3>2
  <2> QED
    BY <1>8, <2>1, <2>2, <2>3
<1>10. ASSUME Follows(a, b) PROVE Chronological(all)
  <2>1. ASSUME NEW i \in 1..m, NEW k \in 1..n PROVE Ts(a[i]) <= Ts(b[k])
    <3>1. m \in 1..m /\ 1 \in 1..n /\ i <= m /\ 1 <= k
      BY <1>3
    <3>2. Ts(a[m]) <= Ts(b[1])
      <4>1. a # <<>> /\ b # <<>>
        BY <1>1, <3>1, EmptySeq
      <4> QED
        BY <1>1, <1>10, <4>1 DEF Follows
    <3>3. (\A x \in 1..m : a[x] \in S) /\ (\A x \in 1..n : b[x] \in S)
      BY <1>1, ElementOfSeq
    <3>4. PICK v, w, x, y : v = Ts(a[i]) /\ w = Ts(a[m]) /\ x = Ts(b[1]) /\ y = Ts(b[k])
      OBVIOUS
    <3>5. {v, w, x, y} \subseteq Int
      BY <3>1, <3>3, <3>4 DEF Dated
    <3>6. v <= w
      BY <1>7, <3>1, <3>4, <3>5
    <3>7. x <= y
      BY <1>7, <3>1, <3>4, <3>5
    <3> QED
      BY <3>2, <3>4, <3>5, <3>6, <3>7
  <2>5. ASSUME \A i, j \in 1..m + n : i < j => Ts(all[i]) <= Ts(all[j]) PROVE Chronological(all)
    <3>1. \A i, j \in 1..m + n : i < j => all[i] # all[j]
      BY <1>3, <1>9 DEF Apart
    <3>2. Len(all) = m + n
      BY <1>3
    <3> QED
      BY ONLY <2>5, <3>1, <3>2 DEF Chronological
  <2> SUFFICES ASSUME NEW i \in 1..m + n, NEW j \in 1..m + n, i < j PROVE Ts(all[i]) <= Ts(all[j])
    BY <2>5
  <2>2. CASE i \in 1..m /\ j \in 1..m
    BY <1>3, <1>7, <2>2
  <2>3. ASSUME i \in 1..m, NEW k \in 1..n, j = m + k PROVE Ts(all[i]) <= Ts(all[j])
    BY <1>3, <2>1, <2>3
  <2>4. ASSUME NEW h \in 1..n, NEW k \in 1..n, i = m + h, j = m + k, h < k
        PROVE  Ts(all[i]) <= Ts(all[j])
    <3>1. all[i] = b[h] /\ all[j] = b[k]
      BY <1>3, <2>4
    <3>2. Ts(b[h]) <= Ts(b[k])
      BY <1>7, <2>4
    <3> QED
      BY <3>1, <3>2
  <2> QED
    BY <1>8, <2>2, <2>3, <2>4
<1> QED
  BY <1>1, <1>3, <1>5, <1>9, <1>10

-----------------------------------------------------------------------------
(* The store. *)

Logged == log \in Seq([ts : 1..MaxTs, thread : Threads, mine : BOOLEAN])

\* A thread holds its own messages, in the order of time and each once.
Kept(q, t) == q \in Seq(Posted) /\ Chronological(q) /\ Members(q) \subseteq Of(t)

StoreInv ==
  /\ Logged
  /\ store \in [Threads -> Seq(Posted)]
  /\ \A t \in Threads : Kept(store[t], t)

LEMMA PostedDated ==
  ASSUME Logged
  PROVE  Dated(Posted) /\ IsFiniteSet(Posted) /\ Posted \subseteq Int
<1>1. PICK n \in Nat : n = Len(log)
  BY LenProperties DEF Logged
<1>2. \A m \in 1..n : log[m] \in [ts : 1..MaxTs, thread : Threads, mine : BOOLEAN]
  BY <1>1, ElementOfSeq DEF Logged
<1>3. \A m \in 1..n : log[m].ts \in Int
  BY <1>2
<1>4. IsFiniteSet(1..n)
  <2>1. 1 \in Int /\ n \in Int
    BY <1>1
  <2> QED
    BY <2>1, FS_Interval
<1> QED
  BY <1>1, <1>3, <1>4 DEF Dated, Ts, Posted

LEMMA ChronologicalApart ==
  ASSUME NEW q, Chronological(q)
  PROVE  Apart(q)
  BY DEF Chronological, Apart

LEMMA HeldAreMembers == \A t : Held(t) = Members(store[t])
  BY DEF Held, Members

\* What is new of an answer, in the order of time.
LEMMA FreshSorts ==
  ASSUME Logged, NEW t, NEW S
  PROVE  /\ Fresh(t, S) \in Seq(Posted) /\ Chronological(Fresh(t, S))
         /\ Members(Fresh(t, S)) = (S \cap Of(t)) \ Held(t)
<1>1. PICK D : D = (S \cap Of(t)) \ Held(t)
  OBVIOUS
<1>2. D \in SUBSET Posted
  BY <1>1 DEF Of
<1>3. IsFiniteSet(D) /\ D \subseteq Int
  BY <1>2, PostedDated, FS_Subset
<1>4. PICK q : q = NewestFirst(D)
  OBVIOUS
<1>5. q \in Seq(D) /\ Members(q) = D /\ Apart(q)
  BY <1>3, <1>4, NewestFirstLists
<1>6. PICK P : P = Posted
  OBVIOUS
<1>7. q \in Seq(P)
  <2>1. PICK n \in Nat : n = Len(q)
    BY <1>5, LenProperties
  <2>2. \A i \in 1..n : q[i] \in P
    BY <1>2, <1>5, <1>6, <2>1, ElementOfSeq
  <2>3. q \in [1..n -> P]
    BY <1>5, <2>1, <2>2, LenProperties
  <2> QED
    BY <2>3, SeqDef
<1>8. Dated(P)
  BY <1>6, PostedDated
<1>9. Sorting(Sorted(q), q, P)
  BY ONLY <1>5, <1>7, <1>8, SortedSorts
<1>10. Fresh(t, S) = Sorted(q)
  BY <1>1, <1>4 DEF Fresh
<1> QED
  BY <1>1, <1>5, <1>6, <1>9, <1>10 DEF Sorting

\* A merge keeps what is held and takes in what is the thread's, whether the new
\* messages go to the end, to the head, or have to be sorted in.
LEMMA Merges ==
  ASSUME StoreInv, NEW t \in Threads, NEW S
  PROVE  /\ Kept(Appended(t, S), t) /\ Members(Appended(t, S)) = Held(t) \cup (S \cap Of(t))
         /\ Kept(Prepended(t, S), t) /\ Members(Prepended(t, S)) = Held(t) \cup (S \cap Of(t))
<1>1. PICK q, f, P, H : q = store[t] /\ f = Fresh(t, S) /\ P = Posted /\ H = Held(t)
  OBVIOUS
<1>2. q \in Seq(P) /\ Chronological(q) /\ Members(q) = H /\ H \subseteq Of(t)
  BY <1>1, HeldAreMembers DEF StoreInv, Kept
<1>3. f \in Seq(P) /\ Chronological(f) /\ Members(f) = (S \cap Of(t)) \ H
  BY <1>1, FreshSorts DEF StoreInv
<1>4. Dated(P)
  BY <1>1, PostedDated DEF StoreInv
<1>5. Members(q) \cap Members(f) = {} /\ Members(f) \cap Members(q) = {}
  BY <1>2, <1>3
<1>6. /\ q \o f \in Seq(P) /\ Apart(q \o f) /\ Members(q \o f) = Members(q) \cup Members(f)
      /\ Follows(q, f) => Chronological(q \o f)
  BY ONLY <1>2, <1>3, <1>4, <1>5, Joining
<1>7. /\ f \o q \in Seq(P) /\ Apart(f \o q) /\ Members(f \o q) = Members(f) \cup Members(q)
      /\ Follows(f, q) => Chronological(f \o q)
  BY ONLY <1>2, <1>3, <1>4, <1>5, Joining
<1>8. Sorting(Sorted(q \o f), q \o f, P) /\ Sorting(Sorted(f \o q), f \o q, P)
  BY ONLY <1>4, <1>6, <1>7, SortedSorts
<1>9. Members(q) \cup Members(f) = H \cup (S \cap Of(t))
  BY <1>2, <1>3
<1>10. f = <<>> => Members(f) = {}
  <2>1. Len(<<>>) = 0
    BY EmptySeq
  <2> QED
    BY <2>1 DEF Members
<1>12. ASSUME NEW x, x = Appended(t, S) \/ x = Prepended(t, S)
       PROVE  x \in Seq(P) /\ Chronological(x) /\ Members(x) = Members(q) \cup Members(f)
  <2>1. CASE f = <<>>
    <3>1. x = q
      BY <1>1, <1>12, <2>1 DEF Appended, Prepended
    <3> QED
      BY <1>2, <1>10, <2>1, <3>1
  <2>2. CASE f # <<>> /\ x = Appended(t, S)
    <3>1. CASE AfterTheTail(q, f)
      <4>1. x = q \o f
        BY <1>1, <2>2, <3>1 DEF Appended
      <4>2. Follows(q, f)
        <5>1. ASSUME q # <<>> PROVE Ts(q[Len(q)]) <= Ts(f[1])
          <6>1. Len(q) \in 1..Len(q) /\ 1 \in 1..Len(f)
            BY <1>2, <1>3, <2>2, <5>1, LenProperties, EmptySeq
          <6>2. q[Len(q)] \in P /\ f[1] \in P
            BY <1>2, <1>3, <6>1, ElementOfSeq
          <6>3. PICK v, w : v = Ts(q[Len(q)]) /\ w = Ts(f[1])
            OBVIOUS
          <6>4. v \in Int /\ w \in Int
            BY <1>4, <6>2, <6>3 DEF Dated
          <6>5. w >= v
            BY <3>1, <5>1, <6>3 DEF AfterTheTail
          <6> QED
            BY <6>3, <6>4, <6>5
        <5> QED
          BY <5>1 DEF Follows
      <4> QED
        BY <1>6, <4>1, <4>2
    <3>2. CASE ~AfterTheTail(q, f)
      <4>1. x = Sorted(q \o f)
        BY <1>1, <2>2, <3>2 DEF Appended
      <4> QED
        BY <1>6, <1>8, <4>1 DEF Sorting
    <3> QED
      BY <3>1, <3>2
  <2>3. CASE f # <<>> /\ x = Prepended(t, S)
    <3>1. CASE q = <<>> \/ Ts(f[Len(f)]) <= Ts(q[1])
      <4>1. x = f \o q
        BY <1>1, <2>3, <3>1 DEF Prepended
      <4>2. Follows(f, q)
        BY <3>1 DEF Follows
      <4> QED
        BY <1>7, <4>1, <4>2
    <3>2. CASE ~(q = <<>> \/ Ts(f[Len(f)]) <= Ts(q[1]))
      <4>1. x = Sorted(f \o q)
        BY <1>1, <2>3, <3>2 DEF Prepended
      <4> QED
        BY <1>7, <1>8, <4>1 DEF Sorting
    <3> QED
      BY <3>1, <3>2
  <2> QED
    BY <1>12, <2>1, <2>2, <2>3
<1>13. H \cup (S \cap Of(t)) \subseteq Of(t)
  BY <1>2
<1>14. ASSUME NEW x, x = Appended(t, S) \/ x = Prepended(t, S)
       PROVE  Kept(x, t) /\ Members(x) = Held(t) \cup (S \cap Of(t))
  <2>1. x \in Seq(P) /\ Chronological(x) /\ Members(x) = Members(q) \cup Members(f)
    BY <1>12, <1>14
  <2>2. Members(x) \subseteq Of(t)
    BY <1>9, <1>13, <2>1
  <2> QED
    BY <1>1, <1>9, <2>1, <2>2 DEF Kept
<1> QED
  BY <1>14

\* What a push does to the log of n messages, and to the wire.
Pushed(n, t, ts, mine) ==
  /\ n \in Nat /\ n = Len(log) /\ Len(log') = n + 1
  /\ Posted = 1..n /\ Posted' = 1..n + 1
  /\ \A m \in 1..n : log'[m] = log[m] /\ Ts(m)' = Ts(m)
  /\ log'[n + 1] = [ts |-> ts, thread |-> t, mine |-> mine] /\ Ts(n + 1)' = ts
  /\ ts \in 1..MaxTs /\ (n > 0 => Ts(n) <= ts)
  /\ wire' = IF mine /\ link # "down" THEN Append(wire, n + 1) ELSE wire

LEMMA PushExtends ==
  ASSUME Logged, NEW t \in Threads, Push(t)
  PROVE  \E n, ts, mine : Pushed(n, t, ts, mine) /\ Logged'
<1>1. PICK ts \in 1..MaxTs, mine \in BOOLEAN :
        /\ log # <<>> => ts >= Ts(Len(log))
        /\ log' = Append(log, [ts |-> ts, thread |-> t, mine |-> mine])
        /\ wire' = IF mine /\ link # "down" THEN Append(wire, Len(log) + 1) ELSE wire
  BY DEF Push
<1>2. PICK l, k, M, n, rec : /\ l = log /\ k = log' /\ n = Len(l)
                             /\ M = [ts : 1..MaxTs, thread : Threads, mine : BOOLEAN]
                             /\ rec = [ts |-> ts, thread |-> t, mine |-> mine]
  OBVIOUS
<1>3. l \in Seq(M) /\ rec \in M /\ n \in Nat /\ k = Append(l, rec)
  BY <1>1, <1>2, LenProperties DEF Logged
<1>4. k \in Seq(M) /\ Len(k) = n + 1 /\ (\A i \in 1..n : k[i] = l[i]) /\ k[n + 1] = rec
  BY ONLY <1>2, <1>3, AppendProperties
<1>5. Posted = 1..n /\ Posted' = 1..n + 1
  BY <1>2, <1>4 DEF Posted
<1>6. \A m \in 1..n : log'[m] = log[m] /\ Ts(m)' = Ts(m)
  BY <1>2, <1>4 DEF Ts
<1>7. log'[n + 1] = [ts |-> ts, thread |-> t, mine |-> mine] /\ Ts(n + 1)' = ts
  BY <1>2, <1>4 DEF Ts
<1>8. n > 0 => Ts(n) <= ts
  <2>1. ASSUME n > 0 PROVE ts >= Ts(n) /\ Ts(n) \in Int
    <3>1. n \in 1..n /\ log # <<>>
      BY <1>2, <1>3, <2>1, EmptySeq
    <3>2. n \in Posted
      BY <1>5, <3>1
    <3>3. Ts(n) \in Int
      BY <3>2, PostedDated DEF Dated
    <3> QED
      BY <1>1, <1>2, <3>1, <3>3
  <2> QED
    BY <2>1
<1>9. Logged'
  BY <1>2, <1>4 DEF Logged
<1>10. Pushed(n, t, ts, mine)
  BY <1>1, <1>2, <1>3, <1>4, <1>5, <1>6, <1>7, <1>8 DEF Pushed
<1> QED
  BY <1>9, <1>10

LEMMA StoreInit == TranscriptInit => StoreInv
<1> SUFFICES ASSUME TranscriptInit PROVE StoreInv
  OBVIOUS
<1>1. log = <<>> /\ store = [t \in Threads |-> <<>>]
  BY DEF TranscriptInit
<1>2. log \in Seq([ts : 1..MaxTs, thread : Threads, mine : BOOLEAN]) /\ <<>> \in Seq(Posted) /\ Len(<<>>) = 0
  BY <1>1, EmptySeq
<1>3. ASSUME NEW t \in Threads PROVE Kept(<<>>, t)
  BY <1>2 DEF Kept, Chronological, Members
<1> QED
  BY <1>1, <1>2, <1>3 DEF StoreInv, Logged

\* Messages reach the store through the two merges only.
LEMMA StoreStep == StoreInv /\ [TranscriptNext]_transcriptVars => StoreInv'
<1> SUFFICES ASSUME StoreInv, [TranscriptNext]_transcriptVars PROVE StoreInv'
  OBVIOUS
<1>1. CASE UNCHANGED <<log, store>>
  BY <1>1 DEF StoreInv, Logged, Kept, Chronological, Ts, Of, Posted
<1>2. ASSUME NEW t \in Threads, Push(t) PROVE StoreInv'
  <2>1. PICK n, ts, mine : Pushed(n, t, ts, mine) /\ Logged'
    BY <1>2, PushExtends DEF StoreInv
  <2>2. Posted = 1..n /\ Posted' = 1..n + 1 /\ n \in Nat /\ Posted \subseteq Posted'
    BY <2>1 DEF Pushed
  <2>3. \A m \in Posted : log'[m] = log[m]
    BY <2>1, <2>2 DEF Pushed
  <2>4. store' = store
    BY <1>2 DEF Push
  <2>5. ASSUME NEW u \in Threads PROVE store[u] \in Seq(Posted') /\ Kept(store[u], u)'
    <3>1. PICK q, P, Q : q = store[u] /\ P = Posted /\ Q = Posted'
      OBVIOUS
    <3>2. q \in Seq(P) /\ Chronological(q) /\ Members(q) \subseteq Of(u)
      BY <3>1 DEF StoreInv, Kept
    <3>3. PICK d \in Nat : d = Len(q)
      BY <3>2, LenProperties
    <3>4. \A i \in 1..d : q[i] \in P
      BY <3>2, <3>3, ElementOfSeq
    <3>5. q \in Seq(Q)
      <4>1. q \in [1..d -> Q]
        BY <2>2, <3>1, <3>2, <3>3, <3>4, LenProperties
      <4> QED
        BY <4>1, SeqDef
    <3>6. \A i \in 1..d : Ts(q[i])' = Ts(q[i])
      BY <2>3, <3>1, <3>4, <2>4 DEF Ts
    <3>7. Chronological(q)'
      BY <3>2, <3>3, <3>6 DEF Chronological
    <3>8. Of(u) \subseteq Of(u)'
      BY <2>2, <2>3 DEF Of
    <3> QED
      BY <2>4, <3>1, <3>2, <3>5, <3>7, <3>8 DEF Kept, Chronological, Members
  <2> QED
    BY <2>1, <2>4, <2>5 DEF StoreInv
<1>3. ASSUME UNCHANGED log, NEW S,
             \/ store' = [t \in Threads |-> Appended(t, S)]
             \/ store' = [t \in Threads |-> Prepended(t, S)]
      PROVE  StoreInv'
  <2>1. ASSUME NEW t \in Threads PROVE store'[t] \in Seq(Posted) /\ Kept(store'[t], t)
    BY <1>3, Merges DEF Kept
  <2>2. store' \in [Threads -> Seq(Posted)]
    BY <1>3, <2>1
  <2>3. ASSUME NEW t \in Threads PROVE Kept(store[t], t)'
    BY <1>3, <2>1 DEF Kept, Chronological, Ts, Of, Posted
  <2> QED
    BY <1>3, <2>2, <2>3 DEF StoreInv, Logged, Posted
<1>4. CASE Receive
  BY <1>3, <1>4 DEF Receive
<1>5. ASSUME NEW f \in fetches, Arrive(f) PROVE StoreInv'
  <2>1. UNCHANGED log
    BY <1>5 DEF Arrive
  <2>2. \/ store' = [t \in Threads |-> Appended(t, f.page)]
        \/ store' = [t \in Threads |-> Prepended(t, f.page)]
    BY <1>5 DEF Arrive, BootArrives, BackfillArrives, PageArrives
  <2> QED
    BY <1>3, <2>1, <2>2
<1>6. CASE \/ Serve \/ Open \/ Break
           \/ \E t \in Threads : Hydrate(t) \/ LoadOlder(t)
           \/ \E f \in fetches : Answer(f) \/ Fail(f)
  BY <1>1, <1>6 DEF Serve, Open, Break, Hydrate, LoadOlder, Answer, Fail
<1>7. CASE UNCHANGED transcriptVars
  BY <1>1, <1>7 DEF transcriptVars
<1> QED
  BY <1>2, <1>4, <1>5, <1>6, <1>7 DEF TranscriptNext

\* A thread of the transcript is in the order of time and holds no message twice,
\* whether its messages came live, by backfill or by page, and in whatever order
\* (appendMessages and prependMessages of messages.ts).
THEOREM ThreadsStaySorted == TranscriptSpec => []StoreSorted
<1>1. StoreInv => StoreSorted
  BY DEF StoreInv, Kept, Chronological, StoreSorted
<1> QED
  BY <1>1, StoreInit, StoreStep, PTL DEF TranscriptSpec

-----------------------------------------------------------------------------
(* The latest of some messages. *)

\* Some messages of a finite set of numbers: a window of n holds the newest, and
\* one that is not full holds them all.
LatestFacts(S, n) ==
  /\ Latest(S, n) \subseteq S
  /\ \A m \in S \ Latest(S, n), k \in Latest(S, n) : m < k
  /\ Cardinality(Latest(S, n)) < n => Latest(S, n) = S

LEMMA LatestAreNewest ==
  ASSUME NEW S, IsFiniteSet(S), S \subseteq Int, NEW n \in Nat
  PROVE  LatestFacts(S, n)
<1>1. PICK L : L = Latest(S, n)
  OBVIOUS
<1>2. L \subseteq S /\ \A m \in S : m \in L <=> Cardinality({k \in S : k > m}) < n
  BY <1>1 DEF Latest
<1>3. ASSUME NEW m \in S \ L, NEW k \in L PROVE m < k
  <2>1. PICK A, B : A = {j \in S : j > m} /\ B = {j \in S : j > k}
    OBVIOUS
  <2>2. IsFiniteSet(A) /\ IsFiniteSet(B)
    BY <2>1, FS_Subset
  <2>3. Cardinality(A) \in Nat /\ Cardinality(B) \in Nat
    BY <2>2, FS_CardinalityType
  <2>4. ~(Cardinality(A) < n) /\ Cardinality(B) < n
    BY <1>2, <2>1
  <2>5. ~(A \subseteq B)
    <3>1. A \subseteq B => Cardinality(A) <= Cardinality(B)
      BY <2>2, FS_Subset
    <3> QED
      BY <2>3, <2>4, <3>1
  <2>6. m \in Int /\ k \in Int /\ \A j \in S : j \in Int
    BY <1>2
  <2>7. ASSUME k <= m PROVE A \subseteq B
    <3>1. ASSUME NEW j \in S, j > m PROVE j > k
      BY <2>6, <2>7, <3>1
    <3> QED
      BY <2>1, <3>1
  <2> QED
    BY <2>5, <2>6, <2>7
<1>4. ASSUME L # S PROVE n <= Cardinality(L)
  <2>1. PICK m \in S : m \notin L
    BY <1>2, <1>4
  <2>2. PICK R : R = {p \in S \X S : p[1] > p[2]}
    OBVIOUS
  <2>3. \A i, j \in S : <<i, j>> \in R <=> i > j
    BY <2>2
  <2>4. StrictOrder(R, S)
    BY <2>3 DEF StrictOrder
  <2>5. \A i \in S : Before(R, S, i) = {k \in S : k > i}
    BY <2>3 DEF Before
  <2>6. PICK c \in Nat : c = Cardinality(S)
    BY FS_CardinalityType
  <2>7. n <= c
    <3>1. PICK A : A = {k \in S : k > m}
      OBVIOUS
    <3>2. IsFiniteSet(A) /\ Cardinality(A) <= c
      BY <2>6, <3>1, FS_Subset
    <3>3. Cardinality(A) \in Nat /\ ~(Cardinality(A) < n)
      BY <1>2, <2>1, <3>1, <3>2, FS_CardinalityType
    <3> QED
      BY <2>6, <3>2, <3>3
  <2>8. ASSUME NEW r \in 0..n - 1 PROVE \E x \in L : Cardinality(Before(R, S, x)) = r
    <3>1. r \in 0..Cardinality(S) - 1
      BY <2>6, <2>7
    <3>2. PICK x \in S : Cardinality(Before(R, S, x)) = r
      BY ONLY IsFiniteSet(S), <2>4, <3>1, RankHits
    <3>3. Cardinality({k \in S : k > x}) < n
      BY <2>5, <3>2
    <3> QED
      BY <1>2, <3>2, <3>3
  <2>9. PICK f : f = [x \in L |-> Cardinality(Before(R, S, x))]
    OBVIOUS
  <2>10. PICK T : T = 0..n - 1
    OBVIOUS
  <2>11. ASSUME NEW x \in L PROVE f[x] \in T
    <3>1. PICK A : A = Before(R, S, x)
      OBVIOUS
    <3>2. A \in SUBSET S
      BY <3>1 DEF Before
    <3>3. Cardinality(A) \in Nat
      BY <3>2, FS_Subset, FS_CardinalityType
    <3>4. Cardinality(A) < n
      BY <1>2, <2>5, <3>1
    <3>5. f[x] = Cardinality(A)
      BY <2>9, <3>1
    <3> QED
      BY <2>10, <3>3, <3>4, <3>5
  <2>12. f \in Surjection(L, T)
    <3>1. f \in [L -> T]
      BY <2>9, <2>11
    <3>2. \A r \in T : \E x \in L : f[x] = r
      BY <2>8, <2>9, <2>10
    <3> QED
      BY <3>1, <3>2 DEF Surjection
  <2>13. IsFiniteSet(L)
    BY <1>2, FS_Subset
  <2>14. Cardinality(T) <= Cardinality(L)
    BY <2>12, <2>13, FS_Surjection
  <2>15. Cardinality(T) = n
    <3>1. 0 \in Int /\ n - 1 \in Int
      OBVIOUS
    <3>2. Cardinality(T) = IF 0 > n - 1 THEN 0 ELSE (n - 1) - 0 + 1
      BY <2>10, <3>1, FS_Interval
    <3> QED
      BY <3>2
  <2> QED
    BY <2>14, <2>15
<1>5. Cardinality(L) \in Nat
  BY <1>2, FS_Subset, FS_CardinalityType
<1> QED
  BY <1>1, <1>2, <1>3, <1>4, <1>5 DEF LatestFacts

\* What is not among the latest never is again.
LEMMA LatestPasses ==
  ASSUME NEW S, NEW R, IsFiniteSet(R), S \subseteq R, NEW n \in Nat,
         NEW m \in S \ Latest(S, n)
  PROVE  m \notin Latest(R, n)
<1>1. PICK A, B : A = {k \in S : k > m} /\ B = {k \in R : k > m}
  OBVIOUS
<1>2. A \in SUBSET B /\ B \in SUBSET R
  BY <1>1
<1>3. IsFiniteSet(B)
  BY <1>2, FS_Subset
<1>4. IsFiniteSet(A) /\ Cardinality(A) <= Cardinality(B)
  BY <1>2, <1>3, FS_Subset
<1>5. Cardinality(A) \in Nat /\ Cardinality(B) \in Nat
  BY <1>3, <1>4, FS_CardinalityType
<1>6. ~(Cardinality(A) < n)
  BY <1>1 DEF Latest
<1>7. ~(Cardinality(B) < n)
  BY <1>4, <1>5, <1>6
<1> QED
  BY <1>1, <1>7 DEF Latest

-----------------------------------------------------------------------------
(* The log and the wire. *)

\* Messages are logged in the order of time.
LogOrdered == \A i, j \in Posted : i <= j => Ts(i) <= Ts(j)

OnWire == {wire[i] : i \in 1..Len(wire)}

\* The frames under way are in order, and the head is followed by all that was for
\* the viewer since.
WireInOrder ==
  /\ wire \in Seq(Posted)
  /\ \A i, j \in 1..Len(wire) : i < j => wire[i] < wire[j]
  /\ \A i \in 1..Len(wire), m \in Mine : wire[i] < m => m \in OnWire
  /\ link = "down" => wire = <<>>

LineInv == Logged /\ LogOrdered /\ WireInOrder

LEMMA LineInit == TranscriptInit => LineInv
<1> SUFFICES ASSUME TranscriptInit PROVE LineInv
  OBVIOUS
<1>1. log = <<>> /\ wire = <<>> /\ Len(<<>>) = 0
  BY EmptySeq DEF TranscriptInit
<1>2. log \in Seq([ts : 1..MaxTs, thread : Threads, mine : BOOLEAN]) /\ wire \in Seq(Posted)
  BY <1>1, EmptySeq
<1> QED
  BY <1>1, <1>2 DEF LineInv, Logged, LogOrdered, WireInOrder, Posted

\* What is sent goes to the end of the wire, what is received leaves its head.
LEMMA LineStep == LineInv /\ [TranscriptNext]_transcriptVars => LineInv'
<1> SUFFICES ASSUME LineInv, [TranscriptNext]_transcriptVars PROVE LineInv'
  OBVIOUS
<1>0. PICK w, P, c : w = wire /\ P = Posted /\ c = Len(w) /\ c \in Nat
  BY LenProperties DEF LineInv, WireInOrder
<1>1. CASE UNCHANGED <<log, wire, link>>
  BY <1>1 DEF LineInv, Logged, LogOrdered, WireInOrder, OnWire, Mine, Ts, Posted
<1>2. ASSUME NEW t \in Threads, Push(t) PROVE LineInv'
  <2>1. PICK n, ts, mine : Pushed(n, t, ts, mine) /\ Logged'
    BY <1>2, PushExtends DEF LineInv
  <2>2. /\ n \in Nat /\ n = Len(log) /\ Len(log') = n + 1
        /\ Posted = 1..n /\ Posted' = 1..n + 1
        /\ \A m \in 1..n : Ts(m)' = Ts(m)
        /\ Ts(n + 1)' = ts /\ ts \in 1..MaxTs /\ (n > 0 => Ts(n) <= ts)
    BY <2>1 DEF Pushed
  <2>3. LogOrdered'
    <3> SUFFICES ASSUME NEW i \in 1..n + 1, NEW j \in 1..n + 1, i <= j PROVE Ts(i)' <= Ts(j)'
      BY <2>2 DEF LogOrdered
    <3>1. \A m \in 1..n : Ts(m) \in Int
      BY <2>2, PostedDated DEF Dated, LineInv
    <3>2. CASE j \in 1..n
      <4>1. i \in 1..n
        BY <2>2, <3>2
      <4>2. Ts(i) <= Ts(j)
        BY <2>2, <3>2, <4>1 DEF LineInv, LogOrdered
      <4> QED
        BY <2>2, <3>2, <4>1, <4>2
    <3>3. CASE j = n + 1 /\ i \in 1..n
      <4>1. n \in 1..n /\ i <= n /\ n > 0
        BY <2>2, <3>3
      <4>2. Ts(i) <= Ts(n)
        BY <2>2, <3>3, <4>1 DEF LineInv, LogOrdered
      <4>3. PICK x, y : x = Ts(i) /\ y = Ts(n)
        OBVIOUS
      <4>4. x \in Int /\ y \in Int /\ ts \in Int /\ x <= y /\ y <= ts
        BY <2>2, <3>1, <3>3, <4>1, <4>2, <4>3
      <4>5. x <= ts
        BY ONLY <4>4
      <4> QED
        BY <2>2, <3>3, <4>3, <4>5
    <3>4. CASE j = n + 1 /\ i = n + 1
      BY <2>2, <3>4
    <3> QED
      BY <2>2, <3>2, <3>3, <3>4
  <2>4. WireInOrder'
    <3>1. /\ w \in Seq(P) /\ \A i, j \in 1..c : i < j => w[i] < w[j]
          /\ link = "down" => w = <<>>
      BY <1>0 DEF LineInv, WireInOrder
    <3>2. PICK Q, M, e : Q = 1..n + 1 /\ M = Mine' /\ e = n + 1
      OBVIOUS
    <3>3. w \in Seq(Q) /\ \A i \in 1..c : w[i] \in Int /\ w[i] < e
      <4>1. \A i \in 1..c : w[i] \in 1..n
        BY <1>0, <2>2, <3>1, ElementOfSeq
      <4>2. \A i \in 1..c : w[i] \in Q /\ w[i] \in Int /\ w[i] < e
        BY <2>2, <3>2, <4>1
      <4>3. w \in [1..c -> Q]
        BY <1>0, <3>1, <4>2, LenProperties
      <4> QED
        BY <1>0, <4>2, <4>3, SeqDef
    <3>4. \A m \in M : m = e \/ m \in Mine
      <4>1. \A m \in M : m \in 1..n + 1 /\ log'[m].mine
        BY <2>2, <3>2 DEF Mine
      <4>2. \A m \in 1..n : log'[m] = log[m]
        BY <2>1 DEF Pushed
      <4> QED
        BY <2>2, <3>2, <4>1, <4>2 DEF Mine
    <3>5. \A i \in 1..c, m \in M : w[i] < m => m = e \/ \E k \in 1..c : w[k] = m
      <4>1. \A i \in 1..c, m \in Mine : w[i] < m => \E k \in 1..c : w[k] = m
        BY <1>0 DEF LineInv, WireInOrder, OnWire
      <4> QED
        BY <3>4, <4>1
    <3>6. link' = link
      BY <1>2 DEF Push
    <3>7. CASE mine /\ link # "down"
      <4>1. PICK x : x = wire'
        OBVIOUS
      <4>2. x = Append(w, e) /\ e \in Q
        BY <1>0, <2>1, <2>2, <3>2, <3>7, <4>1 DEF Pushed
      <4>3. x \in Seq(Q) /\ Len(x) = c + 1 /\ (\A i \in 1..c : x[i] = w[i]) /\ x[c + 1] = e
        BY ONLY <1>0, <3>3, <4>2, AppendProperties
      <4>4. \A i \in 1..c + 1 : i \in 1..c \/ i = c + 1
        BY <1>0
      <4>5. ASSUME NEW i \in 1..c + 1, NEW j \in 1..c + 1, i < j PROVE x[i] < x[j]
        <5>1. i \in 1..c
          BY <1>0, <4>5
        <5>2. CASE j \in 1..c
          BY <3>1, <4>3, <4>5, <5>1, <5>2
        <5>3. CASE j = c + 1
          BY <3>3, <4>3, <5>1, <5>3
        <5> QED
          BY <4>4, <5>2, <5>3
      <4>6. \A m \in M : m = e \/ m \in 1..n
        BY <2>2, <3>4 DEF Mine
      <4>7. ASSUME NEW i \in 1..c + 1, NEW m \in M, x[i] < m
            PROVE  \E k \in 1..c + 1 : x[k] = m
        <5>1. CASE m = e
          <6>1. c + 1 \in 1..c + 1
            BY <1>0
          <6> QED
            BY <4>3, <5>1, <6>1
        <5>2. CASE m # e
          <6>1. m \in 1..n
            BY <4>6, <5>2
          <6>2. i \in 1..c
            <7>1. i # c + 1
              BY <2>2, <3>2, <4>3, <4>7, <6>1
            <7> QED
              BY <4>4, <7>1
          <6>3. PICK k \in 1..c : w[k] = m
            BY <3>5, <4>3, <4>7, <5>2, <6>2
          <6>4. k \in 1..c + 1
            BY <1>0
          <6> QED
            BY <4>3, <6>3, <6>4
        <5> QED
          BY <5>1, <5>2
      <4>8. \A i \in 1..c + 1, m \in M : x[i] < m => m \in OnWire'
        BY <4>1, <4>3, <4>7 DEF OnWire
      <4> QED
        BY <2>2, <3>2, <3>6, <3>7, <4>1, <4>3, <4>5, <4>8 DEF WireInOrder
    <3>8. CASE ~(mine /\ link # "down")
      <4>1. wire' = w
        BY <1>0, <2>1, <3>8 DEF Pushed
      <4>2. ASSUME NEW i \in 1..c, NEW m \in M, w[i] < m PROVE \E k \in 1..c : w[k] = m
        <5>1. m # e
          <6>1. ASSUME m = e PROVE FALSE
            <7>1. log'[e].mine
              BY <3>2, <4>2, <6>1 DEF Mine
            <7>2. log'[e] = [ts |-> ts, thread |-> t, mine |-> mine]
              BY <2>1, <3>2 DEF Pushed
            <7>3. mine
              BY <7>1, <7>2
            <7>4. link = "down" /\ c = 0
              BY <1>0, <3>1, <3>8, <7>3, EmptySeq
            <7> QED
              BY <4>2, <7>4
          <6> QED
            BY <6>1
        <5> QED
          BY <3>5, <4>2, <5>1
      <4>3. \A i \in 1..c, m \in M : w[i] < m => m \in OnWire'
        BY <1>0, <4>1, <4>2 DEF OnWire
      <4> QED
        BY <1>0, <2>2, <3>1, <3>2, <3>3, <3>6, <4>1, <4>3 DEF WireInOrder
    <3> QED
      BY <3>7, <3>8
  <2> QED
    BY <2>1, <2>3, <2>4 DEF LineInv
<1>3. CASE Receive
  <2>1. UNCHANGED <<log, link>> /\ wire' = Tail(w) /\ w # <<>> /\ link = "open"
    BY <1>0, <1>3 DEF Receive
  <2>2. PICK x, M : x = Tail(w) /\ M = Mine
    OBVIOUS
  <2>3. /\ w \in Seq(P) /\ \A i, j \in 1..c : i < j => w[i] < w[j]
        /\ \A i \in 1..c, m \in M : w[i] < m => \E k \in 1..c : w[k] = m
    BY <1>0, <2>2 DEF LineInv, WireInOrder, OnWire
  <2>4. x \in Seq(P) /\ Len(x) = c - 1 /\ \A i \in 1..c - 1 : x[i] = w[i + 1]
    BY ONLY <1>0, <2>1, <2>2, <2>3, HeadTailProperties
  <2>5. c # 0
    BY <1>0, <2>1, <2>3, EmptySeq
  <2>6. ASSUME NEW i \in 1..c - 1, NEW j \in 1..c - 1, i < j PROVE x[i] < x[j]
    <3>1. i + 1 \in 1..c /\ j + 1 \in 1..c /\ i + 1 < j + 1
      BY <1>0, <2>5, <2>6
    <3> QED
      BY <2>3, <2>4, <3>1
  <2>7. \A i \in 1..c : w[i] \in Int
    <3>1. P \subseteq Int
      BY <1>0, PostedDated DEF LineInv
    <3> QED
      BY <1>0, <2>3, <3>1, ElementOfSeq
  <2>8. ASSUME NEW i \in 1..c - 1, NEW m \in M, x[i] < m PROVE \E k \in 1..c - 1 : x[k] = m
    <3>1. i + 1 \in 1..c /\ 1 \in 1..c /\ 1 < i + 1
      BY <1>0, <2>5
    <3>2. w[1] < w[i + 1] /\ w[i + 1] < m
      BY <2>3, <2>4, <2>8, <3>1
    <3>3. PICK k \in 1..c : w[k] = m
      BY <2>3, <3>1, <3>2
    <3>4. k # 1
      BY <2>7, <3>1, <3>2, <3>3
    <3>5. k - 1 \in 1..c - 1 /\ (k - 1) + 1 = k
      BY <1>0, <3>4
    <3> QED
      BY <2>4, <3>3, <3>5
  <2>9. wire' = x /\ P = Posted' /\ M = Mine'
    BY <1>0, <2>1, <2>2 DEF Posted, Mine
  <2>10. \A i \in 1..c - 1, m \in M : x[i] < m => m \in OnWire'
    BY <2>4, <2>8, <2>9 DEF OnWire
  <2>11. WireInOrder'
    BY <2>1, <2>4, <2>6, <2>9, <2>10 DEF WireInOrder
  <2> QED
    BY <2>1, <2>11 DEF LineInv, Logged, LogOrdered, Ts, Posted
<1>4. CASE Serve \/ Open
  <2>1. UNCHANGED <<log, wire>>
    BY <1>4 DEF Serve, Open
  <2>2. link' # "down"
    BY <1>4 DEF Serve, Open
  <2>3. Posted' = Posted /\ Mine' = Mine /\ OnWire' = OnWire
    BY <2>1 DEF Posted, Mine, OnWire
  <2>4. WireInOrder'
    BY <2>1, <2>2, <2>3 DEF LineInv, WireInOrder
  <2> QED
    BY <2>1, <2>4 DEF LineInv, Logged, LogOrdered, Ts, Posted
<1>5. CASE Break
  <2>1. UNCHANGED log /\ wire' = <<>> /\ Len(<<>>) = 0
    BY <1>5, EmptySeq DEF Break
  <2>2. <<>> \in Seq(Posted)
    BY EmptySeq
  <2>3. WireInOrder'
    BY <2>1, <2>2 DEF WireInOrder, Posted
  <2> QED
    BY <2>1, <2>3 DEF LineInv, Logged, LogOrdered, Ts, Posted
<1>6. CASE \/ \E t \in Threads : Hydrate(t) \/ LoadOlder(t)
           \/ \E f \in fetches : Answer(f) \/ Arrive(f) \/ Fail(f)
  BY <1>1, <1>6 DEF Hydrate, LoadOlder, Answer, Arrive, Fail
<1>7. CASE UNCHANGED transcriptVars
  BY <1>1, <1>7 DEF transcriptVars
<1> QED
  BY <1>2, <1>3, <1>4, <1>5, <1>6, <1>7 DEF TranscriptNext

-----------------------------------------------------------------------------
(* What every step keeps: messages stay logged and held. *)

HeldPosted == \A t \in Threads : Held(t) \subseteq Of(t) /\ Of(t) \subseteq Posted

LEMMA HeldArePosted ==
  ASSUME StoreInv
  PROVE  HeldPosted
  BY HeldAreMembers DEF StoreInv, Kept, Of, HeldPosted

Grown ==
  /\ Posted \subseteq Posted'
  /\ \A m \in Posted : log'[m] = log[m] /\ Ts(m)' = Ts(m)
  /\ \A t \in Threads : Held(t) \subseteq Held(t)'

\* Nothing takes a message out of the log or out of the store.
LEMMA Grows == StoreInv /\ [TranscriptNext]_transcriptVars => Grown
<1> SUFFICES ASSUME StoreInv, [TranscriptNext]_transcriptVars PROVE Grown
  OBVIOUS
<1>1. CASE UNCHANGED <<log, store>>
  BY <1>1 DEF Grown, Held, Ts, Posted
<1>2. ASSUME NEW t \in Threads, Push(t) PROVE Grown
  <2>1. PICK n, ts, mine : Pushed(n, t, ts, mine)
    BY <1>2, PushExtends DEF StoreInv
  <2>2. /\ n \in Nat /\ Posted = 1..n /\ Posted' = 1..n + 1
        /\ \A m \in 1..n : log'[m] = log[m] /\ Ts(m)' = Ts(m)
    BY <2>1 DEF Pushed
  <2>3. Posted \subseteq Posted'
    BY <2>2
  <2>4. \A u \in Threads : Held(u)' = Held(u)
    BY <1>2 DEF Push, Held
  <2> QED
    BY <2>2, <2>3, <2>4 DEF Grown
<1>3. ASSUME UNCHANGED log, NEW S,
             \/ store' = [t \in Threads |-> Appended(t, S)]
             \/ store' = [t \in Threads |-> Prepended(t, S)]
      PROVE  Grown
  <2>1. ASSUME NEW t \in Threads PROVE Held(t) \subseteq Held(t)'
    <3>1. Held(t)' = Members(store'[t])
      BY DEF Held, Members
    <3>2. Members(store'[t]) = Held(t) \cup (S \cap Of(t))
      BY <1>3, Merges
    <3> QED
      BY <3>1, <3>2
  <2> QED
    BY <1>3, <2>1 DEF Grown, Ts, Posted
<1>4. CASE Receive
  BY <1>3, <1>4 DEF Receive
<1>5. ASSUME NEW f \in fetches, Arrive(f) PROVE Grown
  <2>1. UNCHANGED log
    BY <1>5 DEF Arrive
  <2>2. \/ store' = [t \in Threads |-> Appended(t, f.page)]
        \/ store' = [t \in Threads |-> Prepended(t, f.page)]
    BY <1>5 DEF Arrive, BootArrives, BackfillArrives, PageArrives
  <2> QED
    BY <1>3, <2>1, <2>2
<1>6. CASE \/ Serve \/ Open \/ Break
           \/ \E t \in Threads : Hydrate(t) \/ LoadOlder(t)
           \/ \E f \in fetches : Answer(f) \/ Fail(f)
  BY <1>1, <1>6 DEF Serve, Open, Break, Hydrate, LoadOlder, Answer, Fail
<1>7. CASE UNCHANGED transcriptVars
  BY <1>1, <1>7 DEF transcriptVars
<1> QED
  BY <1>2, <1>4, <1>5, <1>6, <1>7 DEF TranscriptNext

-----------------------------------------------------------------------------
(* The requests under way. *)

Request ==
  [kind : {"boot"}, connection : {0}, page : SUBSET Nat] \cup
  [kind : {"backfill"}, connection : Nat, page : SUBSET Nat] \cup
  [kind : {"page"}, thread : Paged, before : Int, first : BOOLEAN, page : SUBSET Nat]

IsBackfill(f) == f.kind = "backfill"
Current(f) == IsBackfill(f) /\ f.connection = breaks + 1

\* A backfill is of a connection that was opened and whose backfill has not
\* failed; a page ends where a message that is held begins.
FetchRight(f) ==
  /\ f \in Request /\ (f.page = Asked \/ f.page \subseteq Posted)
  /\ IsBackfill(f) => /\ f.connection \in 1..breaks + 1 /\ f.connection # failed
                      /\ link # "open" => f.connection # breaks + 1
  /\ f.kind = "page" => f.before = Never \/ \E k \in Held(f.thread) : Ts(k) = f.before

\* Each connection asks for one backfill, once it is open.
FetchInv ==
  /\ \A f \in fetches : FetchRight(f)
  /\ \A f, g \in fetches : IsBackfill(f) /\ IsBackfill(g) /\ f.connection = g.connection => f = g
  /\ breaks \in Nat /\ failed \in 0..breaks + 1
  /\ link # "open" => failed # breaks + 1

LEMMA RequestFacts ==
  ASSUME NEW f \in Request
  PROVE  /\ f.kind \in {"boot", "backfill", "page"} /\ f.page \in SUBSET Nat
         /\ f.kind = "backfill" => f.connection \in Nat
         /\ f.kind = "page" => f.thread \in Paged /\ f.before \in Int /\ f.first \in BOOLEAN
  BY DEF Request

\* g is the request f, answered with W.
Answered(g, f, W) ==
  /\ g \in Request /\ g.page = W /\ g.kind = f.kind
  /\ f.kind = "backfill" => g.connection = f.connection
  /\ f.kind = "page" => g.thread = f.thread /\ g.before = f.before

LEMMA AnswerFacts ==
  ASSUME NEW f \in Request, NEW W \in SUBSET Nat, NEW g, g = [f EXCEPT !.page = W]
  PROVE  Answered(g, f, W)
<1>1. CASE f \in [kind : {"boot"}, connection : {0}, page : SUBSET Nat]
  <2>1. g \in [kind : {"boot"}, connection : {0}, page : SUBSET Nat]
    BY <1>1
  <2>2. g.page = W /\ g.kind = f.kind /\ f.kind = "boot"
    BY <1>1
  <2> QED
    BY <2>1, <2>2 DEF Answered, Request
<1>2. CASE f \in [kind : {"backfill"}, connection : Nat, page : SUBSET Nat]
  <2>1. g \in [kind : {"backfill"}, connection : Nat, page : SUBSET Nat]
    BY <1>2
  <2>2. g.page = W /\ g.kind = f.kind /\ f.kind = "backfill" /\ g.connection = f.connection
    BY <1>2
  <2> QED
    BY <2>1, <2>2 DEF Answered, Request
<1>3. CASE f \in [kind : {"page"}, thread : Paged, before : Int, first : BOOLEAN, page : SUBSET Nat]
  <2>1. g \in [kind : {"page"}, thread : Paged, before : Int, first : BOOLEAN, page : SUBSET Nat]
    BY <1>3
  <2>2. /\ g.page = W /\ g.kind = f.kind /\ f.kind = "page"
        /\ g.thread = f.thread /\ g.before = f.before
    BY <1>3
  <2> QED
    BY <2>1, <2>2 DEF Answered, Request
<1> QED
  BY <1>1, <1>2, <1>3 DEF Request

\* Every answer lists logged messages.
LEMMA WindowPosted ==
  \A f : Window(f) \subseteq Posted \/ f.kind \notin {"boot", "backfill", "page"}
<1>1. \A n : Latest(Posted, n) \subseteq Posted
  BY DEF Latest
<1>2. \A t, b, n : Latest({m \in Of(t) : Ts(m) < b}, n) \subseteq Posted
  BY DEF Latest, Of
<1> QED
  BY <1>1, <1>2 DEF Window

LEMMA FetchInit == TranscriptInit => FetchInv
<1> SUFFICES ASSUME TranscriptInit PROVE FetchInv
  OBVIOUS
<1>1. fetches = {Boot} /\ link = "down" /\ failed = 0 /\ breaks = 0
  BY DEF TranscriptInit
<1>2. Boot \in [kind : {"boot"}, connection : {0}, page : SUBSET Nat]
  BY DEF Boot, Asked
<1>3. Boot \in Request /\ Boot.kind = "boot" /\ Boot.page = Asked
  BY <1>2 DEF Request, Boot
<1>4. FetchRight(Boot)
  BY <1>3 DEF FetchRight, IsBackfill
<1> QED
  BY <1>1, <1>3, <1>4 DEF FetchInv, IsBackfill

\* A request that is right stays so while the connection does.
LEMMA FetchKept ==
  ASSUME HeldPosted, Grown, NEW f, FetchRight(f),
         breaks' = breaks, IsBackfill(f) => failed' = failed, link = "open" => link' = "open"
  PROVE  FetchRight(f)'
<1>1. f \in Request /\ (f.page = Asked \/ f.page \subseteq Posted')
  BY DEF FetchRight, Grown
<1>2. IsBackfill(f) => /\ f.connection \in 1..breaks' + 1 /\ f.connection # failed'
                       /\ link' # "open" => f.connection # breaks' + 1
  BY DEF FetchRight
<1>3. ASSUME f.kind = "page", f.before # Never
      PROVE  \E k \in Held(f.thread)' : Ts(k)' = f.before
  <2>1. PICK k \in Held(f.thread) : Ts(k) = f.before
    BY <1>3 DEF FetchRight
  <2>2. f.thread \in Threads
    BY <1>1, <1>3, RequestFacts, ThreadsAssumption
  <2>3. k \in Posted /\ k \in Held(f.thread)'
    BY <2>1, <2>2 DEF HeldPosted, Grown
  <2> QED
    BY <2>1, <2>3 DEF Grown
<1>4. (f.page = Asked \/ f.page \subseteq Posted)'
  BY <1>1
<1>5. (IsBackfill(f) => /\ f.connection \in 1..breaks + 1 /\ f.connection # failed
                        /\ link # "open" => f.connection # breaks + 1)'
  BY <1>2 DEF IsBackfill
<1>6. (f.kind = "page" => f.before = Never \/ \E k \in Held(f.thread) : Ts(k) = f.before)'
  BY <1>3
<1> QED
  BY <1>1, <1>4, <1>5, <1>6 DEF FetchRight

\* A connection asks once, and a failure is that of a request under way.
LEMMA FetchStep == StoreInv /\ FetchInv /\ [TranscriptNext]_transcriptVars => FetchInv'
<1> SUFFICES ASSUME StoreInv, FetchInv, [TranscriptNext]_transcriptVars PROVE FetchInv'
  OBVIOUS
<1>1. HeldPosted /\ Grown
  BY HeldArePosted, Grows
<1>2. /\ \A f \in fetches : FetchRight(f)
      /\ \A f, g \in fetches :
           IsBackfill(f) /\ IsBackfill(g) /\ f.connection = g.connection => f = g
      /\ breaks \in Nat /\ failed \in 0..breaks + 1
      /\ link # "open" => failed # breaks + 1
  BY DEF FetchInv
<1>3. ASSUME fetches' \subseteq fetches, UNCHANGED <<breaks, failed>>,
             link = "open" => link' = "open", link' = "open" \/ link # "open"
      PROVE  FetchInv'
  <2>1. \A f \in fetches : FetchRight(f)'
    BY <1>1, <1>2, <1>3, FetchKept
  <2> QED
    BY <1>2, <1>3, <2>1 DEF FetchInv, IsBackfill
<1>4. ASSUME NEW t \in Threads, Push(t) PROVE FetchInv'
  BY <1>3, <1>4 DEF Push
<1>5. CASE Receive
  BY <1>3, <1>5 DEF Receive
<1>6. CASE Serve
  BY <1>3, <1>6 DEF Serve
<1>7. CASE Break
  <2>1. UNCHANGED <<fetches, failed, log, store>> /\ breaks' = breaks + 1 /\ link' = "down"
    BY <1>7 DEF Break
  <2>2. ASSUME NEW f \in fetches PROVE FetchRight(f)'
    <3>1. FetchRight(f)
      BY <1>2
    <3>2. IsBackfill(f) => /\ f.connection \in 1..breaks' + 1 /\ f.connection # failed'
                           /\ f.connection # breaks' + 1
      BY <1>2, <2>1, <3>1 DEF FetchRight
    <3> QED
      BY <2>1, <3>1, <3>2 DEF FetchRight, IsBackfill, Posted, Held, Ts
  <2>3. breaks' \in Nat /\ failed' \in 0..breaks' + 1 /\ failed' # breaks' + 1
    BY <1>2, <2>1
  <2> QED
    BY <1>2, <2>1, <2>2, <2>3 DEF FetchInv, IsBackfill
<1>8. CASE Open
  <2>1. /\ fetches' = fetches \cup {Backfill} /\ UNCHANGED <<failed, breaks, log, store>>
        /\ link = "served" /\ link' = "open"
    BY <1>8 DEF Open, Opened
  <2>2. \A f \in fetches : FetchRight(f)'
    BY <1>1, <1>2, <2>1, FetchKept
  <2>3. PICK b : b = Backfill
    OBVIOUS
  <2>4. b \in Request /\ b.page = Asked /\ b.kind = "backfill" /\ b.connection = breaks + 1
    <3>1. b \in [kind : {"backfill"}, connection : Nat, page : SUBSET Nat]
      BY <1>2, <2>3 DEF Backfill, Asked
    <3> QED
      BY <2>3, <3>1 DEF Backfill, Request
  <2>5. FetchRight(b)'
    <3>1. b.connection \in 1..breaks' + 1 /\ b.connection # failed'
      BY <1>2, <2>1, <2>4
    <3> QED
      BY <2>1, <2>4, <3>1 DEF FetchRight
  <2>6. \A f \in fetches : IsBackfill(f) => f.connection # b.connection
    BY <1>2, <2>1, <2>4 DEF FetchRight
  <2>7. \A f \in fetches' : f \in fetches \/ f = b
    BY <2>1, <2>3
  <2> QED
    BY <1>2, <2>1, <2>2, <2>5, <2>6, <2>7 DEF FetchInv, IsBackfill
<1>9. ASSUME NEW g, fetches' = fetches \cup {g}, g.kind = "page", FetchRight(g),
             UNCHANGED <<failed, breaks, log, store, link>>
      PROVE  FetchInv'
  <2>1. \A f \in fetches : FetchRight(f)'
    BY <1>1, <1>2, <1>9, FetchKept
  <2>2. FetchRight(g)'
    BY <1>9 DEF FetchRight, IsBackfill, Posted, Held, Ts
  <2>3. \A f \in fetches' : f \in fetches \/ (f = g /\ ~IsBackfill(f))
    BY <1>9 DEF IsBackfill
  <2> QED
    BY <1>2, <1>9, <2>1, <2>2, <2>3 DEF FetchInv, IsBackfill
<1>10. ASSUME NEW t \in Paged, NEW before, NEW first \in BOOLEAN, NEW g, g = Page(t, before, first),
              before = Never \/ \E k \in Held(t) : Ts(k) = before
       PROVE  g.kind = "page" /\ FetchRight(g)
  <2>1. before \in Int
    <3>1. Never \in Int
      BY BoundAssumption DEF Never
    <3>2. \A k \in Held(t) : Ts(k) \in Int
      BY <1>1, ThreadsAssumption, PostedDated DEF HeldPosted, Dated, StoreInv
    <3> QED
      BY <1>10, <3>1, <3>2
  <2>2. g \in [kind : {"page"}, thread : Paged, before : Int, first : BOOLEAN, page : SUBSET Nat]
    BY <1>10, <2>1 DEF Page, Asked
  <2>3. g.kind = "page" /\ g.thread = t /\ g.before = before /\ g.page = Asked
    BY <1>10 DEF Page
  <2>4. g \in Request
    BY <2>2 DEF Request
  <2> QED
    BY <1>10, <2>3, <2>4 DEF FetchRight, IsBackfill
<1>11. ASSUME NEW t \in Threads, Hydrate(t) PROVE FetchInv'
  <2>1. UNCHANGED <<failed, breaks, log, store, link>>
    BY <1>11 DEF Hydrate
  <2>2. CASE t \in Paged /\ fetches' = fetches \cup {Page(t, Never, TRUE)}
    BY <1>9, <1>10, <2>1, <2>2
  <2>3. CASE UNCHANGED fetches
    BY <1>3, <2>1, <2>3
  <2> QED
    BY <1>11, <2>2, <2>3 DEF Hydrate
<1>12. ASSUME NEW t \in Threads, LoadOlder(t) PROVE FetchInv'
  <2>1. UNCHANGED <<failed, breaks, log, store, link>> /\ t \in Paged
    BY <1>12 DEF LoadOlder
  <2>2. PICK b : b = IF store[t] = <<>> THEN Never ELSE Ts(store[t][1])
    OBVIOUS
  <2>3. fetches' = fetches \cup {Page(t, b, FALSE)}
    BY <1>12, <2>2 DEF LoadOlder
  <2>4. ASSUME store[t] # <<>> PROVE store[t][1] \in Held(t)
    <3>1. 1 \in 1..Len(store[t])
      BY <2>4, EmptySeq, LenProperties DEF StoreInv
    <3> QED
      BY <3>1 DEF Held
  <2>5. b = Never \/ \E k \in Held(t) : Ts(k) = b
    BY <2>2, <2>4
  <2> QED
    BY <1>9, <1>10, <2>1, <2>3, <2>5
<1>13. ASSUME NEW f \in fetches, Answer(f) PROVE FetchInv'
  <2>1. PICK W, g : W = Window(f) /\ g = [f EXCEPT !.page = W]
    OBVIOUS
  <2>2. fetches' = (fetches \ {f}) \cup {g} /\ UNCHANGED <<log, link, store, failed, breaks>>
    BY <1>13, <2>1 DEF Answer
  <2>3. FetchRight(f) /\ f \in Request
    BY <1>2 DEF FetchRight
  <2>4. W \subseteq Posted /\ W \in SUBSET Nat
    <3>1. W \subseteq Posted
      BY <2>1, <2>3, WindowPosted, RequestFacts
    <3>2. Posted \subseteq Nat
      BY LenProperties DEF Posted, StoreInv, Logged
    <3> QED
      BY <3>1, <3>2
  <2>5. Answered(g, f, W)
    BY <2>1, <2>3, <2>4, AnswerFacts
  <2>6. FetchRight(g)
    BY <2>3, <2>4, <2>5 DEF FetchRight, Answered, IsBackfill
  <2>7. \A h \in fetches : FetchRight(h)'
    BY <1>1, <1>2, <2>2, FetchKept
  <2>8. FetchRight(g)'
    BY <1>1, <2>2, <2>6, FetchKept
  <2>9. \A h \in fetches : IsBackfill(h) /\ IsBackfill(g) /\ h.connection = g.connection => h = f
    BY <1>2, <2>5 DEF Answered, IsBackfill
  <2> QED
    BY <1>2, <2>2, <2>7, <2>8, <2>9 DEF FetchInv, IsBackfill
<1>14. ASSUME NEW f \in fetches, Arrive(f) PROVE FetchInv'
  BY <1>3, <1>14 DEF Arrive
<1>15. ASSUME NEW f \in fetches, Fail(f) PROVE FetchInv'
  <2>1. /\ fetches' = fetches \ {f} /\ UNCHANGED <<log, link, store, breaks>>
        /\ failed' = IF f.kind = "backfill" /\ f.connection > failed THEN f.connection ELSE failed
    BY <1>15 DEF Fail
  <2>2. FetchRight(f) /\ f \in Request
    BY <1>2 DEF FetchRight
  <2>3. ASSUME NEW h \in fetches' PROVE FetchRight(h)'
    <3>1. h \in fetches /\ h # f /\ FetchRight(h)
      BY <1>2, <2>1
    <3>2. IsBackfill(h) => h.connection # failed'
      BY <1>2, <2>1, <3>1 DEF FetchRight, IsBackfill
    <3>3. FetchRight(h)'
      BY <2>1, <3>1, <3>2 DEF FetchRight, IsBackfill, Posted, Held, Ts
    <3> QED
      BY <3>3
  <2>4. failed' \in 0..breaks + 1 /\ (link # "open" => failed' # breaks + 1)
    BY <1>2, <2>1, <2>2 DEF FetchRight, IsBackfill
  <2> QED
    BY <1>2, <2>1, <2>3, <2>4 DEF FetchInv, IsBackfill
<1>16. CASE UNCHANGED transcriptVars
  BY <1>3, <1>16 DEF transcriptVars
<1> QED
  BY <1>4, <1>5, <1>6, <1>7, <1>8, <1>11, <1>12, <1>13, <1>14, <1>15, <1>16 DEF TranscriptNext

-----------------------------------------------------------------------------
(* Types. *)

\* The types hold at first.
LEMMA TypesHold == TranscriptInit => TranscriptTypeOK
<1> SUFFICES ASSUME TranscriptInit PROVE TranscriptTypeOK
  OBVIOUS
<1>1. /\ log = <<>> /\ link = "down" /\ wire = <<>> /\ fetches = {Boot}
      /\ store = [t \in Threads |-> <<>>]
      /\ paging = [t \in Threads |-> [loading |-> FALSE, exhausted |-> FALSE, hydrated |-> FALSE]]
      /\ backfillError = FALSE /\ booted = FALSE /\ beyond = {}
      /\ failed = 0 /\ breaks = 0 /\ fails = 0
  BY DEF TranscriptInit
<1>2. log \in Seq([ts : 1..MaxTs, thread : Threads, mine : BOOLEAN]) /\ wire \in Seq(Posted) /\ Len(<<>>) = 0
  BY <1>1, EmptySeq
<1>3. paging \in [Threads -> Paging]
  BY <1>1 DEF Paging
<1>4. Boot.page = Asked
  BY DEF Boot
<1>5. \A t \in Threads : Held(t) = {}
  BY <1>1, <1>2 DEF Held
<1>6. MaxMessages \in Nat /\ MaxBreaks \in Nat /\ MaxFails \in Nat
  BY BoundAssumption
<1>7. /\ breaks \in 0..MaxBreaks /\ failed \in 0..MaxBreaks + 1 /\ fails \in 0..MaxFails
      /\ Len(log) <= MaxMessages
  BY <1>1, <1>2, <1>6
<1>8. \A f \in fetches : f.page = Asked \/ f.page \subseteq Posted
  BY <1>1, <1>4
<1>9. \A t \in Threads : Held(t) \subseteq Of(t)
  BY <1>5
<1>10. /\ {backfillError, booted} \subseteq BOOLEAN /\ beyond \subseteq Posted
       /\ link \in {"down", "served", "open"}
  BY <1>1
<1> QED
  BY <1>2, <1>3, <1>7, <1>8, <1>9, <1>10 DEF TranscriptTypeOK

\* The types of what the other invariants say nothing of.
RestTyped ==
  /\ Len(log) <= MaxMessages /\ link \in {"down", "served", "open"}
  /\ paging \in [Threads -> Paging]
  /\ {backfillError, booted} \subseteq BOOLEAN
  /\ beyond \subseteq Posted
  /\ breaks \in 0..MaxBreaks /\ failed \in 0..MaxBreaks + 1 /\ fails \in 0..MaxFails

LEMMA TypesStay ==
  ASSUME TranscriptTypeOK, LineInv, StoreInv, FetchInv, LineInv', StoreInv', FetchInv', Grown,
         [TranscriptNext]_transcriptVars
  PROVE  TranscriptTypeOK'
<1>1. ASSUME RestTyped' PROVE TranscriptTypeOK'
  <2>1. \A t \in Threads : (Held(t) \subseteq Of(t))'
    <3>1. ASSUME NEW t \in Threads PROVE Held(t)' \subseteq Of(t)'
      <4>1. Held(t)' = Members(store'[t])
        BY DEF Held, Members
      <4>2. Kept(store[t], t)'
        BY DEF StoreInv
      <4>3. Members(store'[t]) \subseteq Of(t)'
        BY <4>2 DEF Kept, Members
      <4> QED
        BY <4>1, <4>3
    <3> QED
      BY <3>1
  <2>2. (\A f \in fetches : f.page = Asked \/ f.page \subseteq Posted)'
    BY DEF FetchInv, FetchRight
  <2>3. (log \in Seq([ts : 1..MaxTs, thread : Threads, mine : BOOLEAN]) /\ wire \in Seq(Posted))'
    BY DEF LineInv, Logged, WireInOrder
  <2> QED
    BY <1>1, <2>1, <2>2, <2>3 DEF RestTyped, TranscriptTypeOK
<1> SUFFICES RestTyped'
  BY <1>1
<1>2. /\ Len(log) <= MaxMessages /\ link \in {"down", "served", "open"}
      /\ paging \in [Threads -> Paging] /\ backfillError \in BOOLEAN /\ booted \in BOOLEAN
      /\ beyond \subseteq Posted
      /\ breaks \in 0..MaxBreaks /\ failed \in 0..MaxBreaks + 1 /\ fails \in 0..MaxFails
  BY DEF TranscriptTypeOK
<1>3. ASSUME Len(log') <= MaxMessages, link' \in {"down", "served", "open"},
             paging' \in [Threads -> Paging], backfillError' \in BOOLEAN,
             booted' \in BOOLEAN, beyond' \subseteq Posted',
             breaks' \in 0..MaxBreaks, failed' \in 0..MaxBreaks + 1, fails' \in 0..MaxFails
      PROVE  RestTyped'
  BY <1>3 DEF RestTyped
<1>4. beyond \subseteq Posted'
  BY <1>2 DEF Grown
<1>5. ASSUME NEW t \in Threads, Push(t) PROVE RestTyped'
  <2>1. PICK n, ts, mine : Pushed(n, t, ts, mine)
    BY <1>5, PushExtends DEF LineInv
  <2>2. Len(log') <= MaxMessages
    <3>1. n \in Nat /\ n = Len(log) /\ Len(log') = n + 1 /\ n < MaxMessages /\ MaxMessages \in Nat
      BY <1>5, <2>1, BoundAssumption DEF Pushed, Push
    <3> QED
      BY <3>1
  <2> QED
    BY <1>2, <1>3, <1>4, <1>5, <2>2 DEF Push
<1>6. CASE Serve \/ Open
  BY <1>2, <1>3, <1>4, <1>6 DEF Serve, Open
<1>7. CASE Receive
  BY <1>2, <1>3, <1>4, <1>7 DEF Receive
<1>8. CASE Break
  <2>1. breaks' \in 0..MaxBreaks
    BY <1>2, <1>8, BoundAssumption DEF Break
  <2> QED
    BY <1>2, <1>3, <1>4, <1>8, <2>1 DEF Break
<1>9. ASSUME NEW t \in Threads, Hydrate(t) \/ LoadOlder(t) PROVE RestTyped'
  <2>1. PICK r : r = paging[t]
    OBVIOUS
  <2>2. r \in Paging
    BY <1>2, <2>1
  <2>3. /\ [r EXCEPT !.loading = TRUE] \in Paging
        /\ [r EXCEPT !.hydrated = TRUE, !.exhausted = TRUE] \in Paging
    BY <2>2 DEF Paging
  <2>4. \/ paging' = [paging EXCEPT ![t] = [r EXCEPT !.loading = TRUE]]
        \/ paging' = [paging EXCEPT ![t] = [r EXCEPT !.hydrated = TRUE, !.exhausted = TRUE]]
    <3>1. CASE paging' = [paging EXCEPT ![t].loading = TRUE]
      BY <1>2, <2>1, <3>1
    <3>2. CASE paging' = [paging EXCEPT ![t].hydrated = TRUE, ![t].exhausted = TRUE]
      BY <1>2, <2>1, <2>2, <3>2 DEF Paging
    <3> QED
      BY <1>9, <3>1, <3>2 DEF Hydrate, LoadOlder
  <2>5. paging' \in [Threads -> Paging]
    BY <1>2, <2>3, <2>4
  <2>6. UNCHANGED <<log, link, backfillError, booted, beyond, breaks, failed, fails>>
    BY <1>9 DEF Hydrate, LoadOlder
  <2> QED
    BY <1>2, <1>3, <1>4, <2>5, <2>6
<1>10. \A S : OutOfReach(S) \subseteq S
  BY DEF OutOfReach
<1>11. \A S, n : Latest(S, n) \subseteq S
  BY DEF Latest
<1>12. ASSUME NEW f \in fetches, Answer(f) PROVE RestTyped'
  <2>1. f.kind \in {"boot", "backfill", "page"}
    BY <1>12, RequestFacts DEF FetchInv, FetchRight
  <2>2. LeftOut(f) \subseteq Posted
    BY <1>10, <2>1 DEF LeftOut, Of
  <2>3. /\ UNCHANGED <<log, link, paging, backfillError, booted, breaks, failed, fails>>
        /\ beyond' = beyond \cup LeftOut(f)
    BY <1>12 DEF Answer
  <2> QED
    BY <1>2, <1>3, <1>4, <2>2, <2>3 DEF Grown
<1>13. ASSUME NEW f \in fetches, Arrive(f) PROVE RestTyped'
  <2>1. UNCHANGED <<log, link, failed, breaks, fails>>
    BY <1>13 DEF Arrive
  <2>2. CASE BootArrives(f)
    BY <1>2, <1>3, <1>4, <2>1, <2>2 DEF BootArrives
  <2>3. CASE BackfillArrives(f)
    <3>1. beyond' \subseteq Posted'
      BY <1>4, <1>10, <1>11, <2>3 DEF BackfillArrives, Grown
    <3> QED
      BY <1>2, <1>3, <2>1, <2>3, <3>1 DEF BackfillArrives
  <2>4. CASE PageArrives(f)
    <3>1. f \in Request /\ f.kind = "page"
      BY <1>13, <2>4 DEF FetchInv, FetchRight, PageArrives
    <3>2. f.thread \in Threads /\ f.first \in BOOLEAN
      BY <3>1, RequestFacts, ThreadsAssumption
    <3>3. paging[f.thread].hydrated \in BOOLEAN
      BY <1>2, <3>2 DEF Paging
    <3>4. PICK r : r = [loading |-> FALSE, exhausted |-> Cardinality(f.page) < PageSize,
                        hydrated |-> paging[f.thread].hydrated \/ f.first]
      OBVIOUS
    <3>5. r \in Paging
      <4>1. /\ (Cardinality(f.page) < PageSize) \in BOOLEAN
            /\ (paging[f.thread].hydrated \/ f.first) \in BOOLEAN
        OBVIOUS
      <4> QED
        BY <3>4, <4>1 DEF Paging
    <3>6. paging' = [paging EXCEPT ![f.thread] = r]
      BY <2>4, <3>4 DEF PageArrives
    <3>7. paging' \in [Threads -> Paging]
      BY <1>2, <3>5, <3>6
    <3> QED
      BY <1>2, <1>3, <1>4, <2>1, <2>4, <3>7 DEF PageArrives
  <2> QED
    BY <1>13, <2>2, <2>3, <2>4 DEF Arrive
<1>14. ASSUME NEW f \in fetches, Fail(f) PROVE RestTyped'
  <2>1. UNCHANGED <<log, link, beyond, breaks>>
    BY <1>14 DEF Fail
  <2>2. fails' \in 0..MaxFails
    BY <1>2, <1>14, BoundAssumption DEF Fail
  <2>3. failed' \in 0..MaxBreaks + 1
    <3>1. f.kind = "backfill" => f.connection \in 1..breaks + 1
      BY <1>14 DEF FetchInv, FetchRight, IsBackfill
    <3>2. failed' = failed \/ failed' \in 1..breaks + 1
      BY <1>14, <3>1 DEF Fail
    <3> QED
      BY <1>2, <3>2, BoundAssumption
  <2>4. backfillError' \in BOOLEAN /\ booted' \in BOOLEAN
    BY <1>14 DEF Fail
  <2>5. paging' \in [Threads -> Paging]
    <3>1. CASE f.kind # "page"
      BY <1>2, <1>14, <3>1 DEF Fail
    <3>2. CASE f.kind = "page"
      <4>1. f.thread \in Threads
        BY <1>14, <3>2, RequestFacts, ThreadsAssumption DEF FetchInv, FetchRight
      <4>2. PICK r, s : r = paging[f.thread] /\ s = [r EXCEPT !.loading = FALSE]
        OBVIOUS
      <4>3. s \in Paging
        BY <1>2, <4>1, <4>2 DEF Paging
      <4>4. paging' = [paging EXCEPT ![f.thread] = s]
        BY <1>2, <1>14, <3>2, <4>1, <4>2 DEF Fail
      <4> QED
        BY <1>2, <4>3, <4>4
    <3> QED
      BY <3>1, <3>2
  <2> QED
    BY <1>2, <1>3, <1>4, <2>1, <2>2, <2>3, <2>4, <2>5
<1>15. CASE UNCHANGED transcriptVars
  BY <1>2, <1>3, <1>4, <1>15 DEF transcriptVars
<1> QED
  BY <1>5, <1>6, <1>7, <1>8, <1>9, <1>12, <1>13, <1>14, <1>15 DEF TranscriptNext

-----------------------------------------------------------------------------
(* What is missing.  A message is deep when no backfill will bring it and the *)
(* pages of its thread still can: it is none of the latest, older than all the *)
(* thread holds, and each answer under way has it, or nothing older than it   *)
(* and no end of the thread.  With the socket open and its backfill answered, *)
(* each message is held, on the wire, in that answer, deep, or written off.   *)

NothingOlder(f, t, m) ==
  /\ \A k \in f.page \cap Of(t) : Ts(m) <= Ts(k)
  /\ f.kind = "page" /\ f.thread = t => ~(Cardinality(f.page) < PageSize)

Fits(f, t, m) == f.page = Asked \/ m \in f.page \/ NothingOlder(f, t, m)

Bottom(t, m) ==
  /\ m \notin Latest(Posted, BackfillLimit)
  /\ t \in Paged => ~paging[t].exhausted
  /\ \A k \in Held(t) : Ts(m) <= Ts(k)

Deep(t, m) == Bottom(t, m) /\ \A f \in fetches : Fits(f, t, m)

Awaited(m) == \E f \in fetches : Current(f) /\ m \in f.page

\* The backfill of this connection is answered, and did not fail unnoticed.
CaughtUp ==
  /\ link = "open"
  /\ failed # breaks + 1 \/ ~backfillError
  /\ \A f \in fetches : Current(f) => f.page # Asked

Missed(t, m) ==
  m \in Of(t) /\ m \in Mine /\ m \notin Held(t) /\ m \notin beyond /\ m \notin OnWire

MissInv == CaughtUp => \A t \in Threads : \A m : Missed(t, m) => Deep(t, m) \/ Awaited(m)

ViewInv == TranscriptTypeOK /\ LineInv /\ StoreInv /\ FetchInv

\* Of the messages of the log, the later has the later time.
LEMMA LaterIsLater ==
  ASSUME LineInv, NEW m \in Posted, NEW k \in Posted, m <= k
  PROVE  Ts(m) <= Ts(k)
  BY DEF LineInv, LogOrdered

LEMMA LatestOfLog ==
  ASSUME LineInv, NEW n \in Nat
  PROVE  LatestFacts(Posted, n)
<1>1. PICK P : P = Posted
  OBVIOUS
<1>2. IsFiniteSet(P) /\ P \subseteq Int
  BY <1>1, PostedDated DEF LineInv
<1>3. LatestFacts(P, n)
  BY <1>2, LatestAreNewest
<1> QED
  BY <1>1, <1>3

\* What was not among the latest is not among them after a push.
LEMMA LatestStays ==
  ASSUME ViewInv, Grown, LineInv', NEW m \in Posted, m \notin Latest(Posted, BackfillLimit)
  PROVE  m \notin Latest(Posted, BackfillLimit)'
<1>1. PICK P, Q : P = Posted /\ Q = Posted'
  OBVIOUS
<1>2. IsFiniteSet(Q)
  <2>1. PICK n : n = Len(log')
    OBVIOUS
  <2>2. n \in Nat
    BY <2>1, LenProperties DEF LineInv, Logged
  <2>3. 1 \in Int /\ n \in Int
    BY <2>2
  <2>4. IsFiniteSet(1..n)
    BY <2>3, FS_Interval
  <2> QED
    BY <1>1, <2>1, <2>4 DEF Posted
<1>3. P \subseteq Q
  BY <1>1 DEF Grown
<1>4. m \in P \ Latest(P, BackfillLimit)
  BY <1>1
<1>5. BackfillLimit \in Nat
  BY LimitsAssumption
<1>6. m \notin Latest(Q, BackfillLimit)
  BY <1>2, <1>3, <1>4, <1>5, LatestPasses
<1> QED
  BY <1>1, <1>6 DEF Latest

\* What an answer has of a thread is logged already.
LEMMA FitsStays ==
  ASSUME Grown, NEW f, FetchRight(f), NEW t, NEW m \in Posted, Fits(f, t, m)
  PROVE  Fits(f, t, m)'
<1>1. CASE f.page = Asked \/ m \in f.page
  BY <1>1 DEF Fits
<1>2. CASE f.page \subseteq Posted /\ NothingOlder(f, t, m)
  <2>1. ASSUME NEW k \in f.page \cap Of(t)' PROVE Ts(m)' <= Ts(k)'
    <3>1. k \in Posted /\ log'[k] = log[k] /\ Ts(k)' = Ts(k) /\ Ts(m)' = Ts(m)
      BY <1>2 DEF Grown
    <3>2. k \in Of(t)
      BY <2>1, <3>1 DEF Of
    <3>3. Ts(m) <= Ts(k)
      BY <1>2, <3>2 DEF NothingOlder
    <3> QED
      BY <3>1, <3>3
  <2> QED
    BY <1>2, <2>1 DEF Fits, NothingOlder
<1> QED
  BY <1>1, <1>2 DEF Fits, FetchRight

\* What keeps a deep message deep.
LEMMA StillDeep ==
  ASSUME ViewInv, Grown, LineInv', NEW t \in Threads, NEW m \in Of(t), Deep(t, m),
         t \in Paged => ~paging'[t].exhausted,
         \A k \in Held(t)' : k \in Held(t) \/ Ts(m) <= Ts(k),
         UNCHANGED log \/ Held(t)' = Held(t),
         \A f \in fetches' : f \in fetches \/ Fits(f, t, m)'
  PROVE  Deep(t, m)'
<1>1. m \in Posted
  BY DEF Of
<1>2. m \notin Latest(Posted, BackfillLimit)'
  BY <1>1, LatestStays DEF Deep, Bottom
<1>3. ASSUME NEW k \in Held(t)' PROVE Ts(m)' <= Ts(k)'
  <2>1. Ts(m) <= Ts(k)
    BY <1>3 DEF Deep, Bottom
  <2>2. Ts(m)' = Ts(m) /\ Ts(k)' = Ts(k)
    <3>1. CASE UNCHANGED log
      BY <3>1 DEF Ts
    <3>2. CASE Held(t)' = Held(t)
      <4>1. k \in Posted
        BY <1>3, <3>2, HeldArePosted DEF HeldPosted, ViewInv
      <4> QED
        BY <1>1, <4>1 DEF Grown
    <3> QED
      BY <3>1, <3>2
  <2> QED
    BY <2>1, <2>2
<1>4. ASSUME NEW f \in fetches' PROVE Fits(f, t, m)'
  <2>1. CASE f \in fetches
    <3>1. FetchRight(f) /\ Fits(f, t, m)
      BY <2>1 DEF ViewInv, FetchInv, Deep
    <3> QED
      BY <1>1, <3>1, FitsStays
  <2> QED
    BY <1>4, <2>1
<1>5. Bottom(t, m)'
  BY <1>2, <1>3 DEF Bottom
<1> QED
  BY <1>4, <1>5 DEF Deep

\* A message pushed to an open socket is on the wire.
LEMMA MissPush ==
  ASSUME ViewInv, MissInv, Grown, LineInv', NEW u \in Threads, Push(u)
  PROVE  MissInv'
<1> SUFFICES ASSUME CaughtUp', NEW t \in Threads, NEW m, Missed(t, m)'
             PROVE  Deep(t, m)' \/ Awaited(m)'
  BY DEF MissInv
<1>1. UNCHANGED <<link, fetches, store, paging, backfillError, beyond, failed, breaks>>
  BY DEF Push
<1>2. CaughtUp /\ link = "open"
  BY <1>1 DEF CaughtUp, Current, IsBackfill
<1>3. PICK n, ts, mine : Pushed(n, u, ts, mine)
  BY PushExtends DEF ViewInv, LineInv
<1>4. /\ n = Len(log) /\ n \in Nat /\ Posted = 1..n /\ Posted' = 1..n + 1
      /\ \A k \in 1..n : log'[k] = log[k]
      /\ log'[n + 1] = [ts |-> ts, thread |-> u, mine |-> mine]
  BY <1>3 DEF Pushed
<1>5. OnWire' = IF mine THEN OnWire \cup {n + 1} ELSE OnWire
  <2> SUFFICES ASSUME mine PROVE OnWire' = OnWire \cup {n + 1}
    BY <1>3 DEF Pushed, OnWire
  <2>1. PICK w, P, e, x : w = wire /\ P = Posted' /\ e = n + 1 /\ x = wire'
    OBVIOUS
  <2>2. x = Append(w, e)
    BY <1>2, <1>3, <2>1 DEF Pushed
  <2>3. w \in Seq(P) /\ e \in P
    <3>1. PICK Q, c : Q = Posted /\ c = Len(w) /\ c \in Nat /\ w \in [1..c -> Q]
      BY <2>1, LenProperties DEF ViewInv, LineInv, WireInOrder
    <3>2. Q \subseteq P /\ e \in P
      BY <1>4, <2>1, <3>1
    <3>3. w \in [1..c -> P]
      BY <3>1, <3>2
    <3> QED
      BY <3>1, <3>2, <3>3, SeqDef
  <2>4. PICK c \in Nat : c = Len(w)
    BY <2>3, LenProperties
  <2>5. Len(x) = c + 1 /\ (\A i \in 1..c : x[i] = w[i]) /\ x[c + 1] = e
    BY ONLY <2>2, <2>3, <2>4, AppendProperties
  <2>6. {x[i] : i \in 1..c + 1} = {w[i] : i \in 1..c} \cup {e}
    <3>1. \A i \in 1..c + 1 : i \in 1..c \/ i = c + 1
      BY <2>4
    <3>2. c + 1 \in 1..c + 1 /\ \A i \in 1..c : i \in 1..c + 1
      BY <2>4
    <3>3. \A i \in 1..c + 1 : x[i] \in {w[j] : j \in 1..c} \cup {e}
      BY <2>5, <3>1
    <3>4. \A i \in 1..c : w[i] \in {x[j] : j \in 1..c + 1}
      BY <2>5, <3>2
    <3>5. e \in {x[j] : j \in 1..c + 1}
      BY <2>5, <3>2
    <3> QED
      BY <3>3, <3>4, <3>5
  <2> QED
    BY <2>1, <2>4, <2>5, <2>6 DEF OnWire
<1>6. Held(t)' = Held(t)
  BY <1>1 DEF Held
<1>7. m \in Of(t) /\ Missed(t, m)
  <2>1. /\ m \in Posted' /\ log'[m].thread = t /\ log'[m].mine
        /\ m \notin OnWire' /\ m \notin Held(t) /\ m \notin beyond
    BY <1>1, <1>6 DEF Missed, Of, Mine
  <2>2. m # n + 1
    <3>1. ASSUME m = n + 1 PROVE FALSE
      <4>1. mine
        BY <1>4, <2>1, <3>1
      <4> QED
        BY <1>5, <2>1, <3>1, <4>1
    <3> QED
      BY <3>1
  <2>3. m \in Posted
    BY <1>4, <2>1, <2>2
  <2>4. log[m].thread = t /\ log[m].mine /\ m \notin OnWire
    BY <1>4, <1>5, <2>1, <2>3
  <2> QED
    BY <2>1, <2>3, <2>4 DEF Missed, Of, Mine
<1>8. CASE Deep(t, m)
  <2>1. t \in Paged => ~paging'[t].exhausted
    BY <1>1, <1>8 DEF Deep, Bottom
  <2> QED
    BY <1>1, <1>6, <1>7, <1>8, <2>1, StillDeep
<1>9. CASE Awaited(m)
  BY <1>1, <1>9 DEF Awaited, Current, IsBackfill
<1> QED
  BY <1>2, <1>7, <1>8, <1>9 DEF MissInv

\* A frame that arrives is no older than what is neither on the wire nor held.
LEMMA MissReceive ==
  ASSUME ViewInv, MissInv, Grown, LineInv', Receive
  PROVE  MissInv'
<1> SUFFICES ASSUME CaughtUp', NEW t \in Threads, NEW m, Missed(t, m)'
             PROVE  Deep(t, m)' \/ Awaited(m)'
  BY DEF MissInv
<1>1. UNCHANGED <<log, link, fetches, paging, backfillError, beyond, failed, breaks>>
  BY DEF Receive
<1>2. CaughtUp
  BY <1>1 DEF CaughtUp, Current, IsBackfill
<1>3. PICK w, P, h, c : w = wire /\ P = Posted /\ h = Head(w) /\ c = Len(w)
  OBVIOUS
<1>4. w \in Seq(P) /\ w # <<>> /\ c \in Nat
  BY <1>3, LenProperties DEF ViewInv, LineInv, WireInOrder, Receive
<1>5. c # 0 /\ h = w[1]
  BY <1>3, <1>4, EmptySeq
<1>6. h \in Posted /\ h \in OnWire
  <2>1. 1 \in 1..c
    BY <1>4, <1>5
  <2> QED
    BY <1>3, <1>4, <1>5, <2>1, ElementOfSeq DEF OnWire
<1>7. OnWire = {h} \cup OnWire'
  <2>1. PICK x : x = wire' /\ x = Tail(w)
    BY <1>3 DEF Receive
  <2>2. Len(x) = c - 1 /\ \A i \in 1..c - 1 : x[i] = w[i + 1]
    BY ONLY <1>3, <1>4, <2>1, HeadTailProperties
  <2>3. {w[i] : i \in 1..c} = {h} \cup {x[i] : i \in 1..c - 1}
    <3>1. 1 \in 1..c /\ \A i \in 1..c - 1 : i + 1 \in 1..c
      BY <1>4, <1>5
    <3>2. \A i \in 1..c : i = 1 \/ (i - 1 \in 1..c - 1 /\ (i - 1) + 1 = i)
      BY <1>4
    <3>3. ASSUME NEW i \in 1..c PROVE w[i] \in {h} \cup {x[j] : j \in 1..c - 1}
      <4>1. CASE i - 1 \in 1..c - 1
        <5>1. x[i - 1] = w[i]
          BY <2>2, <3>2, <4>1
        <5> QED
          BY <4>1, <5>1
      <4> QED
        BY <1>5, <3>2, <4>1
    <3>4. h \in {w[i] : i \in 1..c}
      BY <1>5, <3>1
    <3>5. \A i \in 1..c - 1 : x[i] \in {w[j] : j \in 1..c}
      BY <2>2, <3>1
    <3> QED
      BY <3>3, <3>4, <3>5
  <2> QED
    BY <1>3, <2>1, <2>2, <2>3 DEF OnWire
<1>8. Held(t)' = Held(t) \cup ({h} \cap Of(t))
  <2>1. store'[t] = Appended(t, {h})
    BY <1>3 DEF Receive
  <2>2. Held(t)' = Members(store'[t])
    BY DEF Held, Members
  <2> QED
    BY <2>1, <2>2, Merges DEF ViewInv
<1>9. m \in Of(t) /\ Missed(t, m)
  <2>1. /\ m \in Of(t) /\ m \in Mine
        /\ m \notin beyond /\ m \notin OnWire' /\ m \notin Held(t)'
    BY <1>1 DEF Missed, Of, Mine, Posted
  <2>2. m # h
    BY <1>8, <2>1
  <2> QED
    BY <1>7, <1>8, <2>1, <2>2 DEF Missed
<1>10. Ts(m) <= Ts(h)
  <2>1. m \in Posted /\ m \in Mine /\ m \notin OnWire
    BY <1>9 DEF Missed, Of
  <2>2. ~(h < m)
    <3>1. 1 \in 1..Len(wire) /\ wire[1] = h
      BY <1>3, <1>4, <1>5
    <3> QED
      BY <2>1, <3>1 DEF ViewInv, LineInv, WireInOrder
  <2>3. m <= h
    <3>1. m \in Int /\ h \in Int
      BY <1>6, <2>1, PostedDated DEF ViewInv, LineInv
    <3> QED
      BY <2>2, <3>1
  <2> QED
    BY <1>6, <2>1, <2>3, LaterIsLater DEF ViewInv
<1>11. CASE Deep(t, m)
  <2>1. t \in Paged => ~paging'[t].exhausted
    BY <1>1, <1>11 DEF Deep, Bottom
  <2> QED
    BY <1>1, <1>8, <1>9, <1>10, <1>11, <2>1, StillDeep
<1>12. CASE Awaited(m)
  BY <1>1, <1>12 DEF Awaited, Current, IsBackfill
<1> QED
  BY <1>2, <1>9, <1>11, <1>12 DEF MissInv

\* A connection that opens has its backfill to wait for.
LEMMA MissConnection ==
  ASSUME ViewInv, Serve \/ Open \/ Break
  PROVE  MissInv'
<1>1. CASE Serve \/ Break
  <2>1. link' # "open"
    BY <1>1 DEF Serve, Break
  <2> QED
    BY <2>1 DEF MissInv, CaughtUp
<1>2. CASE Open
  <2>1. Backfill \in fetches' /\ breaks' = breaks
    BY <1>2 DEF Open, Opened
  <2>2. Backfill.kind = "backfill" /\ Backfill.connection = breaks + 1 /\ Backfill.page = Asked
    BY DEF Backfill
  <2> QED
    BY <2>1, <2>2 DEF MissInv, CaughtUp, Current, IsBackfill
<1> QED
  BY <1>1, <1>2

\* A request brings nothing before it is served.
LEMMA MissAsk ==
  ASSUME ViewInv, MissInv, Grown, LineInv',
         UNCHANGED transcriptVars \/ \E t \in Threads : Hydrate(t) \/ LoadOlder(t)
  PROVE  MissInv'
<1> SUFFICES ASSUME CaughtUp', NEW t \in Threads, NEW m, Missed(t, m)'
             PROVE  Deep(t, m)' \/ Awaited(m)'
  BY DEF MissInv
<1>1. UNCHANGED <<log, link, wire, store, backfillError, beyond, failed, breaks>>
  BY DEF transcriptVars, Hydrate, LoadOlder
<1>2. /\ fetches \subseteq fetches'
      /\ \A f \in fetches' : f \in fetches \/ (f.page = Asked /\ f.kind = "page")
  <2>1. CASE UNCHANGED fetches
    BY <2>1
  <2>2. ASSUME NEW u \in Threads, NEW b, NEW first, fetches' = fetches \cup {Page(u, b, first)}
        PROVE  /\ fetches \subseteq fetches'
               /\ \A f \in fetches' : f \in fetches \/ (f.page = Asked /\ f.kind = "page")
    <3>1. Page(u, b, first).page = Asked /\ Page(u, b, first).kind = "page"
      BY DEF Page
    <3> QED
      BY <2>2, <3>1
  <2>3. ASSUME NEW u \in Threads, LoadOlder(u)
        PROVE  \E b : fetches' = fetches \cup {Page(u, b, FALSE)}
    BY <2>3 DEF LoadOlder
  <2> QED
    BY <2>1, <2>2, <2>3 DEF transcriptVars, Hydrate
<1>3. t \in Paged => paging'[t].exhausted = paging[t].exhausted
  <2>1. CASE UNCHANGED transcriptVars
    BY <2>1 DEF transcriptVars
  <2>2. ASSUME NEW u \in Threads, Hydrate(u) \/ LoadOlder(u)
        PROVE  t \in Paged => paging'[t].exhausted = paging[t].exhausted
    <3>0. paging \in [Threads -> Paging]
      BY DEF ViewInv, TranscriptTypeOK
    <3>1. CASE u \in Paged /\ paging' = [paging EXCEPT ![u].loading = TRUE]
      <4>1. paging'[t] = IF t = u THEN [paging[t] EXCEPT !.loading = TRUE] ELSE paging[t]
        BY <3>0, <3>1
      <4> QED
        BY <3>0, <4>1 DEF Paging
    <3>2. CASE /\ u \notin Paged
               /\ paging' = [paging EXCEPT ![u].hydrated = TRUE, ![u].exhausted = TRUE]
      <4>1. t # u => paging'[t] = paging[t]
        BY <3>0, <3>2
      <4> QED
        BY <3>2, <4>1
    <3> QED
      BY <2>2, <3>1, <3>2 DEF Hydrate, LoadOlder
  <2> QED
    BY <2>1, <2>2
<1>4. CaughtUp
  BY <1>1, <1>2 DEF CaughtUp, Current, IsBackfill
<1>5. Missed(t, m) /\ m \in Of(t) /\ Held(t)' = Held(t)
  BY <1>1 DEF Missed, Of, Mine, Posted, Held, OnWire
<1>6. CASE Deep(t, m)
  <2>1. t \in Paged => ~paging'[t].exhausted
    BY <1>3, <1>6 DEF Deep, Bottom
  <2>2. \A f \in fetches' : f \in fetches \/ Fits(f, t, m)'
    BY <1>2 DEF Fits
  <2> QED
    BY <1>1, <1>5, <1>6, <2>1, <2>2, StillDeep
<1>7. CASE Awaited(m)
  BY <1>1, <1>2, <1>7 DEF Awaited, Current, IsBackfill
<1> QED
  BY <1>4, <1>5, <1>6, <1>7 DEF MissInv

\* A thread whose message is out of reach of no page holds nothing as old, awaits
\* nothing as old, and has an end no answer has told.
LEMMA WithinReach ==
  ASSUME ViewInv, NEW S, NEW t \in Threads, NEW m \in Of(t), m \in S,
         m \notin Held(t), m \notin OutOfReach(S)
  PROVE  /\ ~paging[t].exhausted
         /\ \A k \in Held(t) : Ts(m) <= Ts(k)
         /\ \A f \in fetches : \A k \in f.page \cap Of(t) : Ts(m) <= Ts(k)
         /\ \A f \in fetches : f.page = Asked \/ NothingOlder(f, t, m)
<1>1. log[m].thread = t
  BY DEF Of
<1>2. m \notin AllHeld
  <2>1. ASSUME NEW u \in Threads, m \in Held(u) PROVE FALSE
    <3>1. m \in Of(u)
      BY <2>1, HeldArePosted DEF HeldPosted, ViewInv
    <3> QED
      BY <1>1, <2>1, <3>1 DEF Of
  <2> QED
    BY <2>1 DEF AllHeld
<1>3. ~Ends(t) /\ \A k \in Known(t) : ~(Ts(k) <= Ts(m))
  BY <1>1, <1>2 DEF OutOfReach
<1>4. ASSUME NEW k \in Known(t) PROVE Ts(m) <= Ts(k)
  <2>1. k \in Posted /\ m \in Posted
    BY HeldArePosted DEF HeldPosted, ViewInv, Known, Of
  <2>2. PICK a, b : a = Ts(k) /\ b = Ts(m)
    OBVIOUS
  <2>3. a \in Int /\ b \in Int
    BY <2>1, <2>2, PostedDated DEF Dated, ViewInv, LineInv
  <2>4. ~(a <= b)
    BY <1>3, <2>2
  <2> QED
    BY <2>2, <2>3, <2>4
<1>5. \A k \in Held(t) : Ts(m) <= Ts(k)
  BY <1>4 DEF Known
<1>6. ASSUME NEW f \in fetches, NEW k \in f.page \cap Of(t) PROVE Ts(m) <= Ts(k)
  BY <1>4, <1>6 DEF Known
<1>7. ~paging[t].exhausted
  BY <1>3 DEF Ends
<1>8. ASSUME NEW f \in fetches, f.page # Asked PROVE NothingOlder(f, t, m)
  BY <1>3, <1>6, <1>8 DEF Ends, NothingOlder
<1> QED
  BY <1>5, <1>6, <1>7, <1>8

\* What a window of the whole log leaves out is older than all it has.
LEMMA LogWindow ==
  ASSUME LineInv, NEW n \in Nat, NEW g, g.page = Latest(Posted, n), g.kind # "page",
         NEW t, NEW m \in Posted
  PROVE  m \in g.page \/ NothingOlder(g, t, m)
<1>1. LatestFacts(Posted, n)
  BY LatestOfLog
<1>2. ASSUME m \notin g.page, NEW k \in g.page PROVE Ts(m) <= Ts(k)
  <2>1. k \in Posted /\ m < k
    BY <1>1, <1>2 DEF LatestFacts
  <2>2. m \in Int /\ k \in Int
    BY <2>1, PostedDated DEF LineInv
  <2>3. m <= k
    BY <2>1, <2>2
  <2> QED
    BY <2>1, <2>3, LaterIsLater
<1> QED
  BY <1>2 DEF NothingOlder

\* A page of the thread leaves out only older messages, and is then full, and those
\* of the very time it ends at.
LEMMA PageWindow ==
  ASSUME ViewInv, NEW u \in Threads, NEW before \in Int,
         before = Never \/ \E k \in Held(u) : Ts(k) = before,
         NEW g, g.page = Latest({x \in Of(u) : Ts(x) < before}, PageSize), g.thread = u,
         NEW t \in Threads, NEW m \in Of(t), Deep(t, m),
         t = u => Ts(m) # before
  PROVE  m \in g.page \/ NothingOlder(g, t, m)
<1>1. PICK C, W : C = {x \in Of(u) : Ts(x) < before} /\ W = Latest(C, PageSize)
  OBVIOUS
<1>2. PageSize \in Nat
  BY LimitsAssumption
<1>3. IsFiniteSet(C) /\ C \subseteq Int /\ C \subseteq Posted
  <2>1. PICK P : P = Posted
    OBVIOUS
  <2>2. C \in SUBSET P
    BY <1>1, <2>1 DEF Of
  <2>3. IsFiniteSet(P) /\ P \subseteq Int
    BY <2>1, PostedDated DEF ViewInv, LineInv
  <2>4. IsFiniteSet(C)
    BY <2>2, <2>3, FS_Subset
  <2> QED
    BY <2>1, <2>2, <2>3, <2>4
<1>4. LatestFacts(C, PageSize)
  BY <1>2, <1>3, LatestAreNewest
<1>5. W \subseteq C /\ (\A j \in C \ W, k \in W : j < k) /\ (Cardinality(W) < PageSize => W = C)
  BY <1>1, <1>4 DEF LatestFacts
<1>6. g.page = W
  BY <1>1
<1>7. CASE t # u
  <2>1. W \cap Of(t) = {}
    BY <1>1, <1>5, <1>7 DEF Of
  <2> QED
    BY <1>6, <1>7, <2>1 DEF NothingOlder
<1>8. CASE t = u
  <2>1. m \in Posted /\ Ts(m) \in Int
    BY PostedDated DEF Dated, Of, ViewInv, LineInv
  <2>2. Ts(m) <= before
    <3>1. CASE before = Never
      <4>1. PICK l, M : l = log /\ M = [ts : 1..MaxTs, thread : Threads, mine : BOOLEAN]
        OBVIOUS
      <4>2. l \in Seq(M) /\ m \in 1..Len(l)
        BY <2>1, <4>1 DEF ViewInv, LineInv, Logged, Posted
      <4>3. l[m] \in M
        BY ONLY <4>2, ElementOfSeq
      <4>4. Ts(m) \in 1..MaxTs /\ MaxTs \in Nat
        BY <4>1, <4>3, BoundAssumption DEF Ts
      <4> QED
        BY <3>1, <4>4 DEF Never
    <3>2. ASSUME NEW k \in Held(u), Ts(k) = before PROVE Ts(m) <= before
      BY <1>8, <3>2 DEF Deep, Bottom
    <3> QED
      BY <3>1, <3>2
  <2>3. Ts(m) < before
    <3>1. PICK a : a = Ts(m)
      OBVIOUS
    <3>2. a \in Int /\ a <= before /\ a # before
      BY <1>8, <2>1, <2>2, <3>1
    <3> QED
      BY <3>1, <3>2
  <2>4. m \in C
    BY <1>1, <1>8, <2>3
  <2>5. CASE m \in W
    BY <1>6, <2>5
  <2>6. CASE m \notin W
    <3>1. ~(Cardinality(W) < PageSize)
      BY <1>5, <2>4, <2>6
    <3>2. ASSUME NEW k \in W PROVE Ts(m) <= Ts(k)
      <4>1. m < k /\ k \in Posted
        BY <1>3, <1>5, <2>4, <2>6
      <4>2. m \in Int /\ k \in Int
        BY <2>1, <4>1, PostedDated DEF ViewInv, LineInv
      <4>3. m <= k
        BY <4>1, <4>2
      <4> QED
        BY <2>1, <4>1, <4>3, LaterIsLater DEF ViewInv
    <3> QED
      BY <1>6, <3>1, <3>2 DEF NothingOlder
  <2> QED
    BY <2>5, <2>6
<1> QED
  BY <1>7, <1>8

\* An answer is served: of this connection's backfill, all it has not is deep.
LEMMA MissAnswer ==
  ASSUME ViewInv, MissInv, Grown, LineInv', NEW f \in fetches, Answer(f)
  PROVE  MissInv'
<1> SUFFICES ASSUME CaughtUp', NEW t \in Threads, NEW m, Missed(t, m)'
             PROVE  Deep(t, m)' \/ Awaited(m)'
  BY DEF MissInv
<1>1. PICK W, g : W = Window(f) /\ g = [f EXCEPT !.page = W]
  OBVIOUS
<1>2. /\ UNCHANGED <<log, link, wire, store, paging, backfillError, failed, breaks>>
      /\ fetches' = (fetches \ {f}) \cup {g} /\ beyond' = beyond \cup LeftOut(f) /\ f.page = Asked
  BY <1>1 DEF Answer
<1>3. FetchRight(f) /\ f \in Request
  BY DEF ViewInv, FetchInv, FetchRight
<1>4. Answered(g, f, W)
  <2>1. W \subseteq Posted
    BY <1>1, <1>3, WindowPosted, RequestFacts
  <2>2. Posted \subseteq Nat
    BY LenProperties DEF Posted, ViewInv, LineInv, Logged
  <2>3. W \in SUBSET Nat
    BY <2>1, <2>2
  <2> QED
    BY <1>1, <1>3, <2>3, AnswerFacts
<1>5. g.page = W /\ g.kind = f.kind /\ (f.kind = "backfill" => g.connection = f.connection)
      /\ (f.kind = "page" => g.thread = f.thread /\ g.before = f.before)
  BY <1>4 DEF Answered
<1>6. Held(t)' = Held(t) /\ Missed(t, m) /\ m \in Of(t) /\ m \in Posted /\ m \notin LeftOut(f)
  BY <1>2 DEF Held, Missed, Of, Mine, Posted, OnWire
<1>7. Fits(g, t, m) => Fits(g, t, m)'
  BY <1>2 DEF Fits, NothingOlder, Of, Posted, Ts
<1>8. ASSUME Deep(t, m), Fits(g, t, m) PROVE Deep(t, m)'
  <2>1. t \in Paged => ~paging'[t].exhausted
    BY <1>2, <1>8 DEF Deep, Bottom
  <2>2. \A h \in fetches' : h \in fetches \/ Fits(h, t, m)'
    BY <1>2, <1>7, <1>8
  <2> QED
    BY <1>2, <1>6, <1>8, <2>1, <2>2, StillDeep
<1>9. CASE Current(f)
  <2>1. /\ f.kind = "backfill" /\ W = Latest(Posted, BackfillLimit)
        /\ LeftOut(f) = OutOfReach(Posted \ W)
    BY <1>1, <1>9 DEF Current, IsBackfill, Window, LeftOut
  <2>2. CASE m \in W
    <3>1. Current(g)' /\ g \in fetches'
      BY <1>2, <1>5, <1>9, <2>1 DEF Current, IsBackfill
    <3> QED
      BY <1>5, <2>2, <3>1 DEF Awaited
  <2>3. CASE m \notin W
    <3>1. m \in Posted \ W /\ m \notin OutOfReach(Posted \ W) /\ m \notin Held(t)
      BY <1>6, <2>1, <2>3 DEF Missed
    <3>2. /\ ~paging[t].exhausted /\ \A k \in Held(t) : Ts(m) <= Ts(k)
          /\ \A h \in fetches : h.page = Asked \/ NothingOlder(h, t, m)
      BY <1>6, <3>1, WithinReach
    <3>3. Deep(t, m)
      BY <2>1, <2>3, <3>2 DEF Deep, Bottom, Fits
    <3>4. BackfillLimit \in Nat /\ g.kind # "page"
      BY <1>5, <2>1, LimitsAssumption
    <3>5. Fits(g, t, m)
      BY <1>5, <1>6, <2>1, <3>4, LogWindow DEF Fits, ViewInv
    <3> QED
      BY <1>8, <3>3, <3>5
  <2> QED
    BY <2>2, <2>3
<1>10. CASE ~Current(f)
  <2>1. CaughtUp
    <3>1. \A h \in fetches : Current(h) => h \in fetches' /\ Current(h)'
      BY <1>2, <1>10 DEF Current, IsBackfill
    <3> QED
      BY <1>2, <3>1 DEF CaughtUp
  <2>2. CASE Awaited(m)
    BY <1>2, <1>10, <2>2 DEF Awaited, Current, IsBackfill
  <2>3. CASE Deep(t, m)
    <3>1. CASE f.kind = "boot"
      <4>1. W = Latest(Posted, BootLimit) /\ BootLimit \in Nat /\ g.kind # "page"
        BY <1>1, <1>5, <3>1, LimitsAssumption DEF Window
      <4>2. Fits(g, t, m)
        BY <1>5, <1>6, <4>1, LogWindow DEF Fits, ViewInv
      <4> QED
        BY <1>8, <2>3, <4>2
    <3>2. CASE f.kind = "backfill"
      <4>1. W = Latest(Posted, BackfillLimit) /\ BackfillLimit \in Nat /\ g.kind # "page"
        BY <1>1, <1>5, <3>2, LimitsAssumption DEF Window
      <4>2. Fits(g, t, m)
        BY <1>5, <1>6, <4>1, LogWindow DEF Fits, ViewInv
      <4> QED
        BY <1>8, <2>3, <4>2
    <3>3. CASE f.kind = "page"
      <4>1. PICK u, before : u = f.thread /\ before = f.before
        OBVIOUS
      <4>2. u \in Threads /\ before \in Int /\ (before = Never \/ \E k \in Held(u) : Ts(k) = before)
        <5>1. f.thread \in Paged /\ f.before \in Int
          BY <1>3, <3>3, RequestFacts
        <5> QED
          BY <1>3, <3>3, <4>1, <5>1, ThreadsAssumption DEF FetchRight
      <4>3. W = Latest({x \in Of(u) : Ts(x) < before}, PageSize) /\ g.thread = u
        BY <1>1, <1>5, <3>3, <4>1 DEF Window
      <4>4. t = u => Ts(m) # before
        <5>1. ASSUME t = u, Ts(m) = before PROVE FALSE
          <6>1. m \in {x \in Of(f.thread) : Ts(x) = f.before} \ AllHeld
            <7>1. m \in Of(f.thread) /\ Ts(m) = f.before
              BY <1>6, <4>1, <5>1
            <7>2. m \notin AllHeld
              <8>1. ASSUME NEW v \in Threads, m \in Held(v) PROVE FALSE
                <9>1. m \in Of(v)
                  BY <8>1, HeldArePosted DEF HeldPosted, ViewInv
                <9>2. v = t
                  BY <1>6, <9>1 DEF Of
                <9> QED
                  BY <1>6, <8>1, <9>2 DEF Missed
              <8> QED
                BY <8>1 DEF AllHeld
            <7> QED
              BY <7>1, <7>2
          <6>2. m \in LeftOut(f)
            BY <3>3, <6>1 DEF LeftOut
          <6> QED
            BY <1>6, <6>2
        <5> QED
          BY <5>1
      <4>5. m \in g.page \/ NothingOlder(g, t, m)
        BY <1>5, <1>6, <2>3, <4>2, <4>3, <4>4, PageWindow
      <4> QED
        BY <1>8, <2>3, <4>5 DEF Fits
    <3> QED
      BY <1>3, <3>1, <3>2, <3>3, RequestFacts
  <2> QED
    BY <1>6, <2>1, <2>2, <2>3 DEF MissInv
<1> QED
  BY <1>9, <1>10

\* What an answer that is merged does to a deep message that it did not bring.
LEMMA MissMerge ==
  ASSUME ViewInv, Grown, LineInv', NEW f \in fetches, f.page # Asked,
         UNCHANGED log, fetches' = fetches \ {f},
         NEW t \in Threads, NEW m \in Of(t), m \notin Held(t)',
         Held(t)' = Held(t) \cup (f.page \cap Of(t)),
         Deep(t, m), t \in Paged => ~paging'[t].exhausted
  PROVE  Deep(t, m)'
<1>1. m \notin f.page
  OBVIOUS
<1>2. \A k \in f.page \cap Of(t) : Ts(m) <= Ts(k)
  BY <1>1 DEF Deep, Fits, NothingOlder
<1>3. \A k \in Held(t)' : k \in Held(t) \/ Ts(m) <= Ts(k)
  BY <1>2
<1>4. \A h \in fetches' : h \in fetches
  OBVIOUS
<1> QED
  BY <1>3, <1>4, StillDeep

\* An answer arrives; one of an earlier connection may clear the error of this one.
LEMMA MissArrive ==
  ASSUME ViewInv, MissInv, Grown, LineInv', NEW f \in fetches, Arrive(f)
  PROVE  MissInv'
<1> SUFFICES ASSUME CaughtUp', NEW t \in Threads, NEW m, Missed(t, m)'
             PROVE  Deep(t, m)' \/ Awaited(m)'
  BY DEF MissInv
<1>1. /\ f.page # Asked /\ fetches' = fetches \ {f} /\ UNCHANGED <<log, link, wire, failed, breaks>>
      /\ beyond \subseteq beyond'
  BY DEF Arrive, BootArrives, BackfillArrives, PageArrives
<1>2. Held(t)' = Held(t) \cup (f.page \cap Of(t))
  <2>1. store'[t] = Appended(t, f.page) \/ store'[t] = Prepended(t, f.page)
    BY DEF Arrive, BootArrives, BackfillArrives, PageArrives
  <2>2. Held(t)' = Members(store'[t])
    BY DEF Held, Members
  <2> QED
    BY <2>1, <2>2, Merges DEF ViewInv
<1>3. /\ m \in Of(t) /\ m \notin Held(t)' /\ m \notin beyond' /\ Missed(t, m)
      /\ m \notin Held(t) /\ m \notin f.page /\ m \in Posted
  BY <1>1, <1>2 DEF Missed, Of, Mine, Posted, OnWire
<1>4. FetchRight(f) /\ f \in Request
  BY DEF ViewInv, FetchInv, FetchRight
<1>5. ASSUME Deep(t, m), t \in Paged => ~paging'[t].exhausted PROVE Deep(t, m)'
  BY <1>1, <1>2, <1>3, <1>5, MissMerge
<1>6. CASE Awaited(m) /\ ~Current(f)
  BY <1>1, <1>6 DEF Awaited, Current, IsBackfill
<1>7. CASE BootArrives(f) \/ PageArrives(f)
  <2>1. ~Current(f) /\ backfillError' = backfillError
    BY <1>7 DEF Current, IsBackfill, BootArrives, PageArrives
  <2>2. CaughtUp
    <3>1. \A h \in fetches : Current(h) => h \in fetches' /\ Current(h)'
      BY <1>1, <2>1 DEF Current, IsBackfill
    <3> QED
      BY <1>1, <2>1, <3>1 DEF CaughtUp
  <2>3. CASE Deep(t, m)
    <3>1. CASE BootArrives(f)
      <4>1. t \in Paged => ~paging'[t].exhausted
        BY <2>3, <3>1 DEF BootArrives, Deep, Bottom
      <4> QED
        BY <1>5, <2>3, <4>1
    <3>2. CASE PageArrives(f)
      <4>1. paging \in [Threads -> Paging]
        BY DEF ViewInv, TranscriptTypeOK
      <4>2. PICK u, r : /\ u = f.thread
                        /\ r = [loading |-> FALSE, exhausted |-> Cardinality(f.page) < PageSize,
                                hydrated |-> paging[f.thread].hydrated \/ f.first]
        OBVIOUS
      <4>3. paging' = [paging EXCEPT ![u] = r]
        BY <3>2, <4>2 DEF PageArrives
      <4>4. paging'[t] = IF t = u THEN r ELSE paging[t]
        BY <4>1, <4>3
      <4>5. t = u => ~(Cardinality(f.page) < PageSize)
        BY <1>1, <1>3, <2>3, <3>2, <4>2 DEF Deep, Fits, NothingOlder, PageArrives
      <4>6. r.exhausted = (Cardinality(f.page) < PageSize)
        BY <4>2
      <4>7. t \in Paged => ~paging[t].exhausted
        BY <2>3 DEF Deep, Bottom
      <4>8. t \in Paged => ~paging'[t].exhausted
        BY <4>4, <4>5, <4>6, <4>7
      <4> QED
        BY <1>5, <2>3, <4>8
    <3> QED
      BY <1>7, <3>1, <3>2
  <2> QED
    BY <1>3, <1>6, <2>1, <2>2, <2>3 DEF MissInv
<1>8. CASE BackfillArrives(f)
  <2>1. /\ IsBackfill(f) /\ ~backfillError' /\ UNCHANGED paging
        /\ f.connection < failed =>
             beyond' = beyond \cup OutOfReach(Posted) \cup (Latest(Posted, BackfillLimit) \ AllHeld)
    BY <1>8 DEF BackfillArrives, IsBackfill
  <2>2. /\ f.connection \in 1..breaks + 1 /\ f.connection # failed
        /\ breaks \in Nat /\ failed \in 0..breaks + 1
    BY <1>4, <2>1 DEF FetchRight, ViewInv, FetchInv
  <2>3. ASSUME Deep(t, m) PROVE Deep(t, m)'
    <3>1. t \in Paged => ~paging'[t].exhausted
      BY <2>1, <2>3 DEF Deep, Bottom
    <3> QED
      BY <1>5, <2>3, <3>1
  <2>4. CASE failed # breaks + 1
    <3>1. CASE Current(f)
      <4>1. \A h \in fetches : Current(h) => h = f
        BY <3>1 DEF Current, ViewInv, FetchInv
      <4>2. CaughtUp
        BY <1>1, <2>4, <4>1 DEF CaughtUp
      <4>3. ~Awaited(m)
        BY <1>3, <4>1 DEF Awaited
      <4> QED
        BY <1>3, <2>3, <4>2, <4>3 DEF MissInv
    <3>2. CASE ~Current(f)
      <4>1. \A h \in fetches : Current(h) => h \in fetches' /\ Current(h)'
        BY <1>1, <3>2 DEF Current, IsBackfill
      <4>2. CaughtUp
        BY <1>1, <2>4, <4>1 DEF CaughtUp
      <4> QED
        BY <1>3, <1>6, <2>3, <3>2, <4>2 DEF MissInv
    <3> QED
      BY <3>1, <3>2
  <2>5. CASE failed = breaks + 1
    <3>1. f.connection < failed
      BY <2>2, <2>5
    <3>2. m \notin OutOfReach(Posted) /\ m \notin Latest(Posted, BackfillLimit) \ AllHeld
      BY <1>3, <2>1, <3>1
    <3>3. m \notin AllHeld
      <4>1. ASSUME NEW v \in Threads, m \in Held(v) PROVE FALSE
        <5>1. m \in Of(v)
          BY <4>1, HeldArePosted DEF HeldPosted, ViewInv
        <5>2. v = t
          BY <1>3, <5>1 DEF Of
        <5> QED
          BY <1>3, <4>1, <5>2
      <4> QED
        BY <4>1 DEF AllHeld
    <3>4. /\ ~paging[t].exhausted /\ \A k \in Held(t) : Ts(m) <= Ts(k)
          /\ \A h \in fetches : h.page = Asked \/ NothingOlder(h, t, m)
      BY <1>3, <3>2, WithinReach
    <3>5. Deep(t, m)
      BY <3>2, <3>3, <3>4 DEF Deep, Bottom, Fits
    <3> QED
      BY <2>3, <3>5
  <2> QED
    BY <2>4, <2>5
<1> QED
  BY <1>7, <1>8 DEF Arrive

\* A request fails; the backfill of this connection shows its error.
LEMMA MissFail ==
  ASSUME ViewInv, MissInv, Grown, LineInv', NEW f \in fetches, Fail(f)
  PROVE  MissInv'
<1> SUFFICES ASSUME CaughtUp', NEW t \in Threads, NEW m, Missed(t, m)'
             PROVE  Deep(t, m)' \/ Awaited(m)'
  BY DEF MissInv
<1>1. /\ fetches' = fetches \ {f} /\ UNCHANGED <<log, link, wire, store, beyond, breaks>>
      /\ backfillError' = (backfillError \/ f.kind = "backfill")
      /\ failed' = IF f.kind = "backfill" /\ f.connection > failed THEN f.connection ELSE failed
  BY DEF Fail
<1>2. Held(t)' = Held(t) /\ Missed(t, m) /\ m \in Of(t)
  BY <1>1 DEF Held, Missed, Of, Mine, Posted, OnWire
<1>3. FetchRight(f) /\ f \in Request /\ breaks \in Nat /\ failed \in 0..breaks + 1
  BY DEF ViewInv, FetchInv, FetchRight
<1>4. IsBackfill(f) => f.connection \in 1..breaks + 1 /\ f.connection # failed
  BY <1>3 DEF FetchRight
<1>5. failed' # breaks + 1 \/ ~backfillError'
  BY <1>1 DEF CaughtUp
<1>6. ~Current(f) /\ (failed # breaks + 1 \/ ~backfillError)
  <2>1. CASE IsBackfill(f)
    <3>1. backfillError' = TRUE
      BY <1>1, <2>1 DEF IsBackfill
    <3>2. failed' # breaks + 1
      BY <1>5, <3>1
    <3>3. f.connection > failed => failed' = f.connection
      BY <1>1, <2>1 DEF IsBackfill
    <3>4. ~(f.connection > failed) => failed' = failed
      BY <1>1
    <3>5. failed # breaks + 1
      BY <1>3, <1>4, <2>1, <3>2, <3>4
    <3>6. f.connection # breaks + 1
      BY <1>3, <1>4, <2>1, <3>2, <3>3
    <3> QED
      BY <3>5, <3>6 DEF Current
  <2>2. CASE ~IsBackfill(f)
    <3>1. failed' = failed /\ (backfillError' <=> backfillError)
      BY <1>1, <2>2 DEF IsBackfill
    <3> QED
      BY <1>5, <2>2, <3>1 DEF Current
  <2> QED
    BY <2>1, <2>2
<1>7. \A h \in fetches : Current(h) => h \in fetches' /\ Current(h)'
  BY <1>1, <1>6 DEF Current, IsBackfill
<1>8. CaughtUp
  BY <1>1, <1>6, <1>7 DEF CaughtUp
<1>9. CASE Awaited(m)
  BY <1>7, <1>9 DEF Awaited
<1>10. CASE Deep(t, m)
  <2>1. t \in Paged => ~paging[t].exhausted
    BY <1>10 DEF Deep, Bottom
  <2>2. paging'[t].exhausted = paging[t].exhausted
    <3>0. paging \in [Threads -> Paging]
      BY DEF ViewInv, TranscriptTypeOK
    <3>1. CASE paging' = [paging EXCEPT ![f.thread].loading = FALSE]
      <4>1. paging'[t] = IF t = f.thread THEN [paging[t] EXCEPT !.loading = FALSE] ELSE paging[t]
        BY <3>0, <3>1
      <4> QED
        BY <3>0, <4>1 DEF Paging
    <3> QED
      BY <3>1 DEF Fail
  <2> QED
    BY <1>1, <1>2, <1>10, <2>1, <2>2, StillDeep
<1> QED
  BY <1>2, <1>8, <1>9, <1>10 DEF MissInv

TranscriptInv == ViewInv /\ MissInv

LEMMA ViewStep == ViewInv /\ [TranscriptNext]_transcriptVars => ViewInv' /\ Grown
<1> SUFFICES ASSUME ViewInv, [TranscriptNext]_transcriptVars PROVE ViewInv' /\ Grown
  OBVIOUS
<1>1. LineInv' /\ StoreInv' /\ FetchInv' /\ Grown
  BY LineStep, StoreStep, FetchStep, Grows DEF ViewInv
<1>2. TranscriptTypeOK'
  BY <1>1, TypesStay DEF ViewInv
<1> QED
  BY <1>1, <1>2 DEF ViewInv

LEMMA MissStep == TranscriptInv /\ [TranscriptNext]_transcriptVars => TranscriptInv'
<1> SUFFICES ASSUME TranscriptInv, [TranscriptNext]_transcriptVars PROVE TranscriptInv'
  OBVIOUS
<1>1. ViewInv /\ MissInv /\ ViewInv' /\ Grown /\ LineInv'
  BY ViewStep DEF TranscriptInv, ViewInv
<1> SUFFICES MissInv'
  BY <1>1 DEF TranscriptInv
<1>2. CASE UNCHANGED transcriptVars \/ \E t \in Threads : Hydrate(t) \/ LoadOlder(t)
  BY <1>1, <1>2, MissAsk
<1>3. CASE Serve \/ Open \/ Break
  BY <1>1, <1>3, MissConnection
<1>4. CASE Receive
  BY <1>1, <1>4, MissReceive
<1>5. ASSUME NEW t \in Threads, Push(t) PROVE MissInv'
  BY <1>1, <1>5, MissPush
<1>6. ASSUME NEW f \in fetches, Answer(f) PROVE MissInv'
  BY <1>1, <1>6, MissAnswer
<1>7. ASSUME NEW f \in fetches, Arrive(f) PROVE MissInv'
  BY <1>1, <1>7, MissArrive
<1>8. ASSUME NEW f \in fetches, Fail(f) PROVE MissInv'
  BY <1>1, <1>8, MissFail
<1> QED
  BY <1>2, <1>3, <1>4, <1>5, <1>6, <1>7, <1>8 DEF TranscriptNext

LEMMA MissInit == TranscriptInit => TranscriptInv
<1> SUFFICES ASSUME TranscriptInit PROVE TranscriptInv
  OBVIOUS
<1>1. ViewInv
  BY TypesHold, LineInit, StoreInit, FetchInit DEF ViewInv
<1>2. link # "open"
  BY DEF TranscriptInit
<1> QED
  BY <1>1, <1>2 DEF TranscriptInv, MissInv, CaughtUp

\* Connected and at rest the viewer misses no message that was for him but those it
\* can still page in, those that passed in a gap longer than a backfill, whose window
\* the messages for others fill as well, those that share the time a page ends at,
\* and those an old answer hid by clearing a newer error (live.ts, messages.ts,
\* thread-history.ts).
THEOREM ViewerMissesNothing == TranscriptSpec => []NothingMissing
<1>1. TranscriptInv => NothingMissing
  <2> SUFFICES ASSUME TranscriptInv, AtRest, ~backfillError,
                      NEW t \in Threads, NEW m \in (Of(t) \cap Mine) \ (Held(t) \cup beyond)
               PROVE  /\ m \notin Latest(Posted, BackfillLimit)
                      /\ t \in Paged => ~paging[t].exhausted
                      /\ \A k \in Held(t) : Ts(m) <= Ts(k)
    BY DEF NothingMissing
  <2>1. CaughtUp
    BY DEF CaughtUp, AtRest, Current, IsBackfill
  <2>2. OnWire = {}
    <3>1. wire = <<>> /\ Len(<<>>) = 0
      BY EmptySeq DEF AtRest
    <3> QED
      BY <3>1 DEF OnWire
  <2>3. Missed(t, m)
    BY <2>2 DEF Missed
  <2>4. ~Awaited(m)
    BY DEF Awaited, AtRest, Current, IsBackfill
  <2> QED
    BY <2>1, <2>3, <2>4 DEF TranscriptInv, MissInv, Deep, Bottom
<1> QED
  BY <1>1, MissInit, MissStep, PTL DEF TranscriptSpec

\* The types of the transcript: what is held, on the wire or in an answer is logged.
THEOREM TranscriptTypeCorrect == TranscriptSpec => []TranscriptTypeOK
<1>1. TranscriptInv => TranscriptTypeOK
  BY DEF TranscriptInv, ViewInv
<1> QED
  BY <1>1, MissInit, MissStep, PTL DEF TranscriptSpec
=============================================================================
