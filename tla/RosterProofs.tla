---------------------------- MODULE RosterProofs ----------------------------
(***************************************************************************)
(* Theorems about Roster, for every set of names, presets and requests,    *)
(* and about Enrollment, for every set of devices.  The step lemmas of the *)
(* roster are stated of actions, so that they carry over to Enrollment: an *)
(* approval is one more handler that adds members and issues tokens.       *)
(***************************************************************************)
EXTENDS Enrollment, FiniteSetTheorems, TLAPS

-----------------------------------------------------------------------------
(* Type correctness.  An era is bounded by the number of edits. *)

RosterTypeInv ==
  /\ TypeOK
  /\ \A n \in Names : era[n] <= edits + 1

\* Adding a key to a function, or removing some, keeps the type of the rest.
LEMMA WithType ==
  ASSUME NEW S, NEW T, NEW f \in UNION {[D -> T] : D \in SUBSET S}, NEW k \in S, NEW v \in T
  PROVE  With(f, k, v) \in UNION {[D -> T] : D \in SUBSET S}
<1> DEFINE D == DOMAIN f \cup {k}
<1>1. D \in SUBSET S /\ With(f, k, v) \in [D -> T]
  BY DEF With
<1> QED
  BY <1>1

LEMMA WithoutType ==
  ASSUME NEW S, NEW T, NEW f \in UNION {[D -> T] : D \in SUBSET S}, NEW K
  PROVE  Without(f, K) \in UNION {[D -> T] : D \in SUBSET S}
<1> DEFINE D == DOMAIN f \ K
<1>1. D \in SUBSET S /\ Without(f, K) \in [D -> T]
  BY DEF Without, Restrict
<1> QED
  BY <1>1

LEMMA RosterTypeInit == RosterInit => RosterTypeInv
<1> SUFFICES ASSUME RosterInit PROVE RosterTypeInv
  OBVIOUS
<1>1. PICK n \in Names :
        /\ members = [x \in {n} |-> {Admin}]
        /\ presets = [p \in {Admin} |-> Leaves]
        /\ tokens = [t \in {1} |-> Token(n, 1, "bootstrap")]
        /\ minted = 1
        /\ waiting = Empty
        /\ up = TRUE
        /\ era = [x \in Names |-> IF x = n THEN 1 ELSE 0]
        /\ slips = {} /\ torn = {}
        /\ edits = 0 /\ crashes = 0
  BY DEF RosterInit
<1>2. members \in UNION {[S -> SUBSET Entries] : S \in SUBSET Names}
  <2>1. members \in [{n} -> SUBSET Entries]
    BY <1>1, NamesAssumption DEF Entries
  <2> QED
    BY <2>1
<1>3. presets \in UNION {[S -> SUBSET Leaves] : S \in SUBSET Presets}
  <2>1. presets \in [{Admin} -> SUBSET Leaves] /\ Admin \in Presets
    BY <1>1, NamesAssumption
  <2> QED
    BY <2>1
<1>4. DOMAIN tokens \subseteq 1..minted /\ \A t \in DOMAIN tokens : tokens[t] \in TokenRows
  BY <1>1, CountAssumption DEF Token, TokenRows, Origins
<1>5. era \in [Names -> 0..MaxEdits + 1] /\ \A x \in Names : era[x] <= edits + 1
  BY <1>1, CountAssumption
<1>6. DOMAIN waiting = {}
  BY <1>1 DEF Empty
<1>7. minted \in 0..MaxTokens /\ up \in BOOLEAN /\ edits \in 0..MaxEdits /\ crashes \in 0..MaxCrashes
  BY <1>1, CountAssumption
<1>8. slips \subseteq {"stale", "preset"} /\ torn \subseteq Names
  BY <1>1
<1>9. /\ DOMAIN waiting \subseteq IF up THEN Conns ELSE {}
      /\ \A c \in DOMAIN waiting :
           /\ waiting[c].op \in {"create", "update", "preset", "approve", "reject"}
           /\ waiting[c].name \in Names \cup {Nobody}
           /\ waiting[c].was \subseteq Leaves
  BY <1>6
<1> QED
  BY <1>2, <1>3, <1>4, <1>5, <1>7, <1>8, <1>9
  DEF RosterTypeInv, TypeOK, RowsOK, TokensOK, WaitingOK, HistoryOK

\* The parts of handlers, each on the tables it touches.
LEMMA ServedType ==
  ASSUME WaitingOK, NEW c, NEW op, Served(c, op), up' = up
  PROVE  WaitingOK'
BY DEF WaitingOK, Served, Without, Restrict

LEMMA DieType ==
  ASSUME WaitingOK, HistoryOK, Die
  PROVE  WaitingOK' /\ crashes' \in 0..MaxCrashes
<1>1. DOMAIN waiting' = {}
  BY DEF Die, Empty
<1>2. up' = FALSE /\ crashes' \in 0..MaxCrashes
  BY CountAssumption DEF Die, HistoryOK
<1> QED
  BY <1>1, <1>2 DEF WaitingOK

LEMMA EditType ==
  ASSUME HistoryOK, Edit
  PROVE  edits' \in 0..MaxEdits /\ edits' = edits + 1
BY CountAssumption DEF HistoryOK, Edit

LEMMA IssueType ==
  ASSUME TokensOK, NEW n \in Names, NEW e \in 0..MaxEdits + 1, NEW origin \in Origins,
         NEW kept, DOMAIN kept \subseteq 1..minted,
         \A t \in DOMAIN kept : kept[t] \in TokenRows,
         Issue(kept, n, e, origin)
  PROVE  TokensOK'
<1>1. minted \in Nat /\ minted' = minted + 1 /\ minted' \in 0..MaxTokens
  BY CountAssumption DEF TokensOK, Issue
<1>2. tokens' = With(kept, minted + 1, Token(n, e, origin))
  BY DEF Issue
<1>4. Token(n, e, origin) \in TokenRows
  BY DEF Token, TokenRows
<1>5. /\ DOMAIN tokens' = DOMAIN kept \cup {minted + 1}
      /\ tokens'[minted + 1] = Token(n, e, origin)
      /\ \A t \in DOMAIN kept : t # minted + 1 => tokens'[t] = kept[t]
  BY <1>2 DEF With
<1> QED
  BY <1>1, <1>4, <1>5 DEF TokensOK

LEMMA RevokeType ==
  ASSUME TokensOK, NEW K, tokens' = Without(tokens, K), minted' = minted
  PROVE  TokensOK'
BY DEF TokensOK, Without, Restrict

LEMMA JoinType ==
  ASSUME RowsOK, HistoryOK, NEW n \in Names, NEW raw \in Raws, Join(n, raw), Edit,
         \A x \in Names : era[x] <= edits + 1, presets' = presets
  PROVE  /\ RowsOK'
         /\ era' \in [Names -> 0..MaxEdits + 1] /\ era'[n] = era[n] + 1
         /\ \A x \in Names : era'[x] <= edits' + 1
<1>1. raw \in SUBSET Entries
  BY NamesAssumption
<1>2. RowsOK'
  BY <1>1, WithType DEF RowsOK, Join
<1> QED
  BY <1>2, CountAssumption DEF HistoryOK, Join, Edit

LEMMA WaitType ==
  ASSUME WaitingOK, NEW c \in Conns, NEW r, up, up' = up, waiting' = With(waiting, c, r),
         r.op \in {"create", "update", "preset", "approve", "reject"},
         r.name \in Names \cup {Nobody}, r.was \subseteq Leaves
  PROVE  WaitingOK'
<1>1. /\ DOMAIN waiting' = DOMAIN waiting \cup {c}
      /\ waiting'[c] = r
      /\ \A d \in DOMAIN waiting : d # c => waiting'[d] = waiting[d]
  BY DEF With
<1> QED
  BY <1>1 DEF WaitingOK

\* A permission list resolves to leaves.
LEMMA GrantedLeaves ==
  ASSUME RowsOK, NEW raw PROVE Granted(raw) \subseteq Leaves
BY DEF RowsOK, Granted

\* Every action of the roster keeps the types.
LEMMA RosterTypeStep ==
  ASSUME RosterTypeInv, RosterStep \/ Boot PROVE RosterTypeInv'
<1> USE DEF RosterTypeInv, TypeOK
<1>1. ASSUME NEW c \in Conns, NEW op \in {"create", "preset", "approve", "reject"}, NEW leaf,
             Begin(c, op, leaf)
      PROVE  RosterTypeInv'
  <2>1. WaitingOK'
    BY <1>1, WaitType DEF Begin, Asked
  <2> QED
    BY <1>1, <2>1 DEF Begin, RowsOK, TokensOK, HistoryOK
<1>2. ASSUME NEW c \in Conns, NEW n \in Names, BeginUpdate(c, n)
      PROVE  RosterTypeInv'
  <2>1. WaitingOK'
    BY <1>2, WaitType, GrantedLeaves DEF BeginUpdate
  <2> QED
    BY <1>2, <2>1 DEF BeginUpdate, RowsOK, TokensOK, HistoryOK
<1>3. ASSUME NEW c \in Conns, Refuse(c)
      PROVE  RosterTypeInv'
  <2>1. WaitingOK'
    BY <1>3 DEF Refuse, WaitingOK, Without, Restrict
  <2> QED
    BY <1>3, <2>1 DEF Refuse, RowsOK, TokensOK, HistoryOK
<1>4. ASSUME NEW c \in Conns, NEW n \in Names, NEW raw \in Raws, Create(c, n, raw)
      PROVE  RosterTypeInv'
  <2>1. WaitingOK'
    BY <1>4, ServedType DEF Create
  <2>2. RowsOK' /\ era' \in [Names -> 0..MaxEdits + 1] /\ era'[n] = era[n] + 1
          /\ \A x \in Names : era'[x] <= edits' + 1
    BY <1>4, JoinType DEF Create
  <2>3. edits' \in 0..MaxEdits
    BY <1>4, EditType DEF Create
  <2>4. era[n] + 1 \in 0..MaxEdits + 1
    BY <2>2
  <2>5. TokensOK'
    BY <1>4, <2>4, IssueType DEF Create, Origins, TokensOK
  <2> QED
    BY <1>4, <2>1, <2>2, <2>3, <2>5 DEF Create, HistoryOK
<1>5. ASSUME NEW c \in Conns, NEW n \in Names, NEW raw \in Raws, CreateCut(c, n, raw)
      PROVE  RosterTypeInv'
  <2>1. WaitingOK' /\ crashes' \in 0..MaxCrashes
    BY <1>5, DieType DEF CreateCut
  <2>2. RowsOK' /\ era' \in [Names -> 0..MaxEdits + 1]
          /\ \A x \in Names : era'[x] <= edits' + 1
    BY <1>5, JoinType DEF CreateCut
  <2>3. edits' \in 0..MaxEdits
    BY <1>5, EditType DEF CreateCut
  <2> QED
    BY <1>5, <2>1, <2>2, <2>3 DEF CreateCut, HistoryOK, TokensOK
<1>6. ASSUME NEW c \in Conns, NEW raw \in Raws, Update(c, raw)
      PROVE  RosterTypeInv'
  <2>1. WaitingOK'
    BY <1>6, ServedType DEF Update
  <2>2. edits' \in 0..MaxEdits /\ edits' = edits + 1
    BY <1>6, EditType DEF Update
  <2>3. raw \in SUBSET Entries
    BY NamesAssumption
  <2>4. members' \in UNION {[S -> SUBSET Entries] : S \in SUBSET Names}
    BY <1>6, <2>3 DEF Update, RowsOK
  <2>5. HistoryOK' /\ \A x \in Names : era'[x] <= edits' + 1
    BY <1>6, <2>2 DEF Update, HistoryOK
  <2> QED
    BY <1>6, <2>1, <2>4, <2>5 DEF Update, RowsOK, TokensOK
<1>7. ASSUME NEW c \in Conns, NEW p \in Presets, NEW leaves \in SUBSET Leaves,
             PutPreset(c, p, leaves)
      PROVE  RosterTypeInv'
  <2>1. WaitingOK'
    BY <1>7, ServedType DEF PutPreset
  <2>2. edits' \in 0..MaxEdits /\ edits' = edits + 1
    BY <1>7, EditType DEF PutPreset
  <2>3. RowsOK'
    <3>1. presets \in UNION {[S -> SUBSET Leaves] : S \in SUBSET Presets}
      BY DEF RowsOK
    <3>2. With(presets, p, leaves) \in UNION {[S -> SUBSET Leaves] : S \in SUBSET Presets}
      BY ONLY <3>1, WithType, p \in Presets, leaves \in SUBSET Leaves
    <3> QED
      BY <1>7, <3>2 DEF PutPreset, RowsOK
  <2>4. HistoryOK' /\ \A x \in Names : era'[x] <= edits' + 1
    BY <1>7, <2>2 DEF PutPreset, HistoryOK
  <2> QED
    BY <1>7, <2>1, <2>3, <2>4 DEF PutPreset, TokensOK
<1>8. ASSUME NEW p \in Presets, DeletePreset(p)
      PROVE  RosterTypeInv'
  <2>1. edits' \in 0..MaxEdits /\ edits' = edits + 1
    BY <1>8, EditType DEF DeletePreset
  <2>2. RowsOK'
    <3>1. presets \in UNION {[S -> SUBSET Leaves] : S \in SUBSET Presets}
      BY DEF RowsOK
    <3>2. Without(presets, {p}) \in UNION {[S -> SUBSET Leaves] : S \in SUBSET Presets}
      BY ONLY <3>1, WithoutType
    <3> QED
      BY <1>8, <3>2 DEF DeletePreset, RowsOK
  <2>3. HistoryOK' /\ \A x \in Names : era'[x] <= edits' + 1
    BY <1>8, <2>1 DEF DeletePreset, HistoryOK
  <2>4. TokensOK'
    BY <1>8 DEF DeletePreset, TokensOK
  <2>5. WaitingOK'
    BY <1>8 DEF DeletePreset, WaitingOK
  <2> QED
    BY <2>2, <2>3, <2>4, <2>5
<1>9. ASSUME NEW n \in Names, Delete(n)
      PROVE  RosterTypeInv'
  <2>1. edits' \in 0..MaxEdits /\ edits' = edits + 1
    BY <1>9, EditType DEF Delete
  <2>2. RowsOK' /\ TokensOK'
    <3>1. members \in UNION {[S -> SUBSET Entries] : S \in SUBSET Names}
      BY DEF RowsOK
    <3>2. Without(members, {n}) \in UNION {[S -> SUBSET Entries] : S \in SUBSET Names}
      BY ONLY <3>1, WithoutType
    <3>3. TokensOK'
      BY <1>9, RevokeType DEF Delete
    <3> QED
      BY <1>9, <3>2, <3>3 DEF Delete, RowsOK
  <2>3. WaitingOK'
    BY <1>9 DEF Delete, WaitingOK
  <2>4. HistoryOK' /\ \A x \in Names : era'[x] <= edits' + 1
    BY <1>9, <2>1 DEF Delete, HistoryOK
  <2> QED
    BY <2>2, <2>3, <2>4
<1>10. ASSUME NEW n \in Names, DeleteCut(n)
      PROVE  RosterTypeInv'
  <2>1. edits' \in 0..MaxEdits /\ edits' = edits + 1
    BY <1>10, EditType DEF DeleteCut
  <2>2. WaitingOK' /\ crashes' \in 0..MaxCrashes
    BY <1>10, DieType DEF DeleteCut
  <2>3. RowsOK'
    <3>1. members \in UNION {[S -> SUBSET Entries] : S \in SUBSET Names}
      BY DEF RowsOK
    <3>2. Without(members, {n}) \in UNION {[S -> SUBSET Entries] : S \in SUBSET Names}
      BY ONLY <3>1, WithoutType
    <3> QED
      BY <1>10, <3>2 DEF DeleteCut, RowsOK
  <2>4. TokensOK'
    BY <1>10 DEF DeleteCut, TokensOK
  <2>5. HistoryOK' /\ \A x \in Names : era'[x] <= edits' + 1
    BY <1>10, <2>1, <2>2 DEF DeleteCut, HistoryOK
  <2> QED
    BY <2>2, <2>3, <2>4, <2>5
<1>11. ASSUME NEW n \in Names, Rotate(n)
      PROVE  RosterTypeInv'
  <2> DEFINE kept == Without(tokens, TokensOf(n))
  <2>1. DOMAIN kept \subseteq 1..minted /\ \A t \in DOMAIN kept : kept[t] \in TokenRows
    BY DEF TokensOK, Without, Restrict
  <2>2. era[n] \in 0..MaxEdits + 1
    BY DEF HistoryOK
  <2>3. Issue(kept, n, era[n], "rotate")
    BY <1>11 DEF Rotate
  <2> HIDE DEF kept
  <2>4. TokensOK'
    BY <2>1, <2>2, <2>3, IssueType DEF Origins
  <2> QED
    BY <1>11, <2>4 DEF Rotate, RowsOK, WaitingOK, HistoryOK
<1>12. ASSUME NEW n \in Names, RotateCut(n)
      PROVE  RosterTypeInv'
  <2>1. WaitingOK' /\ crashes' \in 0..MaxCrashes
    BY <1>12, DieType DEF RotateCut
  <2>2. TokensOK'
    BY <1>12, RevokeType DEF RotateCut
  <2> QED
    BY <1>12, <2>1, <2>2 DEF RotateCut, RowsOK, HistoryOK
<1>13. ASSUME NEW t \in DOMAIN tokens, RevokeToken(t) \/ UseOrphan(t)
      PROVE  RosterTypeInv'
  <2>1. TokensOK'
    BY <1>13, RevokeType DEF RevokeToken, UseOrphan
  <2> QED
    BY <1>13, <2>1 DEF RevokeToken, UseOrphan, RowsOK, WaitingOK, HistoryOK
<1>14. CASE Crash
  BY <1>14, DieType DEF Crash, RowsOK, TokensOK, HistoryOK
<1>15. CASE Boot
  BY <1>15 DEF Boot, RowsOK, TokensOK, WaitingOK, HistoryOK
<1> QED
  BY <1>1, <1>2, <1>3, <1>4, <1>5, <1>6, <1>7, <1>8, <1>9, <1>10, <1>11, <1>12, <1>13, <1>14,
     <1>15 DEF RosterStep

\* The rows of every table, the requests that wait and the history keep their
\* types; TypeOK, that no request remembers more than leaves of its target
\* (app.ts:2185), for every team and every bound.
THEOREM RosterTypeCorrect == RosterSpec => []TypeOK
<1>1. RosterTypeInv /\ [RosterStep \/ Boot]_rosterVars => RosterTypeInv'
  <2> SUFFICES ASSUME RosterTypeInv, [RosterStep \/ Boot]_rosterVars PROVE RosterTypeInv'
    OBVIOUS
  <2>1. CASE RosterStep \/ Boot
    BY <2>1, RosterTypeStep
  <2>2. CASE UNCHANGED rosterVars
    BY <2>2 DEF rosterVars, RosterTypeInv, TypeOK, RowsOK, TokensOK, WaitingOK, HistoryOK
  <2> QED
    BY <2>1, <2>2
<1>2. RosterTypeInv => TypeOK
  BY DEF RosterTypeInv
<1> QED
  BY RosterTypeInit, <1>1, <1>2, PTL DEF RosterSpec

-----------------------------------------------------------------------------
(* The last admin.                                                         *)

\* A guard that counts admins leaves another one (app.ts:2197-2206).
LEMMA AnotherAdmin ==
  ASSUME AdminToSpare, NEW n PROVE \E m \in Admins : m # n
<1> SUFFICES ASSUME \A m \in Admins : m = n PROVE FALSE
  OBVIOUS
<1>1. Admins = {} \/ Admins = {n}
  OBVIOUS
<1>2. Cardinality({}) = 0 /\ Cardinality({n}) = 1
  BY FS_EmptySet, FS_Singleton
<1> QED
  BY <1>1, <1>2 DEF AdminToSpare

\* A member whose row is left alone keeps the permissions it had.
LEMMA AdminKept ==
  ASSUME NEW m \in Admins, presets' = presets, m \in DOMAIN members', members'[m] = members[m]
  PROVE  m \in Admins'
BY DEF Admins, May, Readable, Resolves, Granted

LEMMA SameAdmins ==
  ASSUME AnAdminRemains, UNCHANGED <<members, presets, slips>> PROVE AnAdminRemains'
BY AdminKept DEF AnAdminRemains, Admins

LEMMA JoinKeepsAdmins ==
  ASSUME AnAdminRemains, NEW n, NEW raw, Join(n, raw), UNCHANGED <<presets, slips>>
  PROVE  AnAdminRemains'
<1> SUFFICES ASSUME NEW m \in Admins PROVE m \in Admins'
  BY DEF AnAdminRemains
<1>1. m \in DOMAIN members' /\ members'[m] = members[m]
  BY DEF Join, With, Admins
<1> QED
  BY <1>1, AdminKept DEF Join

LEMMA DeletionLeavesAnAdmin ==
  ASSUME AnAdminRemains, NEW n, MayDelete(n), members' = Without(members, {n}),
         UNCHANGED <<presets, slips>>
  PROVE  AnAdminRemains'
<1> SUFFICES ASSUME slips = {} PROVE Admins' # {}
  BY DEF AnAdminRemains
<1>1. PICK m \in Admins : m # n
  BY AnotherAdmin DEF AnAdminRemains, MayDelete
<1>2. m \in DOMAIN members' /\ members'[m] = members[m]
  BY <1>1 DEF Without, Restrict, Admins
<1> QED
  BY <1>2, AdminKept

LEMMA UpdateLeavesAnAdmin ==
  ASSUME AnAdminRemains, NEW c, NEW raw, Update(c, raw) PROVE AnAdminRemains'
<1> DEFINE n == waiting[c].name
           loses(had) == "members.manage" \in had \ Granted(raw)
<1>1. /\ presets' = presets /\ Resolves(raw) /\ n \in DOMAIN members
      /\ loses(waiting[c].was) => AdminToSpare
      /\ members' = [members EXCEPT ![n] = raw]
      /\ slips' = IF n \in Admins /\ loses(Leaves) /\ ~loses(waiting[c].was)
                  THEN slips \cup {"stale"} ELSE slips
  BY DEF Update
<1>2. \A m \in Admins : m # n => m \in Admins'
  <2> TAKE m \in Admins
  <2> HAVE m # n
  <2>1. m \in DOMAIN members' /\ members'[m] = members[m]
    BY <1>1 DEF Admins
  <2> QED
    BY <1>1, <2>1, AdminKept
<1>3. CASE "members.manage" \in Granted(raw)
  <2>1. n \in DOMAIN members' /\ members'[n] = raw
    BY <1>1
  <2>2. n \in Admins'
    BY <1>1, <1>3, <2>1 DEF Admins, May, Readable, Resolves, Granted
  <2> QED
    BY <2>2 DEF AnAdminRemains
<1>4. CASE "members.manage" \notin Granted(raw) /\ n \notin Admins
  BY <1>1, <1>2, <1>4 DEF AnAdminRemains
<1>5. CASE "members.manage" \notin Granted(raw) /\ n \in Admins
  <2>1. CASE loses(waiting[c].was)
    BY <1>1, <1>2, <2>1, AnotherAdmin DEF AnAdminRemains
  <2>2. CASE ~loses(waiting[c].was)
    <3>1. loses(Leaves)
      BY <1>5 DEF Leaves
    <3>2. slips' = slips \cup {"stale"}
      BY <1>1, <1>5, <2>2, <3>1
    <3> QED
      BY <3>2 DEF AnAdminRemains
  <2> QED
    BY <2>1, <2>2
<1> QED
  BY <1>3, <1>4, <1>5

LEMMA PresetEditIsASlip ==
  ASSUME AnAdminRemains,
         slips' = IF Admins \subseteq Admins' THEN slips ELSE slips \cup {"preset"}
  PROVE  AnAdminRemains'
BY DEF AnAdminRemains

LEMMA AdminStep ==
  ASSUME AnAdminRemains, RosterStep \/ Boot PROVE AnAdminRemains'
<1>1. ASSUME NEW c \in Conns, NEW n \in Names, NEW raw \in Raws,
             Create(c, n, raw) \/ CreateCut(c, n, raw)
      PROVE  AnAdminRemains'
  BY <1>1, JoinKeepsAdmins DEF Create, CreateCut
<1>2. ASSUME NEW c \in Conns, NEW raw \in Raws, Update(c, raw) PROVE AnAdminRemains'
  BY <1>2, UpdateLeavesAnAdmin
<1>3. ASSUME NEW c \in Conns, NEW p \in Presets, NEW leaves \in SUBSET Leaves,
             PutPreset(c, p, leaves)
      PROVE  AnAdminRemains'
  BY <1>3, PresetEditIsASlip DEF PutPreset
<1>4. ASSUME NEW p \in Presets, DeletePreset(p) PROVE AnAdminRemains'
  BY <1>4, PresetEditIsASlip DEF DeletePreset
<1>5. ASSUME NEW n \in Names, Delete(n) \/ DeleteCut(n) PROVE AnAdminRemains'
  BY <1>5, DeletionLeavesAnAdmin DEF Delete, DeleteCut
<1>6. ASSUME NEW c \in Conns, NEW n \in Names, BeginUpdate(c, n) PROVE AnAdminRemains'
  BY <1>6, SameAdmins DEF BeginUpdate
<1>7. ASSUME NEW n \in Names, Rotate(n) \/ RotateCut(n) PROVE AnAdminRemains'
  BY <1>7, SameAdmins DEF Rotate, RotateCut
<1>8. ASSUME NEW t \in DOMAIN tokens, RevokeToken(t) \/ UseOrphan(t) PROVE AnAdminRemains'
  BY <1>8, SameAdmins DEF RevokeToken, UseOrphan
<1>9. CASE Crash \/ Boot
  BY <1>9, SameAdmins DEF Crash, Boot
<1>10. ASSUME NEW c \in Conns,
              Begin(c, "create", "members.manage") \/ Begin(c, "preset", "team.manage")
              \/ Refuse(c)
       PROVE  AnAdminRemains'
  BY <1>10, SameAdmins DEF Begin, Refuse
<1> QED
  BY <1>1, <1>2, <1>3, <1>4, <1>5, <1>6, <1>7, <1>8, <1>9, <1>10 DEF RosterStep

LEMMA RosterAdminInit == RosterInit => AnAdminRemains
<1> SUFFICES ASSUME RosterInit PROVE Admins # {}
  BY DEF AnAdminRemains
<1>1. PICK n \in Names : members = [x \in {n} |-> {Admin}] /\ presets = [p \in {Admin} |-> Leaves]
  BY DEF RosterInit
<1>2. n \in DOMAIN members /\ members[n] = {Admin} /\ DOMAIN presets = {Admin}
      /\ presets[Admin] = Leaves
  BY <1>1
<1>3. "members.manage" \in Granted({Admin}) /\ Resolves({Admin})
  BY <1>2 DEF Granted, Resolves, Leaves
<1> QED
  BY <1>2, <1>3 DEF Admins, May, Readable

\* The team keeps an admin through every interleaving of creations, updates
\* and deletions (app.ts:2103-2288), but for the two slips the history names.
THEOREM TheTeamKeepsAnAdmin == RosterSpec => []AnAdminRemains
<1>1. AnAdminRemains /\ [RosterStep \/ Boot]_rosterVars => AnAdminRemains'
  BY AdminStep, SameAdmins DEF rosterVars
<1> QED
  BY RosterAdminInit, <1>1, PTL DEF RosterSpec

-----------------------------------------------------------------------------
(* Tokens.  A name that is added again has a new era, so a token of the old *)
(* one would show.                                                          *)

LEMMA FewerTokens ==
  ASSUME TokensFollowMembers, NEW K, tokens' = Without(tokens, K),
         DOMAIN members' = DOMAIN members, UNCHANGED <<era, torn>>
  PROVE  TokensFollowMembers'
BY DEF TokensFollowMembers, Without, Restrict

LEMMA SameTokens ==
  ASSUME TokensFollowMembers, tokens' = tokens, DOMAIN members' = DOMAIN members,
         UNCHANGED <<era, torn>>
  PROVE  TokensFollowMembers'
BY DEF TokensFollowMembers

\* A name that is free has tokens only if its removal was cut short.
LEMMA JoinRevivesNothing ==
  ASSUME RosterTypeInv, TokensFollowMembers, NEW n \in Names, NEW raw, Join(n, raw),
         torn' = torn
  PROVE  /\ \A t \in DOMAIN tokens :
              LET m == tokens[t].member
              IN m \in torn' \/ (m \in DOMAIN members' /\ tokens[t].era = era'[m])
         /\ n \in DOMAIN members' /\ era'[n] = era[n] + 1
<1>1. DOMAIN members' = DOMAIN members \cup {n} /\ n \notin DOMAIN members
  BY DEF Join, With
<1>2. era'[n] = era[n] + 1 /\ \A m \in Names : m # n => era'[m] = era[m]
  BY DEF Join, RosterTypeInv, TypeOK, HistoryOK
<1>3. \A t \in DOMAIN tokens : tokens[t].member \in Names
  BY DEF RosterTypeInv, TypeOK, TokensOK, TokenRows
<1> QED
  BY <1>1, <1>2, <1>3 DEF TokensFollowMembers

\* A new token, bound to a member as it is now, beside tokens that follow.
LEMMA IssueFollows ==
  ASSUME NEW kept, NEW n \in DOMAIN members', NEW e, e = era'[n], NEW origin,
         Issue(kept, n, e, origin),
         \A t \in DOMAIN kept :
           LET m == kept[t].member
           IN m \in torn' \/ (m \in DOMAIN members' /\ kept[t].era = era'[m])
  PROVE  TokensFollowMembers'
<1>1. /\ DOMAIN tokens' = DOMAIN kept \cup {minted + 1}
      /\ tokens'[minted + 1] = Token(n, e, origin)
      /\ \A t \in DOMAIN kept : t # minted + 1 => tokens'[t] = kept[t]
  BY DEF Issue, With
<1>2. Token(n, e, origin).member = n /\ Token(n, e, origin).era = e
  BY DEF Token
<1> QED
  BY <1>1, <1>2 DEF TokensFollowMembers

LEMMA TokenStep ==
  ASSUME RosterTypeInv, TokensFollowMembers, RosterStep \/ Boot PROVE TokensFollowMembers'
<1>1. ASSUME NEW c \in Conns, NEW n \in Names, NEW raw \in Raws, Create(c, n, raw)
      PROVE  TokensFollowMembers'
  BY <1>1, JoinRevivesNothing, IssueFollows DEF Create
<1>2. ASSUME NEW c \in Conns, NEW n \in Names, NEW raw \in Raws, CreateCut(c, n, raw)
      PROVE  TokensFollowMembers'
  BY <1>2, JoinRevivesNothing DEF CreateCut, TokensFollowMembers
<1>3. ASSUME NEW c \in Conns, NEW raw \in Raws, Update(c, raw) PROVE TokensFollowMembers'
  BY <1>3, SameTokens DEF Update
<1>4. ASSUME NEW n \in Names, Delete(n) PROVE TokensFollowMembers'
  BY <1>4 DEF Delete, TokensFollowMembers, TokensOf, Without, Restrict
<1>5. ASSUME NEW n \in Names, DeleteCut(n) PROVE TokensFollowMembers'
  BY <1>5 DEF DeleteCut, TokensFollowMembers, Without, Restrict
<1>6. ASSUME NEW n \in Names, Rotate(n) PROVE TokensFollowMembers'
  <2> DEFINE kept == Without(tokens, TokensOf(n))
  <2>1. Issue(kept, n, era[n], "rotate") /\ n \in DOMAIN members'
        /\ UNCHANGED <<members, era, torn>>
    BY <1>6 DEF Rotate, Readable
  <2>2. \A t \in DOMAIN kept :
          LET m == kept[t].member
          IN m \in torn' \/ (m \in DOMAIN members' /\ kept[t].era = era'[m])
    BY <2>1 DEF TokensFollowMembers, Without, Restrict
  <2> HIDE DEF kept
  <2> QED
    BY <2>1, <2>2, IssueFollows
<1>7. ASSUME NEW n \in Names, RotateCut(n) PROVE TokensFollowMembers'
  BY <1>7, FewerTokens DEF RotateCut
<1>8. ASSUME NEW t \in DOMAIN tokens, RevokeToken(t) \/ UseOrphan(t)
      PROVE  TokensFollowMembers'
  BY <1>8, FewerTokens DEF RevokeToken, UseOrphan
<1>9. ASSUME NEW c \in Conns, NEW p \in Presets, NEW leaves \in SUBSET Leaves,
             PutPreset(c, p, leaves)
      PROVE  TokensFollowMembers'
  BY <1>9, SameTokens DEF PutPreset
<1>10. ASSUME NEW p \in Presets, DeletePreset(p) PROVE TokensFollowMembers'
  BY <1>10, SameTokens DEF DeletePreset
<1>11. ASSUME NEW c \in Conns, NEW n \in Names, BeginUpdate(c, n) PROVE TokensFollowMembers'
  BY <1>11, SameTokens DEF BeginUpdate
<1>12. ASSUME NEW c \in Conns,
              Begin(c, "create", "members.manage") \/ Begin(c, "preset", "team.manage")
              \/ Refuse(c)
       PROVE  TokensFollowMembers'
  BY <1>12, SameTokens DEF Begin, Refuse
<1>13. CASE Crash \/ Boot
  BY <1>13, SameTokens DEF Crash, Boot
<1> QED
  BY <1>1, <1>2, <1>3, <1>4, <1>5, <1>6, <1>7, <1>8, <1>9, <1>10, <1>11, <1>12, <1>13
  DEF RosterStep

LEMMA RosterTokensInit == RosterInit => TokensFollowMembers
BY DEF RosterInit, TokensFollowMembers, Token

\* A token authenticates only the member it was issued to, and none outlives
\* its member but by a crash in the middle of the removal (app.ts:2264-2281).
THEOREM TokensBelong == RosterSpec => []TokensFollowMembers
<1> DEFINE IInv == RosterTypeInv /\ TokensFollowMembers
<1>1. RosterInit => IInv
  BY RosterTypeInit, RosterTokensInit
<1>2. IInv /\ [RosterStep \/ Boot]_rosterVars => IInv'
  <2> SUFFICES ASSUME IInv, [RosterStep \/ Boot]_rosterVars PROVE IInv'
    OBVIOUS
  <2>1. CASE RosterStep \/ Boot
    BY <2>1, RosterTypeStep, TokenStep
  <2>2. CASE UNCHANGED rosterVars
    <3>1. RosterTypeInv'
      BY <2>2 DEF rosterVars, RosterTypeInv, TypeOK, RowsOK, TokensOK, WaitingOK, HistoryOK
    <3> QED
      BY <2>2, <3>1, SameTokens DEF rosterVars
  <2> QED
    BY <2>1, <2>2
<1> QED
  BY <1>1, <1>2, PTL DEF RosterSpec

-----------------------------------------------------------------------------
(* Enrollment. *)

\* What the three properties rest on: a device that has not started has left
\* no trace, a row that is there has not been handed out, and it holds a token
\* exactly when it is approved, the one issued for its code.
Fresh ==
  \A code \in Codes : device[code] = "idle" =>
    code \notin DOMAIN rows /\ verdicts[code] = 0 /\ handouts[code] = 0

InItsRow ==
  \A code \in DOMAIN rows :
    /\ handouts[code] = 0
    /\ rows[code].status = "pending" => verdicts[code] = 0
    /\ rows[code].status # "approved" => rows[code].token = 0
    /\ rows[code].status = "approved" =>
         rows[code].token \in DOMAIN issuedFor /\ issuedFor[rows[code].token] = code

Saved == \A code \in Codes : held[code] # 0 => held[code] \in DOMAIN issuedFor

Ledger == Fresh /\ InItsRow /\ Saved /\ DecidedOnce /\ HandedOutOnce /\ TokensAccountedFor

EnrollInv == RosterTypeInv /\ EnrollTypeOK /\ Ledger

-----------------------------------------------------------------------------
(* The roster's steps, seen from here. *)

\* They issue at most the next token and drop any others.
LEMMA RosterIssues ==
  ASSUME RosterTypeInv, RosterStep \/ Boot
  PROVE  /\ minted' = minted \/ minted' = minted + 1
         /\ DOMAIN tokens' \subseteq DOMAIN tokens \cup {minted + 1}
<1>1. ASSUME NEW c \in Conns, NEW n \in Names, NEW raw \in Raws,
             Create(c, n, raw) \/ CreateCut(c, n, raw)
      PROVE  /\ minted' = minted \/ minted' = minted + 1
             /\ DOMAIN tokens' \subseteq DOMAIN tokens \cup {minted + 1}
  BY <1>1 DEF Create, CreateCut, Issue, With
<1>2. ASSUME NEW n \in Names, Delete(n) \/ DeleteCut(n) \/ Rotate(n) \/ RotateCut(n)
      PROVE  /\ minted' = minted \/ minted' = minted + 1
             /\ DOMAIN tokens' \subseteq DOMAIN tokens \cup {minted + 1}
  BY <1>2 DEF Delete, DeleteCut, Rotate, RotateCut, Issue, With, Without, Restrict
<1>3. ASSUME NEW t \in DOMAIN tokens, RevokeToken(t) \/ UseOrphan(t)
      PROVE  minted' = minted /\ DOMAIN tokens' \subseteq DOMAIN tokens
  BY <1>3 DEF RevokeToken, UseOrphan, Without, Restrict
<1>4. ASSUME NEW c \in Conns, NEW raw \in Raws, Update(c, raw)
      PROVE  minted' = minted /\ tokens' = tokens
  BY <1>4 DEF Update
<1>5. ASSUME NEW c \in Conns, NEW p \in Presets, NEW leaves \in SUBSET Leaves,
             PutPreset(c, p, leaves)
      PROVE  minted' = minted /\ tokens' = tokens
  BY <1>5 DEF PutPreset
<1>6. ASSUME NEW p \in Presets, DeletePreset(p)
      PROVE  minted' = minted /\ tokens' = tokens
  BY <1>6 DEF DeletePreset
<1>7. ASSUME NEW c \in Conns, NEW n \in Names, BeginUpdate(c, n)
      PROVE  minted' = minted /\ tokens' = tokens
  BY <1>7 DEF BeginUpdate
<1>8. ASSUME NEW c \in Conns,
             Begin(c, "create", "members.manage") \/ Begin(c, "preset", "team.manage")
             \/ Refuse(c)
      PROVE  minted' = minted /\ tokens' = tokens
  BY <1>8 DEF Begin, Refuse
<1>9. CASE Crash \/ Boot
  BY <1>9 DEF Crash, Boot
<1> QED
  BY <1>1, <1>2, <1>3, <1>4, <1>5, <1>6, <1>7, <1>8, <1>9 DEF RosterStep

\* Under such a step, with the enrollments left alone, the ledger stands.
LEMMA LedgerBeside ==
  ASSUME EnrollInv, RosterTypeInv', UNCHANGED enrollVars,
         minted' = minted \/ minted' = minted + 1,
         DOMAIN tokens' \subseteq DOMAIN tokens \cup {minted + 1}
  PROVE  EnrollInv'
<1>1. minted \in Nat
  BY DEF EnrollInv, RosterTypeInv, TypeOK, TokensOK
<1>2. EnrollTypeOK'
  BY <1>1 DEF EnrollInv, EnrollTypeOK, RosterTypeInv, enrollVars
<1>3. minted + 1 \notin DOMAIN issuedFor
  BY <1>1 DEF EnrollInv, EnrollTypeOK
<1>4. Ledger'
  BY <1>3 DEF EnrollInv, Ledger, Fresh, InItsRow, Saved, DecidedOnce, HandedOutOnce, TokensAccountedFor, enrollVars
<1> QED
  BY <1>2, <1>4 DEF EnrollInv

\* The requests that approve and reject wait as the others do.
LEMMA BeginDecision ==
  ASSUME EnrollInv, NEW c \in Conns, NEW op \in {"approve", "reject"}, NEW leaf,
         Begin(c, op, leaf), UNCHANGED enrollVars
  PROVE  EnrollInv'
<1>1. WaitingOK'
  BY WaitType DEF Begin, Asked, EnrollInv, RosterTypeInv, TypeOK
<1>2. RosterTypeInv'
  BY <1>1 DEF Begin, EnrollInv, RosterTypeInv, TypeOK, RowsOK, TokensOK, HistoryOK
<1> QED
  BY <1>2, LedgerBeside DEF Begin

-----------------------------------------------------------------------------
(* Approvals. *)

\* Binding to a member, old or new, keeps the tables of members typed.
LEMMA BindType ==
  ASSUME RosterTypeInv, NEW n \in Names, presets' = presets,
         Bind(n) \/ \E raw \in Raws : Recruit(n, raw)
  PROVE  /\ RowsOK'
         /\ era' \in [Names -> 0..MaxEdits + 1]
         /\ edits' \in 0..MaxEdits
         /\ \A x \in Names : era'[x] <= edits' + 1
<1>1. CASE Bind(n)
  BY <1>1 DEF Bind, RosterTypeInv, TypeOK, RowsOK, HistoryOK
<1>2. CASE \E raw \in Raws : Recruit(n, raw)
  <2>1. PICK raw \in Raws : Recruit(n, raw)
    BY <1>2
  <2>2. Edit /\ Join(n, raw)
    BY <2>1 DEF Recruit
  <2>3. RowsOK' /\ era' \in [Names -> 0..MaxEdits + 1] /\ \A x \in Names : era'[x] <= edits' + 1
    BY <2>2, JoinType DEF RosterTypeInv, TypeOK
  <2> QED
    BY <2>2, <2>3, EditType DEF RosterTypeInv, TypeOK
<1> QED
  BY <1>1, <1>2

\* The next token, issued for a code.
LEMMA IssuedFor ==
  ASSUME RosterTypeInv, NEW n \in Names, NEW e, Issue(tokens, n, e, "enroll"),
         NEW code, issuedFor' = With(issuedFor, minted + 1, code)
  PROVE  /\ minted \in Nat /\ minted' = minted + 1
         /\ DOMAIN tokens' = DOMAIN tokens \cup {minted + 1}
         /\ DOMAIN issuedFor' = DOMAIN issuedFor \cup {minted + 1}
         /\ issuedFor'[minted + 1] = code
         /\ \A t \in DOMAIN issuedFor : t # minted + 1 => issuedFor'[t] = issuedFor[t]
BY DEF RosterTypeInv, TypeOK, TokensOK, Issue, With

LEMMA ApproveStep ==
  ASSUME EnrollInv, NEW c \in Conns, NEW code \in Codes, NEW n \in Names, Approve(c, code, n)
  PROVE  EnrollInv'
<1>1. /\ RowsOK' /\ era' \in [Names -> 0..MaxEdits + 1] /\ edits' \in 0..MaxEdits
      /\ \A x \in Names : era'[x] <= edits' + 1
  BY BindType DEF Approve, EnrollInv
<1>2. era'[n] \in 0..MaxEdits + 1
  BY <1>1
<1>3. TokensOK'
  BY <1>2, IssueType DEF Approve, EnrollInv, RosterTypeInv, TypeOK, TokensOK, Origins
<1>4. WaitingOK'
  BY ServedType DEF Approve, EnrollInv, RosterTypeInv, TypeOK
<1>5. RosterTypeInv'
  BY <1>1, <1>3, <1>4 DEF Approve, EnrollInv, RosterTypeInv, TypeOK, HistoryOK
<1>6. /\ minted \in Nat /\ minted' = minted + 1
      /\ DOMAIN tokens' = DOMAIN tokens \cup {minted + 1}
      /\ DOMAIN issuedFor' = DOMAIN issuedFor \cup {minted + 1}
      /\ issuedFor'[minted + 1] = code
      /\ \A t \in DOMAIN issuedFor : t # minted + 1 => issuedFor'[t] = issuedFor[t]
  BY IssuedFor DEF Approve, EnrollInv
<1>7. /\ code \in DOMAIN rows /\ rows[code].status = "pending"
      /\ rows' = [rows EXCEPT ![code] = Row("approved", n, minted + 1)]
      /\ verdicts' = [verdicts EXCEPT ![code] = @ + 1]
      /\ UNCHANGED <<late, device, held, handouts, strays, losses>>
  BY DEF Approve, Actionable, Settle
<1>8. /\ DOMAIN rows' = DOMAIN rows /\ rows'[code] = Row("approved", n, minted + 1)
      /\ \A x \in DOMAIN rows : x # code => rows'[x] = rows[x]
  BY <1>7
<1>9. EnrollTypeOK'
  BY <1>5, <1>6, <1>7, <1>8 DEF EnrollInv, EnrollTypeOK, RosterTypeInv, Row
<1>10. Ledger'
  <2>1. minted + 1 \notin DOMAIN issuedFor
    BY <1>6 DEF EnrollInv, EnrollTypeOK
  <2>2. verdicts[code] = 0 /\ rows[code].token = 0 /\ device[code] # "idle" /\ handouts[code] = 0
    BY <1>7 DEF EnrollInv, Ledger, Fresh, InItsRow, Saved
  <2>3. DecidedOnce'
    BY <1>7, <2>2 DEF EnrollInv, EnrollTypeOK, Ledger, Fresh, InItsRow, Saved, DecidedOnce
  <2>4. HandedOutOnce'
    BY <1>6, <1>7, <2>1 DEF EnrollInv, EnrollTypeOK, Ledger, Fresh, InItsRow, Saved, HandedOutOnce
  <2>5. TokensAccountedFor'
    <3> SUFFICES ASSUME NEW t \in DOMAIN tokens' \cap DOMAIN issuedFor'
                 PROVE  \/ issuedFor'[t] \in DOMAIN rows' /\ rows'[issuedFor'[t]].token = t
                        \/ handouts'[issuedFor'[t]] = 1
                        \/ issuedFor'[t] \in late' \/ t \in strays'
      BY DEF TokensAccountedFor
    <3>1. CASE t = minted + 1
      BY <1>6, <1>7, <1>8, <3>1 DEF Row
    <3>2. CASE t # minted + 1
      <4>1. t \in DOMAIN tokens \cap DOMAIN issuedFor /\ issuedFor'[t] = issuedFor[t] /\ t # 0
        BY <1>6, <3>2 DEF EnrollInv, EnrollTypeOK
      <4>2. CASE issuedFor[t] = code
        BY <1>7, <2>2, <4>1, <4>2 DEF EnrollInv, Ledger, Fresh, InItsRow, Saved, TokensAccountedFor
      <4>3. CASE issuedFor[t] # code
        BY <1>7, <1>8, <4>1, <4>3 DEF EnrollInv, Ledger, Fresh, InItsRow, Saved, TokensAccountedFor
      <4> QED
        BY <4>2, <4>3
    <3> QED
      BY <3>1, <3>2
  <2>6. \A x \in Codes : device'[x] = "idle" =>
          x \notin DOMAIN rows' /\ verdicts'[x] = 0 /\ handouts'[x] = 0
    BY <1>7, <1>8, <2>2 DEF EnrollInv, EnrollTypeOK, Ledger, Fresh, InItsRow, Saved
  <2>7. \A x \in DOMAIN rows' :
          /\ handouts'[x] = 0
          /\ rows'[x].status = "pending" => verdicts'[x] = 0
          /\ rows'[x].status # "approved" => rows'[x].token = 0
          /\ rows'[x].status = "approved" =>
               rows'[x].token \in DOMAIN issuedFor' /\ issuedFor'[rows'[x].token] = x
    <3> TAKE x \in DOMAIN rows'
    <3>1. CASE x = code
      BY <1>6, <1>7, <1>8, <2>2, <3>1 DEF Row
    <3>2. CASE x # code
      BY <1>6, <1>7, <1>8, <2>1, <3>2 DEF EnrollInv, EnrollTypeOK, Ledger, Fresh, InItsRow, Saved
    <3> QED
      BY <3>1, <3>2
  <2>8. \A x \in Codes : held'[x] # 0 => held'[x] \in DOMAIN issuedFor'
    BY <1>6, <1>7 DEF EnrollInv, Ledger, Fresh, InItsRow, Saved
  <2> QED
    BY <2>3, <2>4, <2>5, <2>6, <2>7, <2>8 DEF Ledger, Fresh, InItsRow, Saved
<1> QED
  BY <1>5, <1>9, <1>10 DEF EnrollInv

LEMMA ApproveCutStep ==
  ASSUME EnrollInv, NEW c \in Conns, NEW code \in Codes, NEW n \in Names,
         ApproveCut(c, code, n)
  PROVE  EnrollInv'
<1>1. /\ RowsOK' /\ era' \in [Names -> 0..MaxEdits + 1] /\ edits' \in 0..MaxEdits
      /\ \A x \in Names : era'[x] <= edits' + 1
  BY BindType DEF ApproveCut, EnrollInv
<1>2. WaitingOK' /\ crashes' \in 0..MaxCrashes
  BY DieType DEF ApproveCut, EnrollInv, RosterTypeInv, TypeOK
<1>3. TokensOK' => RosterTypeInv'
  BY <1>1, <1>2 DEF ApproveCut, EnrollInv, RosterTypeInv, TypeOK, HistoryOK
<1>4. UNCHANGED <<rows, late, device, held, verdicts, handouts, losses>>
  BY DEF ApproveCut
<1>5. CASE UNCHANGED <<tokens, minted, issuedFor, strays>>
  <2>1. TokensOK' /\ UNCHANGED enrollVars /\ minted' = minted /\ tokens' = tokens
    BY <1>4, <1>5 DEF EnrollInv, RosterTypeInv, TypeOK, TokensOK, enrollVars
  <2> QED
    BY <1>3, <2>1, LedgerBeside
<1>6. CASE /\ Issue(tokens, n, era'[n], "enroll")
           /\ issuedFor' = With(issuedFor, minted + 1, code)
           /\ strays' = strays \cup {minted + 1}
  <2>1. era'[n] \in 0..MaxEdits + 1
    BY <1>1
  <2>2. TokensOK'
    BY <1>6, <2>1, IssueType DEF EnrollInv, RosterTypeInv, TypeOK, TokensOK, Origins
  <2>3. /\ minted \in Nat /\ minted' = minted + 1
        /\ DOMAIN tokens' = DOMAIN tokens \cup {minted + 1}
        /\ DOMAIN issuedFor' = DOMAIN issuedFor \cup {minted + 1}
        /\ issuedFor'[minted + 1] = code
        /\ \A t \in DOMAIN issuedFor : t # minted + 1 => issuedFor'[t] = issuedFor[t]
    BY <1>6, IssuedFor DEF EnrollInv
  <2>4. minted + 1 \notin DOMAIN issuedFor
    BY <2>3 DEF EnrollInv, EnrollTypeOK
  <2>5. EnrollTypeOK'
    <3>1. TypeOK'
      BY <1>3, <2>2 DEF RosterTypeInv
    <3>2. \A t \in DOMAIN issuedFor' : issuedFor'[t] \in Codes
      BY <2>3 DEF EnrollInv, EnrollTypeOK
    <3>3. \A x \in DOMAIN rows' :
            rows'[x] \in [status : {"pending", "approved", "rejected"},
                          member : Names \cup {Nobody}, token : 0..minted']
      BY <1>4, <2>3 DEF EnrollInv, EnrollTypeOK
    <3>4. held' \in [Codes -> 0..minted']
      BY <1>4, <2>3 DEF EnrollInv, EnrollTypeOK
    <3>5. DOMAIN issuedFor' \subseteq 1..minted' /\ strays' \subseteq 1..minted'
      BY <1>6, <2>3 DEF EnrollInv, EnrollTypeOK
    <3> QED
      BY <1>4, <3>1, <3>2, <3>3, <3>4, <3>5 DEF EnrollInv, EnrollTypeOK
  <2>6. DecidedOnce' /\ HandedOutOnce'
    BY <1>4, <2>3, <2>4 DEF EnrollInv, Ledger, Fresh, InItsRow, Saved, DecidedOnce, HandedOutOnce
  <2>7. TokensAccountedFor'
    BY <1>4, <1>6, <2>3, <2>4 DEF EnrollInv, Ledger, Fresh, InItsRow, Saved, TokensAccountedFor
  <2>8. Ledger'
    BY <1>4, <2>3, <2>4, <2>6, <2>7 DEF EnrollInv, EnrollTypeOK, Ledger, Fresh, InItsRow, Saved
  <2> QED
    BY <1>3, <2>2, <2>5, <2>8 DEF EnrollInv
<1> QED
  BY <1>5, <1>6 DEF ApproveCut

LEMMA RejectStep ==
  ASSUME EnrollInv, NEW c \in Conns, NEW code \in Codes, Reject(c, code)
  PROVE  EnrollInv'
<1>1. WaitingOK'
  BY ServedType DEF Reject, EnrollInv, RosterTypeInv, TypeOK
<1>2. RosterTypeInv'
  BY <1>1 DEF Reject, EnrollInv, RosterTypeInv, TypeOK, RowsOK, TokensOK, HistoryOK
<1>3. /\ code \in DOMAIN rows /\ rows[code].status = "pending"
      /\ DOMAIN rows' = DOMAIN rows /\ rows'[code] = Row("rejected", Nobody, 0)
      /\ \A x \in DOMAIN rows : x # code => rows'[x] = rows[x]
      /\ verdicts' = [verdicts EXCEPT ![code] = @ + 1]
      /\ UNCHANGED <<tokens, minted, late, device, held, issuedFor, handouts, strays, losses>>
  BY DEF Reject, Settle
<1>4. verdicts[code] = 0 /\ rows[code].token = 0 /\ device[code] # "idle"
  BY <1>3 DEF EnrollInv, Ledger, Fresh, InItsRow, Saved
<1>5. minted \in Nat
  BY DEF EnrollInv, RosterTypeInv, TypeOK, TokensOK
<1>6. EnrollTypeOK'
  BY <1>2, <1>3, <1>5 DEF EnrollInv, EnrollTypeOK, RosterTypeInv, Row
<1>7. DecidedOnce' /\ HandedOutOnce'
  BY <1>3, <1>4 DEF EnrollInv, EnrollTypeOK, Ledger, Fresh, InItsRow, Saved, DecidedOnce, HandedOutOnce
<1>8. TokensAccountedFor'
  <2>1. \A t \in DOMAIN issuedFor : t # 0
    BY <1>5 DEF EnrollInv, EnrollTypeOK
  <2> QED
    BY <1>3, <1>4, <2>1 DEF EnrollInv, Ledger, Fresh, InItsRow, Saved, TokensAccountedFor
<1>9. Ledger'
  BY <1>3, <1>4, <1>7, <1>8 DEF EnrollInv, EnrollTypeOK, Ledger, Fresh, InItsRow, Saved, Row
<1> QED
  BY <1>2, <1>6, <1>9 DEF EnrollInv

-----------------------------------------------------------------------------
(* The device, time and the process. *)

LEMMA RosterAlone ==
  ASSUME RosterTypeInv, UNCHANGED rosterVars PROVE RosterTypeInv'
BY DEF rosterVars, RosterTypeInv, TypeOK, RowsOK, TokensOK, WaitingOK, HistoryOK

\* What an answer, taken or lost, makes of the device.
LEMMA AnsweredType ==
  ASSUME EnrollInv, NEW code \in Codes, device[code] = "polling", minted' = minted,
         NEW outcome \in Over, NEW token \in 0..minted, token # 0 <=> outcome = "connected",
         Answered(code, outcome, token)
  PROVE  /\ device' \in [Codes -> {"idle", "polling"} \cup Over]
         /\ held' \in [Codes -> 0..minted']
         /\ \A x \in Codes : held'[x] # 0 <=> device'[x] = "connected"
         /\ losses' \in 0..MaxLosses
         /\ \A x \in Codes : device'[x] = "idle" <=> device[x] = "idle"
         /\ \A x \in Codes : held'[x] = held[x] \/ (x = code /\ held'[x] = token)
<1>1. CASE device' = [device EXCEPT ![code] = outcome] /\ held' = [held EXCEPT ![code] = token]
           /\ losses' = losses
  BY <1>1 DEF EnrollInv, EnrollTypeOK, Over
<1>2. CASE losses < MaxLosses /\ losses' = losses + 1 /\ UNCHANGED <<device, held>>
  BY <1>2, LossAssumption DEF EnrollInv, EnrollTypeOK
<1> QED
  BY <1>1, <1>2 DEF Answered

\* A row taken away, by a poll or by a boot.
LEMMA RowsType ==
  ASSUME EnrollInv, NEW K, rows' = Without(rows, K), minted' = minted
  PROVE  /\ DOMAIN rows' = DOMAIN rows \ K
         /\ \A x \in DOMAIN rows' : rows'[x] = rows[x]
         /\ DOMAIN rows' \subseteq Codes
         /\ \A x \in DOMAIN rows' :
              rows'[x] \in [status : {"pending", "approved", "rejected"},
                            member : Names \cup {Nobody}, token : 0..minted']
BY DEF EnrollInv, EnrollTypeOK, Without, Restrict

LEMMA FewerRows ==
  ASSUME EnrollInv, NEW K, rows' = Without(rows, K),
         UNCHANGED <<minted, issuedFor, verdicts>>,
         \A x \in Codes : device'[x] = "idle" <=> device[x] = "idle",
         \A x \in Codes : handouts'[x] = handouts[x] \/ (x \in K /\ device[x] # "idle"),
         \A x \in Codes :
           held'[x] = held[x] \/ held'[x] = 0 \/ held'[x] \in DOMAIN issuedFor
  PROVE  Fresh' /\ InItsRow' /\ Saved' /\ DecidedOnce'
<1>1. Fresh /\ InItsRow /\ Saved /\ DecidedOnce
  BY DEF EnrollInv, Ledger
<1>2. /\ DOMAIN rows' = DOMAIN rows \ K
      /\ \A x \in DOMAIN rows' : rows'[x] = rows[x]
      /\ DOMAIN rows' \subseteq Codes
  BY RowsType
<1>3. Fresh'
  BY <1>1, <1>2 DEF Fresh
<1>4. InItsRow'
  BY <1>1, <1>2 DEF InItsRow
<1>5. Saved' /\ DecidedOnce'
  BY <1>1 DEF Saved, DecidedOnce
<1> QED
  BY <1>3, <1>4, <1>5

\* A token whose row goes away was handed out, is late or a stray, or goes too.
LEMMA AccountedFewerRows ==
  ASSUME EnrollInv, NEW K, rows' = Without(rows, K), UNCHANGED <<minted, issuedFor>>,
         late \subseteq late', strays \subseteq strays',
         DOMAIN tokens' \subseteq DOMAIN tokens,
         \A x \in Codes : handouts[x] = 1 => handouts'[x] = 1,
         \A x \in K \cap DOMAIN rows :
           \/ handouts'[x] = 1 \/ x \in late'
           \/ rows[x].token \in strays' \/ rows[x].token \notin DOMAIN tokens'
  PROVE  TokensAccountedFor'
<1>1. /\ DOMAIN rows' = DOMAIN rows \ K
      /\ \A x \in DOMAIN rows' : rows'[x] = rows[x]
  BY RowsType
<1>2. TokensAccountedFor /\ \A t \in DOMAIN issuedFor : issuedFor[t] \in Codes
  BY DEF EnrollInv, EnrollTypeOK, Ledger
<1> QED
  BY <1>1, <1>2 DEF TokensAccountedFor

LEMMA MintStep ==
  ASSUME EnrollInv, NEW code \in Codes, Mint(code) PROVE EnrollInv'
<1>1. RosterTypeInv'
  BY RosterAlone DEF Mint, EnrollInv
<1>2. /\ DOMAIN rows' = DOMAIN rows \cup {code} /\ rows'[code] = PendingRow
      /\ \A x \in DOMAIN rows : x # code => rows'[x] = rows[x]
      /\ device[code] = "idle" /\ device' = [device EXCEPT ![code] = "polling"]
      /\ UNCHANGED <<tokens, minted, late, held, issuedFor, verdicts, handouts, strays, losses>>
  BY DEF Mint, With, rosterVars
<1>3. code \notin DOMAIN rows /\ verdicts[code] = 0 /\ handouts[code] = 0
  BY <1>2 DEF EnrollInv, Ledger, Fresh, InItsRow, Saved
<1>4. minted \in Nat
  BY DEF EnrollInv, RosterTypeInv, TypeOK, TokensOK
<1>5. EnrollTypeOK'
  BY <1>1, <1>2, <1>4 DEF EnrollInv, EnrollTypeOK, RosterTypeInv, PendingRow, Row, Over
<1>6. Ledger'
  BY <1>2, <1>3
  DEF EnrollInv, EnrollTypeOK, Ledger, Fresh, InItsRow, Saved, DecidedOnce, HandedOutOnce, TokensAccountedFor,
      PendingRow, Row
<1> QED
  BY <1>1, <1>5, <1>6 DEF EnrollInv

LEMMA PollGoneStep ==
  ASSUME EnrollInv, NEW code \in Codes, PollExpired(code) \/ PollRejected(code)
  PROVE  EnrollInv'
<1>1. RosterTypeInv'
  BY RosterAlone DEF PollExpired, PollRejected, EnrollInv
<1>2. /\ UNCHANGED <<tokens, minted, late, issuedFor, verdicts, handouts, strays>>
      /\ rows' = Without(rows, {code}) /\ device[code] = "polling"
      /\ Answered(code, "expired", 0) \/ Answered(code, "denied", 0)
      /\ code \in DOMAIN rows => code \in late \/ rows[code].token = 0
  BY DEF PollExpired, PollRejected, Polling, rosterVars, EnrollInv, Ledger, InItsRow
<1>3. minted \in Nat
  BY DEF EnrollInv, RosterTypeInv, TypeOK, TokensOK
<1>4. /\ device' \in [Codes -> {"idle", "polling"} \cup Over]
      /\ held' \in [Codes -> 0..minted']
      /\ \A x \in Codes : held'[x] # 0 <=> device'[x] = "connected"
      /\ losses' \in 0..MaxLosses
      /\ \A x \in Codes : device'[x] = "idle" <=> device[x] = "idle"
      /\ \A x \in Codes : held'[x] = held[x] \/ (x = code /\ held'[x] = 0)
  BY <1>2, <1>3, AnsweredType DEF Over
<1>5. /\ DOMAIN rows' = DOMAIN rows \ {code}
      /\ \A x \in DOMAIN rows' : rows'[x] = rows[x]
      /\ DOMAIN rows' \subseteq Codes
      /\ \A x \in DOMAIN rows' :
           rows'[x] \in [status : {"pending", "approved", "rejected"},
                         member : Names \cup {Nobody}, token : 0..minted']
  BY <1>2, RowsType
<1>6. EnrollTypeOK'
  BY <1>1, <1>2, <1>4, <1>5 DEF EnrollInv, EnrollTypeOK, RosterTypeInv
<1>7. TokensAccountedFor'
  <2>1. 0 \notin DOMAIN tokens
    BY <1>3 DEF EnrollInv, RosterTypeInv, TypeOK, TokensOK
  <2> QED
    BY <1>2, <2>1, AccountedFewerRows
<1>8. HandedOutOnce'
  BY <1>2, <1>4 DEF EnrollInv, Ledger, HandedOutOnce
<1>9. Fresh' /\ InItsRow' /\ Saved' /\ DecidedOnce'
  BY <1>2, <1>4, FewerRows
<1> QED
  BY <1>1, <1>6, <1>7, <1>8, <1>9 DEF EnrollInv, Ledger

LEMMA PollApprovedStep ==
  ASSUME EnrollInv, NEW code \in Codes, PollApproved(code) PROVE EnrollInv'
<1> DEFINE token == rows[code].token
<1>1. RosterTypeInv'
  BY RosterAlone DEF PollApproved, EnrollInv
<1>2. /\ UNCHANGED <<tokens, minted, late, issuedFor, verdicts, strays>>
      /\ rows' = Without(rows, {code}) /\ device[code] = "polling"
      /\ code \in DOMAIN rows /\ rows[code].status = "approved"
      /\ Answered(code, "connected", token)
      /\ handouts' = [handouts EXCEPT ![code] = @ + 1]
  BY DEF PollApproved, Consumed, Polling, rosterVars
<1>3. minted \in Nat /\ handouts[code] = 0 /\ token \in DOMAIN issuedFor /\ issuedFor[token] = code
  BY <1>2 DEF EnrollInv, RosterTypeInv, TypeOK, TokensOK, Ledger, InItsRow
<1>4. token \in 1..minted
  BY <1>3 DEF EnrollInv, EnrollTypeOK
<1>5. /\ device' \in [Codes -> {"idle", "polling"} \cup Over]
      /\ held' \in [Codes -> 0..minted']
      /\ \A x \in Codes : held'[x] # 0 <=> device'[x] = "connected"
      /\ losses' \in 0..MaxLosses
      /\ \A x \in Codes : device'[x] = "idle" <=> device[x] = "idle"
      /\ \A x \in Codes : held'[x] = held[x] \/ (x = code /\ held'[x] = token)
  <2>1. token \in 0..minted /\ token # 0 /\ "connected" \in Over
    BY <1>3, <1>4 DEF Over
  <2> HIDE DEF token
  <2> QED
    BY <1>2, <2>1, AnsweredType
<1>6. /\ DOMAIN rows' = DOMAIN rows \ {code}
      /\ \A x \in DOMAIN rows' : rows'[x] = rows[x]
      /\ DOMAIN rows' \subseteq Codes
      /\ \A x \in DOMAIN rows' :
           rows'[x] \in [status : {"pending", "approved", "rejected"},
                         member : Names \cup {Nobody}, token : 0..minted']
  BY <1>2, RowsType
<1>7. /\ handouts' \in [Codes -> Nat] /\ handouts'[code] = 1
      /\ \A x \in Codes : x # code => handouts'[x] = handouts[x]
  BY <1>2, <1>3 DEF EnrollInv, EnrollTypeOK
<1>8. EnrollTypeOK'
  BY <1>1, <1>2, <1>5, <1>6, <1>7 DEF EnrollInv, EnrollTypeOK, RosterTypeInv
<1>9. HandedOutOnce'
  BY <1>2, <1>3, <1>5, <1>7 DEF EnrollInv, Ledger, Fresh, InItsRow, Saved, HandedOutOnce
<1>10. TokensAccountedFor'
  BY <1>2, <1>7, AccountedFewerRows DEF EnrollInv, EnrollTypeOK
<1>11. Fresh' /\ InItsRow' /\ Saved' /\ DecidedOnce'
  <2>1. \A x \in Codes :
          held'[x] = held[x] \/ held'[x] = 0 \/ held'[x] \in DOMAIN issuedFor
    BY <1>3, <1>5
  <2>2. \A x \in Codes : handouts'[x] = handouts[x] \/ (x \in {code} /\ device[x] # "idle")
    BY <1>2, <1>7
  <2> HIDE DEF token
  <2> QED
    BY <1>2, <1>5, <2>1, <2>2, FewerRows
<1> QED
  BY <1>1, <1>8, <1>9, <1>10, <1>11 DEF EnrollInv, Ledger

LEMMA PollOrphanedStep ==
  ASSUME EnrollInv, NEW code \in Codes, PollOrphaned(code) PROVE EnrollInv'
<1>1. TokensOK' /\ DOMAIN tokens' = DOMAIN tokens \ {rows[code].token}
  BY RevokeType DEF PollOrphaned, EnrollInv, RosterTypeInv, TypeOK, Without, Restrict
<1>2. RosterTypeInv'
  BY <1>1 DEF PollOrphaned, EnrollInv, RosterTypeInv, TypeOK, RowsOK, WaitingOK, HistoryOK
<1>3. /\ UNCHANGED <<minted, late, issuedFor, verdicts, handouts, strays>>
      /\ rows' = Without(rows, {code}) /\ device[code] = "polling"
      /\ Answered(code, "expired", 0)
  BY DEF PollOrphaned, Consumed, Polling
<1>4. minted \in Nat
  BY DEF EnrollInv, RosterTypeInv, TypeOK, TokensOK
<1>5. /\ device' \in [Codes -> {"idle", "polling"} \cup Over]
      /\ held' \in [Codes -> 0..minted']
      /\ \A x \in Codes : held'[x] # 0 <=> device'[x] = "connected"
      /\ losses' \in 0..MaxLosses
      /\ \A x \in Codes : device'[x] = "idle" <=> device[x] = "idle"
      /\ \A x \in Codes : held'[x] = held[x] \/ (x = code /\ held'[x] = 0)
  BY <1>3, <1>4, AnsweredType DEF Over
<1>6. /\ DOMAIN rows' = DOMAIN rows \ {code}
      /\ \A x \in DOMAIN rows' : rows'[x] = rows[x]
      /\ DOMAIN rows' \subseteq Codes
      /\ \A x \in DOMAIN rows' :
           rows'[x] \in [status : {"pending", "approved", "rejected"},
                         member : Names \cup {Nobody}, token : 0..minted']
  BY <1>3, RowsType
<1>7. EnrollTypeOK'
  BY <1>2, <1>3, <1>5, <1>6 DEF EnrollInv, EnrollTypeOK, RosterTypeInv
<1>8. TokensAccountedFor'
  BY <1>1, <1>3, AccountedFewerRows
<1>9. HandedOutOnce'
  BY <1>3, <1>5 DEF EnrollInv, Ledger, HandedOutOnce
<1>10. Fresh' /\ InItsRow' /\ Saved' /\ DecidedOnce'
  BY <1>3, <1>5, FewerRows
<1> QED
  BY <1>2, <1>7, <1>8, <1>9, <1>10 DEF EnrollInv, Ledger

LEMMA PollThrownStep ==
  ASSUME EnrollInv, NEW code \in Codes, PollThrown(code) PROVE EnrollInv'
<1>1. RosterTypeInv'
  BY RosterAlone DEF PollThrown, EnrollInv
<1>2. /\ UNCHANGED <<tokens, minted, late, device, held, issuedFor, verdicts, handouts, losses>>
      /\ rows' = Without(rows, {code}) /\ strays' = strays \cup {rows[code].token}
      /\ code \in DOMAIN rows /\ rows[code].status = "approved"
  BY DEF PollThrown, Consumed, rosterVars
<1>3. rows[code].token \in 1..minted
  BY <1>2 DEF EnrollInv, EnrollTypeOK, Ledger, Fresh, InItsRow, Saved
<1>4. /\ DOMAIN rows' = DOMAIN rows \ {code}
      /\ \A x \in DOMAIN rows' : rows'[x] = rows[x]
      /\ DOMAIN rows' \subseteq Codes
      /\ \A x \in DOMAIN rows' :
           rows'[x] \in [status : {"pending", "approved", "rejected"},
                         member : Names \cup {Nobody}, token : 0..minted']
  BY <1>2, RowsType
<1>5. EnrollTypeOK'
  BY <1>1, <1>2, <1>3, <1>4 DEF EnrollInv, EnrollTypeOK, RosterTypeInv
<1>6. TokensAccountedFor'
  BY <1>2, AccountedFewerRows
<1>7. HandedOutOnce'
  BY <1>2 DEF EnrollInv, Ledger, HandedOutOnce
<1>8. Fresh' /\ InItsRow' /\ Saved' /\ DecidedOnce'
  BY <1>2, FewerRows
<1> QED
  BY <1>1, <1>5, <1>6, <1>7, <1>8 DEF EnrollInv, Ledger

\* The device stops, or its code passes its time; no row changes.
LEMMA ClockStep ==
  ASSUME EnrollInv, NEW code \in Codes, GiveUp(code) \/ Leave(code) \/ Expire(code)
  PROVE  EnrollInv'
<1>1. RosterTypeInv'
  BY RosterAlone DEF GiveUp, Leave, Expire, EnrollInv
<1>2. UNCHANGED <<tokens, minted, rows, held, issuedFor, verdicts, handouts, strays, losses>>
  BY DEF GiveUp, Leave, Expire, rosterVars
<1>3. /\ late \subseteq late' /\ late' \subseteq Codes
      /\ device' \in [Codes -> {"idle", "polling"} \cup Over]
      /\ \A x \in Codes : device'[x] = "connected" <=> device[x] = "connected"
      /\ \A x \in Codes : device'[x] = "idle" <=> device[x] = "idle"
  BY DEF GiveUp, Leave, Expire, EnrollInv, EnrollTypeOK, Over
<1>4. EnrollTypeOK'
  BY <1>1, <1>2, <1>3 DEF EnrollInv, EnrollTypeOK, RosterTypeInv
<1>5. Ledger'
  BY <1>2, <1>3 DEF EnrollInv, Ledger, Fresh, InItsRow, Saved, DecidedOnce, HandedOutOnce, TokensAccountedFor
<1> QED
  BY <1>1, <1>4, <1>5 DEF EnrollInv

LEMMA RestartStep ==
  ASSUME EnrollInv, Restart PROVE EnrollInv'
<1>1. RosterTypeInv' /\ UNCHANGED <<tokens, minted>>
  BY RosterTypeStep DEF Restart, EnrollInv, Boot
<1>2. /\ rows' = Without(rows, Purged)
      /\ UNCHANGED <<late, device, held, issuedFor, verdicts, handouts, strays, losses>>
  BY DEF Restart
<1>3. /\ DOMAIN rows' = DOMAIN rows \ Purged
      /\ \A x \in DOMAIN rows' : rows'[x] = rows[x]
      /\ DOMAIN rows' \subseteq Codes
      /\ \A x \in DOMAIN rows' :
           rows'[x] \in [status : {"pending", "approved", "rejected"},
                         member : Names \cup {Nobody}, token : 0..minted']
  BY <1>1, <1>2, RowsType
<1>4. EnrollTypeOK'
  BY <1>1, <1>2, <1>3 DEF EnrollInv, EnrollTypeOK, RosterTypeInv
<1>5. TokensAccountedFor'
  BY <1>1, <1>2, AccountedFewerRows DEF Purged
<1>6. HandedOutOnce'
  BY <1>2 DEF EnrollInv, Ledger, HandedOutOnce
<1>7. Fresh' /\ InItsRow' /\ Saved' /\ DecidedOnce'
  BY <1>1, <1>2, FewerRows
<1> QED
  BY <1>1, <1>4, <1>5, <1>6, <1>7 DEF EnrollInv, Ledger

-----------------------------------------------------------------------------
(* The invariant, and what follows from it. *)

LEMMA EnrollInit == Init => EnrollInv
<1> SUFFICES ASSUME Init PROVE EnrollInv
  OBVIOUS
<1>1. RosterTypeInv /\ minted \in Nat
  BY RosterTypeInit DEF Init, RosterTypeInv, TypeOK, TokensOK
<1>2. /\ DOMAIN rows = {} /\ late = {} /\ DOMAIN issuedFor = {} /\ strays = {} /\ losses = 0
      /\ device = [code \in Codes |-> "idle"] /\ held = [code \in Codes |-> 0]
      /\ verdicts = [code \in Codes |-> 0] /\ handouts = [code \in Codes |-> 0]
  BY DEF Init, Empty
<1>3. EnrollTypeOK
  BY <1>1, <1>2, LossAssumption DEF EnrollTypeOK, RosterTypeInv, Over
<1>4. Fresh /\ InItsRow /\ Saved
  BY <1>2 DEF Fresh, InItsRow, Saved
<1>5. DecidedOnce /\ HandedOutOnce /\ TokensAccountedFor
  BY <1>2 DEF DecidedOnce, HandedOutOnce, TokensAccountedFor
<1> QED
  BY <1>1, <1>3, <1>4, <1>5 DEF EnrollInv, Ledger

LEMMA EnrollStep == EnrollInv /\ [Next]_vars => EnrollInv'
<1> SUFFICES ASSUME EnrollInv, [Next]_vars PROVE EnrollInv'
  OBVIOUS
<1>1. CASE RosterStep /\ UNCHANGED enrollVars
  BY <1>1, RosterTypeStep, RosterIssues, LedgerBeside DEF EnrollInv
<1>2. CASE Restart
  BY <1>2, RestartStep
<1>3. ASSUME NEW c \in Conns, UNCHANGED enrollVars,
             Begin(c, "approve", "members.manage") \/ Begin(c, "reject", "members.manage")
      PROVE  EnrollInv'
  BY <1>3, BeginDecision
<1>4. ASSUME NEW c \in Conns, NEW code \in Codes, NEW n \in Names,
             Approve(c, code, n) \/ ApproveCut(c, code, n)
      PROVE  EnrollInv'
  BY <1>4, ApproveStep, ApproveCutStep
<1>5. ASSUME NEW c \in Conns, NEW code \in Codes, Reject(c, code) PROVE EnrollInv'
  BY <1>5, RejectStep
<1>6. ASSUME NEW code \in Codes, Mint(code) PROVE EnrollInv'
  BY <1>6, MintStep
<1>7. ASSUME NEW code \in Codes, Poll(code) PROVE EnrollInv'
  BY <1>7, PollGoneStep, PollApprovedStep, PollOrphanedStep, PollThrownStep DEF Poll
<1>8. ASSUME NEW code \in Codes, GiveUp(code) \/ Leave(code) \/ Expire(code) PROVE EnrollInv'
  BY <1>8, ClockStep
<1>9. CASE UNCHANGED vars
  <2>1. UNCHANGED rosterVars /\ UNCHANGED enrollVars
    BY <1>9 DEF vars, rosterVars, enrollVars
  <2>2. RosterTypeInv'
    BY <2>1, RosterAlone DEF EnrollInv
  <2> QED
    BY <2>1, <2>2, LedgerBeside DEF rosterVars
<1> QED
  BY <1>1, <1>2, <1>3, <1>4, <1>5, <1>6, <1>7, <1>8, <1>9 DEF Next

\* The tables of the roster and of the enrollments stay typed, and a device
\* holds a token exactly when it connected (connect.ts:194-274).
THEOREM EnrollTypeCorrect == Spec => []EnrollTypeOK
<1>1. EnrollInv => EnrollTypeOK
  BY DEF EnrollInv
<1> QED
  BY EnrollInit, EnrollStep, <1>1, PTL DEF Spec

\* However many directors decide at once, one decision takes effect
\* (enrollments.ts:326-346).
THEOREM OneDecision == Spec => []DecidedOnce
<1>1. EnrollInv => DecidedOnce
  BY DEF EnrollInv, Ledger
<1> QED
  BY EnrollInit, EnrollStep, <1>1, PTL DEF Spec

\* The plaintext is answered at most once, and it is the token issued for the
\* enrollment of the device that saved it (enrollments.ts:457-516).
THEOREM OneHandout == Spec => []HandedOutOnce
<1>1. EnrollInv => HandedOutOnce
  BY DEF EnrollInv, Ledger
<1> QED
  BY EnrollInit, EnrollStep, <1>1, PTL DEF Spec

\* No live token of an enrollment is lost but by expiry, a crash inside the
\* approval or a poll that failed (app.ts:2550-2592, 2699-2727).
THEOREM NoTokenIsLost == Spec => []TokensAccountedFor
<1>1. EnrollInv => TokensAccountedFor
  BY DEF EnrollInv, Ledger
<1> QED
  BY EnrollInit, EnrollStep, <1>1, PTL DEF Spec

-----------------------------------------------------------------------------
(* What the roster promises still holds with enrollment beside it. *)

LEMMA BindKeepsAdmins ==
  ASSUME AnAdminRemains, NEW n, Bind(n) \/ \E raw \in Raws : Recruit(n, raw),
         UNCHANGED <<presets, slips>>
  PROVE  AnAdminRemains'
BY SameAdmins, JoinKeepsAdmins DEF Bind, Recruit

LEMMA BindFollows ==
  ASSUME RosterTypeInv, TokensFollowMembers, NEW n \in Names, torn' = torn,
         Bind(n) \/ \E raw \in Raws : Recruit(n, raw)
  PROVE  /\ \A t \in DOMAIN tokens :
              LET m == tokens[t].member
              IN m \in torn' \/ (m \in DOMAIN members' /\ tokens[t].era = era'[m])
         /\ n \in DOMAIN members'
<1>1. CASE Bind(n)
  BY <1>1 DEF Bind, Readable, TokensFollowMembers
<1>2. CASE \E raw \in Raws : Recruit(n, raw)
  BY <1>2, JoinRevivesNothing DEF Recruit
<1> QED
  BY <1>1, <1>2

\* The steps of Enrollment that leave members, presets and tokens alone, or
\* only drop a token.
LEMMA DeviceSteps ==
  ASSUME NEW code \in Codes,
         Mint(code) \/ Poll(code) \/ GiveUp(code) \/ Leave(code) \/ Expire(code)
  PROVE  /\ UNCHANGED <<members, presets, era, slips, torn>>
         /\ tokens' = tokens \/ \E K : tokens' = Without(tokens, K)
<1>1. CASE PollOrphaned(code)
  BY <1>1 DEF PollOrphaned
<1>2. CASE ~PollOrphaned(code)
  BY <1>2 DEF Mint, Poll, PollExpired, PollRejected, PollApproved, PollThrown, GiveUp, Leave,
     Expire, rosterVars
<1> QED
  BY <1>1, <1>2

\* With approvals adding members next to the roster's own handlers, the team
\* still keeps an admin (app.ts:2611-2738).
THEOREM EnrollmentKeepsAnAdmin == Spec => []AnAdminRemains
<1>1. Init => AnAdminRemains
  BY RosterAdminInit DEF Init
<1>2. AnAdminRemains /\ [Next]_vars => AnAdminRemains'
  <2> SUFFICES ASSUME AnAdminRemains, [Next]_vars PROVE AnAdminRemains'
    OBVIOUS
  <2>1. CASE RosterStep \/ Restart
    BY <2>1, AdminStep DEF Restart
  <2>2. ASSUME NEW c \in Conns, Begin(c, "approve", "members.manage")
                                \/ Begin(c, "reject", "members.manage")
        PROVE  AnAdminRemains'
    BY <2>2, SameAdmins DEF Begin
  <2>3. ASSUME NEW c \in Conns, NEW code \in Codes, NEW n \in Names, Approve(c, code, n)
        PROVE  AnAdminRemains'
    BY <2>3, BindKeepsAdmins DEF Approve
  <2>4. ASSUME NEW c \in Conns, NEW code \in Codes, NEW n \in Names, ApproveCut(c, code, n)
        PROVE  AnAdminRemains'
    BY <2>4, BindKeepsAdmins DEF ApproveCut
  <2>5. ASSUME NEW c \in Conns, NEW code \in Codes, Reject(c, code) PROVE AnAdminRemains'
    BY <2>5, SameAdmins DEF Reject
  <2>6. ASSUME NEW code \in Codes,
               Mint(code) \/ Poll(code) \/ GiveUp(code) \/ Leave(code) \/ Expire(code)
        PROVE  AnAdminRemains'
    BY <2>6, DeviceSteps, SameAdmins
  <2>7. CASE UNCHANGED vars
    BY <2>7, SameAdmins DEF vars
  <2> QED
    BY <2>1, <2>2, <2>3, <2>4, <2>5, <2>6, <2>7 DEF Next
<1> QED
  BY <1>1, <1>2, PTL DEF Spec

\* A token an approval issues follows its member as the others do
\* (app.ts:2699-2727).
THEOREM EnrollmentTokensBelong == Spec => []TokensFollowMembers
<1> DEFINE IInv == RosterTypeInv /\ EnrollInv /\ TokensFollowMembers
<1>1. Init => IInv
  BY EnrollInit, RosterTokensInit DEF Init, EnrollInv
<1>2. IInv /\ [Next]_vars => TokensFollowMembers'
  <2> SUFFICES ASSUME IInv, [Next]_vars PROVE TokensFollowMembers'
    OBVIOUS
  <2>1. CASE RosterStep \/ Restart
    BY <2>1, TokenStep DEF Restart
  <2>2. ASSUME NEW c \in Conns, Begin(c, "approve", "members.manage")
                                \/ Begin(c, "reject", "members.manage")
        PROVE  TokensFollowMembers'
    BY <2>2, SameTokens DEF Begin
  <2>3. ASSUME NEW c \in Conns, NEW code \in Codes, NEW n \in Names, Approve(c, code, n)
        PROVE  TokensFollowMembers'
    BY <2>3, BindFollows, IssueFollows DEF Approve
  <2>4. ASSUME NEW c \in Conns, NEW code \in Codes, NEW n \in Names, ApproveCut(c, code, n)
        PROVE  TokensFollowMembers'
    <3>1. /\ \A t \in DOMAIN tokens :
               LET m == tokens[t].member
               IN m \in torn' \/ (m \in DOMAIN members' /\ tokens[t].era = era'[m])
          /\ n \in DOMAIN members'
      <4>1. (Bind(n) \/ \E raw \in Raws : Recruit(n, raw)) /\ torn' = torn
        BY <2>4 DEF ApproveCut
      <4> QED
        BY <4>1, BindFollows
    <3>2. CASE tokens' = tokens
      BY <3>1, <3>2 DEF TokensFollowMembers
    <3>3. CASE Issue(tokens, n, era'[n], "enroll")
      BY <3>1, <3>3, IssueFollows
    <3> QED
      BY <2>4, <3>2, <3>3 DEF ApproveCut
  <2>5. ASSUME NEW c \in Conns, NEW code \in Codes, Reject(c, code)
        PROVE  TokensFollowMembers'
    BY <2>5, SameTokens DEF Reject
  <2>6. ASSUME NEW code \in Codes,
               Mint(code) \/ Poll(code) \/ GiveUp(code) \/ Leave(code) \/ Expire(code)
        PROVE  TokensFollowMembers'
    BY <2>6, DeviceSteps, SameTokens, FewerTokens
  <2>7. CASE UNCHANGED vars
    BY <2>7, SameTokens DEF vars
  <2> QED
    BY <2>1, <2>2, <2>3, <2>4, <2>5, <2>6, <2>7 DEF Next
<1>3. IInv /\ [Next]_vars => IInv'
  BY <1>2, EnrollStep DEF EnrollInv
<1> QED
  BY <1>1, <1>3, PTL DEF Spec
=============================================================================
