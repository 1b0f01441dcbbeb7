------------------------------- MODULE Roster -------------------------------
(***************************************************************************)
(* The team's roster in the broker: members, permission presets and bearer *)
(* tokens (apps/server/src/team-store.ts and tokens.ts) and the handlers   *)
(* that edit them (app.ts, 2052-2410).                                     *)
(*                                                                         *)
(* A member's row keeps raw entries, leaves or preset names, and every     *)
(* read resolves them against the presets of that moment; an entry that is *)
(* neither throws, out of findByName for that member and out of members()  *)
(* for everyone.                                                           *)
(*                                                                         *)
(* Permission is checked when a request arrives.  A handler with a body    *)
(* then waits for it, and its reads and writes after the wait are one      *)
(* step; each write is a statement of its own, so a crash can fall between *)
(* two of them.                                                            *)
(***************************************************************************)
EXTENDS Integers, FiniteSets, Functions

CONSTANTS
  Names,       \* member names
  Presets,     \* preset names
  Admin,       \* the preset the wizard gives the first member
  Raws,        \* raw permission lists a request may carry
  Conns,       \* connections a request can wait on
  Nobody,      \* no member
  MaxTokens,   \* bound: tokens ever issued
  MaxEdits,    \* bound: changes of members and presets
  MaxCrashes   \* bound: crashes of the broker

Leaves == {"members.manage", "team.manage"}
Entries == Leaves \cup Presets

ASSUME NamesAssumption ==
  /\ IsFiniteSet(Names) /\ Nobody \notin Names
  /\ Admin \in Presets /\ Presets \cap Leaves = {}
  /\ Raws \subseteq SUBSET Entries
ASSUME CountAssumption == MaxTokens \in Nat \ {0} /\ {MaxEdits, MaxCrashes} \subseteq Nat

VARIABLES
  members,   \* table members: name -> raw entries
  presets,   \* table permission_presets: name -> leaves
  tokens,    \* table tokens, the active rows: id -> row
  minted,    \* tokens issued so far; the last one's id
  waiting,   \* connection -> authorised request awaiting its body
  up,        \* the broker runs
  era,       \* history: how often a name was added
  slips,     \* history: unguarded ways in which an admin was lost
  torn,      \* history: names whose removal a crash cut short
  edits, crashes

rosterVars == <<members, presets, tokens, minted, waiting, up, era, slips, torn,
                edits, crashes>>

Origins == {"bootstrap", "rotate", "enroll"}
Token(n, e, origin) == [member |-> n, era |-> e, origin |-> origin]
TokenRows == [member : Names, era : 0..MaxEdits + 1, origin : Origins]
Asked(op) == [op |-> op, name |-> Nobody, was |-> {}]

With(f, k, v) == [x \in DOMAIN f \cup {k} |-> IF x = k THEN v ELSE f[x]]
Without(f, K) == Restrict(f, DOMAIN f \ K)
Empty == [x \in {} |-> x]

-----------------------------------------------------------------------------
(* Reading. *)

\* resolvePermissions
Resolves(raw) == raw \subseteq Leaves \cup DOMAIN presets
Granted(raw) == (raw \cap Leaves) \cup UNION {presets[p] : p \in raw \cap DOMAIN presets}

\* findByName answers, and members() answers.
Readable(n) == n \in DOMAIN members /\ Resolves(members[n])
RosterReadable == \A n \in DOMAIN members : Resolves(members[n])

May(n, leaf) == Readable(n) /\ leaf \in Granted(members[n])
Someone(leaf) == \E by \in DOMAIN members : May(by, leaf)
Admins == {n \in DOMAIN members : May(n, "members.manage")}

TokensOf(n) == {t \in DOMAIN tokens : tokens[t].member = n}

RowsOK ==
  /\ members \in UNION {[S -> SUBSET Entries] : S \in SUBSET Names}
  /\ presets \in UNION {[S -> SUBSET Leaves] : S \in SUBSET Presets}

TokensOK ==
  /\ minted \in 0..MaxTokens
  /\ DOMAIN tokens \subseteq 1..minted
  /\ \A t \in DOMAIN tokens : tokens[t] \in TokenRows

WaitingOK ==
  /\ up \in BOOLEAN
  /\ DOMAIN waiting \subseteq IF up THEN Conns ELSE {}
  /\ \A c \in DOMAIN waiting :
       /\ waiting[c].op \in {"create", "update", "preset", "approve", "reject"}
       /\ waiting[c].name \in Names \cup {Nobody}
       /\ waiting[c].was \subseteq Leaves

HistoryOK ==
  /\ era \in [Names -> 0..MaxEdits + 1]
  /\ slips \subseteq {"stale", "preset"}
  /\ torn \subseteq Names
  /\ edits \in 0..MaxEdits /\ crashes \in 0..MaxCrashes

TypeOK == RowsOK /\ TokensOK /\ WaitingOK /\ HistoryOK

\* What the wizard leaves: one admin, by the preset, with one token.
RosterInit ==
  \E n \in Names :
    /\ members = [x \in {n} |-> {Admin}]
    /\ presets = [p \in {Admin} |-> Leaves]
    /\ tokens = [t \in {1} |-> Token(n, 1, "bootstrap")]
    /\ minted = 1
    /\ waiting = Empty
    /\ up = TRUE
    /\ era = [x \in Names |-> IF x = n THEN 1 ELSE 0]
    /\ slips = {} /\ torn = {}
    /\ edits = 0 /\ crashes = 0

-----------------------------------------------------------------------------
(* Parts of handlers. *)

Served(c, op) ==
  /\ up
  /\ c \in DOMAIN waiting /\ waiting[c].op = op
  /\ waiting' = Without(waiting, {c})

Edit == edits < MaxEdits /\ edits' = edits + 1

Die ==
  /\ crashes < MaxCrashes /\ crashes' = crashes + 1
  /\ up' = FALSE
  /\ waiting' = Empty

\* addMember
Join(n, raw) ==
  /\ n \notin DOMAIN members
  /\ Resolves(raw)
  /\ members' = With(members, n, raw)
  /\ era' = [era EXCEPT ![n] = @ + 1]

\* tokens.insert, with the rows of kept already there
Issue(kept, n, e, origin) ==
  /\ minted < MaxTokens
  /\ minted' = minted + 1
  /\ tokens' = With(kept, minted + 1, Token(n, e, origin))

\* adminCount > 1, counted over members()
AdminToSpare == RosterReadable /\ Cardinality(Admins) > 1

-----------------------------------------------------------------------------
(* Requests with a body: the check, the wait, the rest. *)

Begin(c, op, leaf) ==
  /\ up /\ c \notin DOMAIN waiting
  /\ Someone(leaf)
  /\ waiting' = With(waiting, c, Asked(op))
  /\ UNCHANGED <<members, presets, tokens, minted, up, era, slips, torn, edits, crashes>>

\* PATCH /members/:name reads the target before the body.
BeginUpdate(c, n) ==
  /\ up /\ c \notin DOMAIN waiting
  /\ Someone("members.manage")
  /\ Readable(n)
  /\ waiting' = With(waiting, c,
                     [op |-> "update", name |-> n, was |-> Granted(members[n])])
  /\ UNCHANGED <<members, presets, tokens, minted, up, era, slips, torn, edits, crashes>>

\* Every early return after the wait, a body that never comes, and an update
\* that leaves the permissions alone.
Refuse(c) ==
  /\ up /\ c \in DOMAIN waiting
  /\ waiting' = Without(waiting, {c})
  /\ UNCHANGED <<members, presets, tokens, minted, up, era, slips, torn, edits, crashes>>

Create(c, n, raw) ==
  /\ Served(c, "create") /\ Edit
  /\ Join(n, raw)
  /\ Issue(tokens, n, era[n] + 1, "bootstrap")
  /\ UNCHANGED <<presets, up, slips, torn, crashes>>

CreateCut(c, n, raw) ==
  /\ up /\ c \in DOMAIN waiting /\ waiting[c].op = "create" /\ Edit
  /\ Join(n, raw)
  /\ Die
  /\ UNCHANGED <<presets, tokens, minted, slips, torn>>

UpdateUnguarded(c, raw) ==                                             \* mutant
  LET n == waiting[c].name
  IN /\ Served(c, "update") /\ Edit
     /\ Resolves(raw) /\ n \in DOMAIN members
     /\ members' = [members EXCEPT ![n] = raw]
     /\ UNCHANGED <<presets, tokens, minted, up, era, torn, crashes, slips>>

\* The last-admin guard looks at the target as it was read.
Update(c, raw) ==
  LET n == waiting[c].name
      loses(had) == "members.manage" \in had \ Granted(raw)
  IN /\ Served(c, "update") /\ Edit
     /\ Resolves(raw) /\ n \in DOMAIN members
     /\ loses(waiting[c].was) => AdminToSpare
     /\ members' = [members EXCEPT ![n] = raw]
     /\ slips' = IF n \in Admins /\ loses(Leaves) /\ ~loses(waiting[c].was)
                 THEN slips \cup {"stale"} ELSE slips
     /\ UNCHANGED <<presets, tokens, minted, up, era, torn, crashes>>

\* PUT /team/presets/:name
PutPreset(c, p, leaves) ==
  /\ Served(c, "preset") /\ Edit
  /\ presets' = With(presets, p, leaves)
  /\ UNCHANGED <<members, tokens, minted, up, era, torn, crashes>>
  /\ slips' = IF Admins \subseteq Admins' THEN slips ELSE slips \cup {"preset"}

-----------------------------------------------------------------------------
(* Requests without a body. *)

\* DELETE /team/presets/:name; membersReferencingPreset reads the roster.
DeletePreset(p) ==
  /\ up /\ Someone("team.manage") /\ Edit
  /\ RosterReadable
  /\ p \in DOMAIN presets
  /\ presets' = Without(presets, {p})
  /\ UNCHANGED <<members, tokens, minted, waiting, up, era, torn, crashes>>
  /\ slips' = IF Admins \subseteq Admins' THEN slips ELSE slips \cup {"preset"}

\* DELETE /members/:name
MayDelete(n) ==
  /\ up /\ Someone("members.manage")
  /\ Readable(n)
  /\ n \in Admins => AdminToSpare

DeleteKeepingTokens(n) ==                                              \* mutant
  /\ MayDelete(n) /\ Edit
  /\ members' = Without(members, {n})
  /\ UNCHANGED <<presets, tokens, minted, waiting, up, era, slips, torn, crashes>>

Delete(n) ==
  /\ MayDelete(n) /\ Edit
  /\ members' = Without(members, {n})
  /\ tokens' = Without(tokens, TokensOf(n))
  /\ UNCHANGED <<presets, minted, waiting, up, era, slips, torn, crashes>>

DeleteCut(n) ==
  /\ MayDelete(n) /\ Edit
  /\ members' = Without(members, {n})
  /\ Die
  /\ torn' = torn \cup {n}
  /\ UNCHANGED <<presets, tokens, minted, era, slips>>

\* POST /members/:name/rotate-token, for a member or by an admin
Rotate(n) ==
  /\ up /\ Readable(n)
  /\ Issue(Without(tokens, TokensOf(n)), n, era[n], "rotate")
  /\ UNCHANGED <<members, presets, waiting, up, era, slips, torn, edits, crashes>>

RotateCut(n) ==
  /\ up /\ Readable(n)
  /\ \E revoked \in SUBSET TokensOf(n) : tokens' = Without(tokens, revoked)
  /\ Die
  /\ UNCHANGED <<members, presets, minted, era, slips, torn, edits>>

\* DELETE /members/:name/tokens/:id
RevokeToken(t) ==
  /\ up /\ t \in DOMAIN tokens
  /\ LET n == tokens[t].member
     IN /\ Readable(n)
        /\ TokensOf(n) = {t} /\ n \in Admins => AdminToSpare
  /\ tokens' = Without(tokens, {t})
  /\ UNCHANGED <<members, presets, minted, waiting, up, era, slips, torn, edits, crashes>>

\* auth.ts: a token whose member is gone is revoked when it is used.
UseOrphan(t) ==
  /\ up /\ t \in DOMAIN tokens
  /\ tokens[t].member \notin DOMAIN members
  /\ tokens' = Without(tokens, {t})
  /\ UNCHANGED <<members, presets, minted, waiting, up, era, slips, torn, edits, crashes>>

-----------------------------------------------------------------------------
(* The process.  Booting reads the roster (run.ts, ensureHome). *)

Crash ==
  /\ up /\ Die
  /\ UNCHANGED <<members, presets, tokens, minted, era, slips, torn, edits>>

Boot ==
  /\ ~up /\ RosterReadable
  /\ up' = TRUE
  /\ UNCHANGED <<members, presets, tokens, minted, waiting, era, slips, torn, edits, crashes>>

RosterStep ==
  \/ \E c \in Conns :
       \/ Begin(c, "create", "members.manage") \/ Begin(c, "preset", "team.manage")
       \/ \E n \in Names : BeginUpdate(c, n)
       \/ Refuse(c)
       \/ \E n \in Names, raw \in Raws : Create(c, n, raw) \/ CreateCut(c, n, raw)
       \/ \E raw \in Raws : Update(c, raw)
       \/ \E p \in Presets, leaves \in SUBSET Leaves : PutPreset(c, p, leaves)
  \/ \E p \in Presets : DeletePreset(p)
  \/ \E n \in Names : Delete(n) \/ DeleteCut(n) \/ Rotate(n) \/ RotateCut(n)
  \/ \E t \in DOMAIN tokens : RevokeToken(t) \/ UseOrphan(t)
  \/ Crash

RosterSpec == RosterInit /\ [][RosterStep \/ Boot]_rosterVars

-----------------------------------------------------------------------------
(* Properties. *)

\* No sequence of creations, updates and deletions, however they interleave,
\* leaves the team without an admin, except through an update that read its
\* target before a change (app.ts:2174-2248) or an edit of a preset.
AnAdminRemains == Admins # {} \/ slips # {}

\* A token authenticates the member it was issued to and never a later one of
\* the same name, and none is left of a member who was removed, unless a crash
\* cut the removal short (app.ts:2264-2281, tokens.ts:369-380).
TokensFollowMembers ==
  \A t \in DOMAIN tokens :
    LET n == tokens[t].member
    IN n \in torn \/ (n \in DOMAIN members /\ tokens[t].era = era[n])

=============================================================================
