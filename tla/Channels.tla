------------------------------ MODULE Channels ------------------------------
(***************************************************************************)
(* Named channels and their members (apps/server/src/channels.ts and the   *)
(* /channels routes of app.ts), over a team whose members come and go.     *)
(*                                                                         *)
(* A route names a channel by its slug, a row is known by its id, and      *)
(* several rows may bear one slug: archived channels keep theirs.  The     *)
(* store is synchronous, so a route is one step from the end of its body   *)
(* on.  Adding a member is the one route that looks its channel up before  *)
(* it awaits the body.  A caller is authenticated before the body, so a    *)
(* request of a member deleted meanwhile is still carried out.             *)
(*                                                                         *)
(* Ids are positions in the order of insertion.  The channel "general" has *)
(* no member rows, refuses every edit and reserves its slug: left out.     *)
(***************************************************************************)
EXTENDS Integers, FiniteSets, Sequences, Functions

CONSTANTS
  Names,        \* those who may ever be in the team
  Founders,     \* those who are at first
  Slugs,
  MaxChannels,  \* bound: rows
  MaxWaiting,   \* bound: requests that looked their channel up and wait
  MaxTeamEdits, \* bound: members deleted
  MaxFaults     \* bound: crashes and failed inserts

ASSUME NamesAssumption == IsFiniteSet(Names) /\ Founders \subseteq Names
ASSUME BoundsAssumption == {MaxChannels, MaxWaiting, MaxTeamEdits, MaxFaults} \subseteq Nat

VARIABLES
  channels,     \* table channels, in the order of insertion
  rows,         \* table channel_members: for each channel, member -> role
  team,         \* names with an account
  callers,      \* names authenticated since the boot: any may have a request waiting
  waiting,      \* POST .../members requests between the lookup and the body
  adrift,       \* history: channels whose first admin was never inserted, or that
                \* everybody had left
  edits, faults

tables == <<channels, rows>>
vars == <<tables, team, callers, waiting, adrift, edits, faults>>

Roles == {"admin", "member"}
Channel == [slug : Slugs, archived : BOOLEAN]
Memberships == UNION {[S -> Roles] : S \in SUBSET Names}
Ids == DOMAIN channels
Requests == [caller : Names, channel : 1..MaxChannels]

TypeOK ==
  /\ channels \in Seq(Channel) /\ Len(channels) <= MaxChannels
  /\ rows \in Seq(Memberships) /\ Len(rows) = Len(channels)
  /\ team \subseteq callers /\ callers \subseteq Names
  /\ waiting \subseteq Requests /\ \A r \in waiting : r.channel \in Ids
  /\ adrift \subseteq Ids
  /\ edits \in 0..MaxTeamEdits /\ faults \in 0..MaxFaults

Nobody == [n \in {} |-> "admin"]
With(f, n, role) == [m \in DOMAIN f \cup {n} |-> IF m = n THEN role ELSE f[m]]

Init ==
  /\ channels = <<>> /\ rows = <<>>
  /\ team = Founders /\ callers = Founders
  /\ waiting = {}
  /\ adrift = {}
  /\ edits = 0 /\ faults = 0
-----------------------------------------------------------------------------
\* getBySlug: the oldest row that bears the slug, archived or not.
Resolve(s) ==
  {i \in Ids : channels[i].slug = s /\ \A j \in Ids : channels[j].slug = s => i <= j}

Active(i) == ~channels[i].archived
Taken(s) == \E i \in Resolve(s) : Active(i)

\* The partial unique index.  Mutant: there is none.
NoIndex(s) == TRUE
IndexAllows(s) == \A i \in Ids : channels[i].slug = s => ~Active(i)

IsAdmin(n, i) == n \in DOMAIN rows[i] /\ rows[i][n] = "admin"

\* Two inserts outside a transaction: the second may fail, or never be made.
Create ==
  /\ Len(channels) < MaxChannels
  /\ \E n \in callers, s \in Slugs :
       /\ ~Taken(s) /\ IndexAllows(s)
       /\ channels' = Append(channels, [slug |-> s, archived |-> FALSE])
       /\ \/ /\ rows' = Append(rows, With(Nobody, n, "admin"))
             /\ UNCHANGED <<adrift, faults>>
          \/ /\ faults < MaxFaults /\ faults' = faults + 1
             /\ rows' = Append(rows, Nobody)
             /\ adrift' = adrift \cup {Len(channels) + 1}
  /\ UNCHANGED <<team, callers, waiting, edits>>

Rename ==
  \E n \in callers, s, t \in Slugs : \E i \in Resolve(s) :
    /\ Active(i) /\ channels[i].slug # t /\ IsAdmin(n, i)
    /\ ~Taken(t) /\ IndexAllows(t)
    /\ channels' = [channels EXCEPT ![i].slug = t]
    /\ UNCHANGED <<rows, team, callers, waiting, adrift, edits, faults>>

Archive ==
  \E n \in team, s \in Slugs : \E i \in Resolve(s) :
    /\ Active(i) /\ IsAdmin(n, i)
    /\ channels' = [channels EXCEPT ![i].archived = TRUE]
    /\ UNCHANGED <<rows, team, callers, waiting, adrift, edits, faults>>

LookedUp == {r \in Requests : \E s \in Slugs : r.channel \in Resolve(s) /\ r.caller \in team}

BeginAdd ==
  /\ Cardinality(waiting) < MaxWaiting
  /\ \E r \in LookedUp : waiting' = waiting \cup {r}
  /\ UNCHANGED <<tables, team, callers, adrift, edits, faults>>

\* addMember refuses archived channels.  Mutant: it trusts the lookup.
OpenAnyway(i) == TRUE
OpenForMembers(i) == Active(i)

\* Whoever is in the channel keeps their role.  The body, or the caller alone.
Add ==
  \E r \in waiting \cup LookedUp, target \in Names, role \in Roles :
    LET i == r.channel IN
      /\ \/ target = r.caller
         \/ IsAdmin(r.caller, i) /\ target \in team
      /\ OpenForMembers(i)
      /\ rows' = IF target \in DOMAIN rows[i] THEN rows
                 ELSE [rows EXCEPT ![i] = With(@, target, role)]
      /\ waiting' = waiting \ {r}
      /\ UNCHANGED <<channels, team, callers, adrift, edits, faults>>

\* The last admin leaves last.  Mutant: no such guard.
MayAlwaysLeave(n, i) == TRUE
MayLeave(n, i) ==
  \/ ~IsAdmin(n, i)
  \/ \E m \in Names \ {n} : IsAdmin(m, i)
  \/ DOMAIN rows[i] = {n}

\* Leaving, or being removed by an admin; archived channels too.
Remove ==
  \E n \in team, target \in Names, s \in Slugs : \E i \in Resolve(s) :
    /\ target = n \/ IsAdmin(n, i)
    /\ target \in DOMAIN rows[i] /\ MayLeave(target, i)
    /\ rows' = [rows EXCEPT ![i] = Restrict(@, DOMAIN @ \ {target})]
    /\ adrift' = IF DOMAIN rows[i] = {target} THEN adrift \cup {i} ELSE adrift
    /\ UNCHANGED <<channels, team, callers, waiting, edits, faults>>

\* DELETE /members/:name leaves the rows of the channels alone.
DeleteMember ==
  /\ edits < MaxTeamEdits /\ edits' = edits + 1
  /\ \E n \in team :
       /\ team # {n}
       /\ team' = team \ {n}
  /\ UNCHANGED <<tables, callers, waiting, adrift, faults>>

CreateMember ==
  /\ \E n \in Names \ team : team' = team \cup {n} /\ callers' = callers \cup {n}
  /\ UNCHANGED <<tables, waiting, adrift, edits, faults>>

Crash ==
  /\ faults < MaxFaults /\ faults' = faults + 1
  /\ waiting' = {} /\ callers' = team
  /\ UNCHANGED <<tables, team, adrift, edits>>

Next ==
  \/ Create \/ Rename \/ Archive \/ BeginAdd \/ Add \/ Remove
  \/ DeleteMember \/ CreateMember \/ Crash

Spec == Init /\ [][Next]_vars
-----------------------------------------------------------------------------
(* Properties. *)

\* At most one active channel bears a slug.  The lookup of the handlers is not
\* enough for that: it may show them an older, archived channel.
OneActivePerSlug ==
  \A i, j \in Ids : Active(i) /\ Active(j) /\ channels[i].slug = channels[j].slug => i = j

\* "Every channel has at least one admin" (channels.mdx), unless its first admin
\* was never inserted or everybody had left it, so that whoever came first chose
\* a role.  An admin deleted from the team still counts: the row stays.
AnAdminInEach == \A i \in Ids \ adrift : \E n \in Names : IsAdmin(n, i)

\* "Archive is a soft-delete ... membership stays intact" (channels.mdx): an
\* archived channel keeps its slug, is never opened again, and nobody joins it,
\* not even by a request that looked it up before it was archived.
ReadOnlyOnceArchived ==
  [][\A i \in Ids : channels[i].archived =>
       channels'[i] = channels[i] /\ DOMAIN rows'[i] \subseteq DOMAIN rows[i]]_vars
=============================================================================
