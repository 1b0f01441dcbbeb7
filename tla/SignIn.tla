------------------------------- MODULE SignIn -------------------------------
(***************************************************************************)
(* Signing in to the web UI: one-time codes, the guard against their       *)
(* replay, the lockout of guessers, and the sliding sessions that every    *)
(* request presents (apps/server/src/sessions.ts, totp.ts, auth.ts, the    *)
(* /session routes of app.ts, the TOTP columns of team-store.ts).          *)
(*                                                                         *)
(* The body of a sign-in is awaited before anything is looked at, and the  *)
(* rest is synchronous, so every handler is one step.  Time passes in TOTP *)
(* periods.  A code is the pair of the secret and the period it was        *)
(* generated for: that two of the million codes may be equal is left out,  *)
(* like the other ways to authenticate, which never touch a session.       *)
(***************************************************************************)
EXTENDS Integers, FiniteSets, Sequences, Functions

CONSTANTS
  Names,
  Codeless,         \* the lockout key of sign-ins that name nobody
  Ids,              \* session ids
  Ttl,              \* SESSION_TTL_MS
  Window,           \* TOTP_LOCKOUT_WINDOW_MS
  MaxFailures,      \* TOTP_MAX_FAILURES
  MaxCodeless,      \* TOTP_CODELESS_MAX_FAILURES
  MaxClock,         \* bound: periods
  MaxSecrets,       \* bound: secrets enrolled
  MaxRefusals,      \* bound: sign-ins refused
  MaxFaults         \* bound: accounts deleted and restarts

Keys == Names \cup {Codeless}
MaxFailuresFor(k) == IF k = Codeless THEN MaxCodeless ELSE MaxFailures

ASSUME NamesAssumption == IsFiniteSet(Names) /\ IsFiniteSet(Ids) /\ Codeless \notin Names
ASSUME TimesAssumption == {Ttl, Window, MaxFailures, MaxCodeless} \subseteq Nat \ {0}
ASSUME BoundsAssumption ==
  {MaxClock, MaxSecrets, MaxRefusals, MaxFaults} \subseteq Nat \ {0}

VARIABLES
  clock,      \* the current TOTP period
  accounts,   \* table members: name -> [secret, last]; secret 0 is none
  secrets,    \* secrets generated so far
  sessions,   \* table sessions: id -> [member, expires]
  lockouts,   \* totpLockouts: key -> [failures, since]
  accepted,   \* history: secret -> periods of the codes that signed somebody in
  wrong,      \* history: key -> when it was refused
  cleared,    \* history: key -> when a running lockout of it was cleared
  minted,     \* history: ids given to sessions
  ended,      \* history: sessions that expired, were signed out, or were
              \* presented while their member had no account
  revenants,  \* history: ended sessions a request was carried out on
  refusals, faults

people == <<accounts, secrets>>
bounds == <<refusals, faults>>
history == <<accepted, wrong, cleared, minted, ended, revenants>>
vars == <<clock, people, sessions, lockouts, history, bounds>>

Account == [secret : 0..MaxSecrets, last : Nat]
Session == [member : Names, expires : Nat]
Lockout == [failures : Nat \ {0}, since : Nat]

TypeOK ==
  /\ clock \in 1..MaxClock
  /\ DOMAIN accounts \subseteq Names /\ secrets \in 0..MaxSecrets
  /\ \A n \in DOMAIN accounts : accounts[n] \in Account /\ accounts[n].secret <= secrets
  /\ DOMAIN sessions \subseteq minted /\ minted \subseteq Ids
  /\ \A i \in DOMAIN sessions : sessions[i] \in Session /\ sessions[i].expires <= clock + Ttl
  /\ DOMAIN lockouts \subseteq Keys
  /\ \A k \in DOMAIN lockouts :
       lockouts[k] \in Lockout /\ lockouts[k].since <= clock
                              /\ lockouts[k].failures <= MaxFailuresFor(k)
  /\ accepted \in [1..MaxSecrets -> Seq(Nat)]
  /\ wrong \in [Keys -> Seq(Nat)] /\ cleared \in [Keys -> Seq(Nat)]
  /\ ended \subseteq minted /\ revenants \subseteq minted
  /\ refusals \in 0..MaxRefusals /\ faults \in 0..MaxFaults

Empty == [x \in {} |-> 0]
With(f, k, v) == [x \in DOMAIN f \cup {k} |-> IF x = k THEN v ELSE f[x]]
Without(f, K) == Restrict(f, DOMAIN f \ K)
NewAccount == [secret |-> 0, last |-> 0]

Init ==
  /\ clock = 1
  /\ accounts = [n \in Names |-> NewAccount]
  /\ secrets = 0
  /\ sessions = Empty /\ lockouts = Empty
  /\ accepted = [s \in 1..MaxSecrets |-> <<>>]
  /\ wrong = [k \in Keys |-> <<>>] /\ cleared = wrong
  /\ minted = {} /\ ended = {} /\ revenants = {}
  /\ refusals = 0 /\ faults = 0
-----------------------------------------------------------------------------
(* The members. *)

Expired(i, t) == sessions[i].expires < t

Tick ==
  /\ clock < MaxClock /\ clock' = clock + 1
  /\ ended' = ended \cup {i \in DOMAIN sessions : Expired(i, clock + 1)}
  /\ UNCHANGED <<people, sessions, lockouts, accepted, wrong, cleared, minted, revenants, bounds>>

CreateMember ==
  /\ \E n \in Names \ DOMAIN accounts : accounts' = With(accounts, n, NewAccount)
  /\ UNCHANGED <<clock, secrets, sessions, lockouts, history, bounds>>

\* The member's sessions stay.
DeleteMember ==
  /\ faults < MaxFaults /\ faults' = faults + 1
  /\ \E n \in DOMAIN accounts : accounts' = Without(accounts, {n})
  /\ UNCHANGED <<clock, secrets, sessions, lockouts, history, refusals>>

\* setTotpSecret: a new secret, and no code of it accepted so far.
EnrollTotp ==
  /\ secrets < MaxSecrets /\ secrets' = secrets + 1
  /\ \E n \in DOMAIN accounts :
       accounts' = [accounts EXCEPT ![n] = [secret |-> secrets + 1, last |-> 0]]
  /\ UNCHANGED <<clock, sessions, lockouts, history, bounds>>

-----------------------------------------------------------------------------
(* Signing in with the code of secret s and period p. *)

Elapsed(k) == clock - lockouts[k].since >= Window
Running(k) == k \in DOMAIN lockouts /\ ~Elapsed(k)

\* checkTotpLockout.  Mutant: one failure too many.
LockedLate(k) == Running(k) /\ lockouts[k].failures > MaxFailuresFor(k)
Locked(k) == Running(k) /\ lockouts[k].failures >= MaxFailuresFor(k)

\* verifyCode: a code near the clock, later than the last one accepted.
\* Mutant: that one too.
VerifiesAgain(n, s, p) ==
  s > 0 /\ accounts[n].secret = s /\ p \in clock - 1 .. clock + 1 /\ p >= accounts[n].last
Verifies(n, s, p) ==
  s > 0 /\ accounts[n].secret = s /\ p \in clock - 1 .. clock + 1 /\ p > accounts[n].last

\* Who signs in with it through key k: the one named, or whoever it verifies for.
Matches(k, s, p) == {n \in DOMAIN accounts : k \in {n, Codeless} /\ Verifies(n, s, p)}

\* The lockouts of K go: those still running are noted.
Cleared(K) ==
  cleared' = [k \in Keys |-> IF k \in K /\ Running(k) THEN Append(cleared[k], clock)
                                                     ELSE cleared[k]]

SignIn ==
  \E k \in Keys, s \in 1..secrets, p \in 1..MaxClock + 1, i \in Ids \ minted :
    \E n \in Matches(k, s, p) :
      /\ ~Locked(k)
      /\ accounts' = [accounts EXCEPT ![n].last = p]
      /\ lockouts' = Without(lockouts, {k, n})
      /\ Cleared({k, n})
      /\ sessions' = With(sessions, i, [member |-> n, expires |-> clock + Ttl])
      /\ accepted' = [accepted EXCEPT ![s] = Append(@, p)]
      /\ minted' = minted \cup {i}
      /\ UNCHANGED <<clock, secrets, wrong, ended, revenants, bounds>>

\* No code matches: recordTotpFailure.  A failure after the window starts another.
Refuse ==
  /\ refusals < MaxRefusals /\ refusals' = refusals + 1
  /\ \E k \in Keys :
       /\ ~Locked(k)
       /\ lockouts' = With(lockouts, k,
            IF Running(k)
            THEN [lockouts[k] EXCEPT !.failures = @ + 1]
            ELSE [failures |-> 1, since |-> clock])
       /\ wrong' = [wrong EXCEPT ![k] = Append(@, clock)]
  /\ UNCHANGED <<clock, people, sessions, accepted, cleared, minted, ended, revenants, faults>>

-----------------------------------------------------------------------------
(* Requests that present a session. *)

Served(i) == ~Expired(i, clock) /\ sessions[i].member \in DOMAIN accounts
CarriedOut(i) == revenants' = IF i \in ended THEN revenants \cup {i} ELSE revenants

Request ==
  /\ \E i \in DOMAIN sessions :
       /\ Served(i)
       /\ sessions' = [sessions EXCEPT ![i].expires = clock + Ttl]
       /\ CarriedOut(i)
  /\ UNCHANGED <<clock, people, lockouts, accepted, wrong, cleared, minted, ended, bounds>>

\* Mutant of Orphaned: the session of a member who is gone stays.
OrphanedAndKept ==
  /\ \E i \in DOMAIN sessions :
       /\ ~Expired(i, clock) /\ ~Served(i)
       /\ ended' = ended \cup {i}
  /\ UNCHANGED <<clock, people, sessions, lockouts, accepted, wrong, cleared, minted, revenants, bounds>>

\* The session of a member who is gone goes with the first request on it.
Orphaned ==
  /\ \E i \in DOMAIN sessions :
       /\ ~Expired(i, clock) /\ ~Served(i)
       /\ sessions' = Without(sessions, {i})
       /\ ended' = ended \cup {i}
  /\ UNCHANGED <<clock, people, lockouts, accepted, wrong, cleared, minted, revenants, bounds>>

SignOut ==
  /\ \E i \in DOMAIN sessions :
       /\ Served(i)
       /\ sessions' = Without(sessions, {i})
       /\ ended' = ended \cup {i}
       /\ CarriedOut(i)
  /\ UNCHANGED <<clock, people, lockouts, accepted, wrong, cleared, minted, bounds>>

\* A restart forgets the lockouts; the boot purges expired sessions.
Restart ==
  /\ faults < MaxFaults /\ faults' = faults + 1
  /\ lockouts' = Empty /\ Cleared(Keys)
  /\ sessions' = Without(sessions, {i \in DOMAIN sessions : Expired(i, clock)})
  /\ UNCHANGED <<clock, people, accepted, wrong, minted, ended, revenants, refusals>>

Next ==
  \/ Tick \/ CreateMember \/ DeleteMember \/ EnrollTotp
  \/ SignIn \/ Refuse \/ Request \/ Orphaned \/ SignOut \/ Restart

Spec == Init /\ [][Next]_vars
-----------------------------------------------------------------------------
(* Properties. *)

\* No code signs in twice, and none that is older than one that did, whatever
\* happens to the accounts in between.
NoReplay ==
  \A s \in 1..MaxSecrets : \A a, b \in DOMAIN accepted[s] :
    a < b => accepted[s][a] < accepted[s][b]

\* How many of the times in q fall into the lockout window that begins at t.
Within(q, t) == Cardinality({j \in DOMAIN q : q[j] \in t .. t + Window - 1})

\* The window of a lockout starts with its first failure and does not slide, as
\* the comment of app.ts says it does: whoever guesses through a key gets one guess
\* less than twice its limit into any span of that length, and one limit more for
\* every time a running lockout of the key is forgotten in it: by a sign-in through
\* the key, which for the codeless key is any member's (app.ts:594-597), or by a
\* restart.
GuessesBounded ==
  \A k \in Keys, t \in 1..MaxClock :
    Within(wrong[k], t) < (2 + Within(cleared[k], t)) * MaxFailuresFor(k)

\* No request is carried out on a session that has expired, was signed out, or
\* was presented while its member had no account, although an account of that
\* name may exist again.
EndedForGood == revenants = {}
=============================================================================
