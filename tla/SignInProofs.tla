---------------------------- MODULE SignInProofs ----------------------------
(***************************************************************************)
(* Theorems about SignIn, for all members, session ids, limits, lengths of *)
(* sessions and windows, and any number of secrets and sign-ins.           *)
(***************************************************************************)
EXTENDS SignIn, SequenceTheorems, FiniteSetTheorems, TLAPS

-----------------------------------------------------------------------------
(* Types. *)

LEMMA TypesAtFirst == Init => TypeOK
<1> SUFFICES ASSUME Init PROVE TypeOK
  OBVIOUS
<1>1. NewAccount \in Account
  BY BoundsAssumption DEF NewAccount, Account
<1>2. <<>> \in Seq(Nat)
  BY EmptySeq
<1>3. DOMAIN Empty = {}
  BY DEF Empty
<1> QED
  BY <1>1, <1>2, <1>3, BoundsAssumption DEF Init, TypeOK, NewAccount

\* What Without leaves in a function.
LEMMA WithoutSome ==
  ASSUME NEW f, NEW K
  PROVE  /\ DOMAIN Without(f, K) = DOMAIN f \ K
         /\ \A x \in DOMAIN f \ K : Without(f, K)[x] = f[x]
  BY DEF Without, Restrict

\* The accounts a step leaves: an untouched one, a new one, or one with a new
\* secret or counter.
People ==
  /\ DOMAIN accounts \subseteq Names /\ secrets \in 0..MaxSecrets
  /\ \A n \in DOMAIN accounts : accounts[n] \in Account /\ accounts[n].secret <= secrets

LEMMA PeopleKept == People /\ [Next]_vars => People'
<1> SUFFICES ASSUME People, [Next]_vars PROVE People'
  OBVIOUS
<1> USE DEF People
<1>1. CASE CreateMember
  <2>1. PICK n \in Names : accounts' = With(accounts, n, NewAccount)
    BY <1>1 DEF CreateMember
  <2>2. NewAccount \in Account /\ NewAccount.secret = 0
    BY BoundsAssumption DEF NewAccount, Account
  <2>3. secrets' = secrets
    BY <1>1 DEF CreateMember
  <2>4. /\ DOMAIN accounts' = DOMAIN accounts \cup {n} /\ accounts'[n] = NewAccount
        /\ \A m \in DOMAIN accounts : m # n => accounts'[m] = accounts[m]
    BY <2>1 DEF With
  <2> QED
    BY <2>2, <2>3, <2>4
<1>2. CASE DeleteMember
  <2>1. PICK n \in DOMAIN accounts : accounts' = Without(accounts, {n})
    BY <1>2 DEF DeleteMember
  <2>2. secrets' = secrets
    BY <1>2 DEF DeleteMember
  <2>3. /\ DOMAIN accounts' = DOMAIN accounts \ {n}
        /\ \A m \in DOMAIN accounts \ {n} : accounts'[m] = accounts[m]
    BY <2>1, WithoutSome
  <2> QED
    BY <2>2, <2>3
<1>3. CASE EnrollTotp
  <2>1. PICK n \in DOMAIN accounts :
          accounts' = [accounts EXCEPT ![n] = [secret |-> secrets + 1, last |-> 0]]
    BY <1>3 DEF EnrollTotp
  <2>2. secrets' = secrets + 1 /\ secrets' \in 0..MaxSecrets
    BY <1>3, BoundsAssumption DEF EnrollTotp
  <2>3. [secret |-> secrets + 1, last |-> 0] \in Account
    BY <2>2 DEF Account
  <2>4. \A m \in DOMAIN accounts : accounts[m].secret <= secrets + 1
    BY BoundsAssumption DEF Account
  <2> QED
    BY <2>1, <2>2, <2>3, <2>4
<1>4. CASE SignIn
  <2>1. PICK p \in 1..MaxClock + 1 : \E n \in DOMAIN accounts :
          accounts' = [accounts EXCEPT ![n].last = p]
    BY <1>4 DEF SignIn, Matches
  <2>2. PICK n \in DOMAIN accounts : accounts' = [accounts EXCEPT ![n].last = p]
    BY <2>1
  <2>3. p \in Nat /\ secrets' = secrets
    BY <1>4, BoundsAssumption DEF SignIn
  <2>4. /\ [accounts[n] EXCEPT !.last = p] \in Account
        /\ [accounts[n] EXCEPT !.last = p].secret = accounts[n].secret
    BY <2>3 DEF Account
  <2> QED
    BY <2>2, <2>3, <2>4
<1>5. CASE Tick \/ Refuse \/ Request \/ Orphaned \/ SignOut \/ Restart \/ UNCHANGED vars
  BY <1>5 DEF Tick, Refuse, Request, Orphaned, SignOut, Restart, people, vars
<1> QED
  BY <1>1, <1>2, <1>3, <1>4, <1>5 DEF Next

\* Sessions and what is remembered of them.
Presented ==
  /\ clock \in 1..MaxClock
  /\ DOMAIN sessions \subseteq minted /\ minted \subseteq Ids
  /\ \A i \in DOMAIN sessions : sessions[i] \in Session /\ sessions[i].expires <= clock + Ttl
  /\ ended \subseteq minted /\ revenants \subseteq minted

LEMMA PresentedKept == Presented /\ People /\ [Next]_vars => Presented'
<1> SUFFICES ASSUME Presented, People, [Next]_vars PROVE Presented'
  OBVIOUS
<1> USE DEF Presented
<1>0. clock \in Nat /\ Ttl \in Nat /\ MaxClock \in Nat
  BY BoundsAssumption, TimesAssumption
<1>1. CASE Tick
  <2>1. /\ clock' = clock + 1 /\ clock' \in 1..MaxClock
        /\ UNCHANGED <<sessions, minted, revenants>> /\ ended' \subseteq ended \cup DOMAIN sessions
    BY <1>0, <1>1 DEF Tick
  <2>2. \A i \in DOMAIN sessions : sessions[i].expires \in Nat
    BY DEF Session
  <2> QED
    BY <1>0, <2>1, <2>2
<1>2. CASE SignIn
  <2>1. PICK n \in DOMAIN accounts, i \in Ids \ minted :
          /\ sessions' = With(sessions, i, [member |-> n, expires |-> clock + Ttl])
          /\ minted' = minted \cup {i}
    BY <1>2 DEF SignIn, Matches
  <2>2. [member |-> n, expires |-> clock + Ttl] \in Session
    BY <1>0 DEF Session, People
  <2>3. UNCHANGED <<clock, ended, revenants>>
    BY <1>2 DEF SignIn
  <2>4. /\ DOMAIN sessions' = DOMAIN sessions \cup {i}
        /\ sessions'[i] = [member |-> n, expires |-> clock + Ttl]
        /\ \A j \in DOMAIN sessions : j # i => sessions'[j] = sessions[j]
    BY <2>1 DEF With
  <2> QED
    BY <1>0, <2>1, <2>2, <2>3, <2>4
<1>3. CASE Request
  <2>1. PICK i \in DOMAIN sessions :
          /\ sessions' = [sessions EXCEPT ![i].expires = clock + Ttl]
          /\ revenants' = revenants \/ revenants' = revenants \cup {i}
    BY <1>3 DEF Request, CarriedOut
  <2>2. UNCHANGED <<clock, minted, ended>>
    BY <1>3 DEF Request
  <2>3. /\ [sessions[i] EXCEPT !.expires = clock + Ttl] \in Session
        /\ [sessions[i] EXCEPT !.expires = clock + Ttl].expires = clock + Ttl
    BY <1>0 DEF Session
  <2> QED
    BY <1>0, <2>1, <2>2, <2>3
<1>4. CASE Orphaned \/ SignOut
  <2>1. PICK i \in DOMAIN sessions :
          /\ sessions' = Without(sessions, {i}) /\ ended' = ended \cup {i}
          /\ revenants' = revenants \/ revenants' = revenants \cup {i}
    BY <1>4 DEF Orphaned, SignOut, CarriedOut
  <2>2. UNCHANGED <<clock, minted>>
    BY <1>4 DEF Orphaned, SignOut
  <2>3. /\ DOMAIN sessions' = DOMAIN sessions \ {i}
        /\ \A j \in DOMAIN sessions \ {i} : sessions'[j] = sessions[j]
    BY <2>1, WithoutSome
  <2> QED
    BY <2>1, <2>2, <2>3
<1>5. CASE Restart
  <2>1. PICK K \in SUBSET DOMAIN sessions : sessions' = Without(sessions, K)
    BY <1>5 DEF Restart
  <2>2. UNCHANGED <<clock, minted, ended, revenants>>
    BY <1>5 DEF Restart
  <2>3. /\ DOMAIN sessions' = DOMAIN sessions \ K
        /\ \A j \in DOMAIN sessions \ K : sessions'[j] = sessions[j]
    BY <2>1, WithoutSome
  <2> QED
    BY <2>2, <2>3
<1>6. CASE CreateMember \/ DeleteMember \/ EnrollTotp \/ Refuse \/ UNCHANGED vars
  BY <1>6 DEF CreateMember, DeleteMember, EnrollTotp, Refuse, history, vars
<1> QED
  BY <1>1, <1>2, <1>3, <1>4, <1>5, <1>6 DEF Next

-----------------------------------------------------------------------------
(* An ended session serves no more: it is gone, or expired for good.  A       *)
(* request slides the end of live sessions only, and an id is minted once.    *)

Dead == \A i \in ended \cap DOMAIN sessions : Expired(i, clock)

LEMMA DeadKept ==
  Presented /\ People /\ Dead /\ EndedForGood /\ [Next]_vars => Dead' /\ EndedForGood'
<1> SUFFICES ASSUME Presented, People, Dead, EndedForGood, [Next]_vars
             PROVE  Dead' /\ EndedForGood'
  OBVIOUS
<1> USE DEF Dead, EndedForGood, Expired
<1>0. clock \in Nat /\ Ttl \in Nat /\ \A i \in DOMAIN sessions : sessions[i].expires \in Nat
  BY BoundsAssumption, TimesAssumption DEF Presented, Session
<1>1. CASE Tick
  <2>1. /\ clock' = clock + 1 /\ UNCHANGED <<sessions, revenants>>
        /\ \A i \in ended' \cap DOMAIN sessions : i \in ended \/ sessions[i].expires < clock + 1
    BY <1>1 DEF Tick
  <2> QED
    BY <1>0, <2>1
<1>2. CASE SignIn
  <2>1. PICK n \in DOMAIN accounts, i \in Ids \ minted :
          sessions' = With(sessions, i, [member |-> n, expires |-> clock + Ttl])
    BY <1>2 DEF SignIn, Matches
  <2>2. UNCHANGED <<clock, ended, revenants>>
    BY <1>2 DEF SignIn
  <2>3. i \notin ended
    BY DEF Presented
  <2>4. /\ DOMAIN sessions' = DOMAIN sessions \cup {i}
        /\ \A j \in DOMAIN sessions : j # i => sessions'[j] = sessions[j]
    BY <2>1 DEF With
  <2> QED
    BY <2>2, <2>3, <2>4
<1>3. CASE Request
  <2>1. PICK i \in DOMAIN sessions :
          /\ Served(i) /\ CarriedOut(i)
          /\ sessions' = [sessions EXCEPT ![i].expires = clock + Ttl]
    BY <1>3 DEF Request
  <2>2. UNCHANGED <<clock, ended>>
    BY <1>3 DEF Request
  <2>3. i \notin ended
    BY <2>1 DEF Served
  <2> QED
    BY <2>1, <2>2, <2>3 DEF CarriedOut
<1>4. CASE Orphaned
  <2>1. PICK i \in DOMAIN sessions :
          sessions' = Without(sessions, {i}) /\ ended' = ended \cup {i}
    BY <1>4 DEF Orphaned
  <2>2. UNCHANGED <<clock, revenants>>
    BY <1>4 DEF Orphaned
  <2>3. /\ DOMAIN sessions' = DOMAIN sessions \ {i}
        /\ \A j \in DOMAIN sessions \ {i} : sessions'[j] = sessions[j]
    BY <2>1, WithoutSome
  <2> QED
    BY <2>1, <2>2, <2>3
<1>5. CASE SignOut
  <2>1. PICK i \in DOMAIN sessions :
          /\ Served(i) /\ CarriedOut(i)
          /\ sessions' = Without(sessions, {i}) /\ ended' = ended \cup {i}
    BY <1>5 DEF SignOut
  <2>2. clock' = clock
    BY <1>5 DEF SignOut
  <2>3. /\ DOMAIN sessions' = DOMAIN sessions \ {i}
        /\ \A j \in DOMAIN sessions \ {i} : sessions'[j] = sessions[j]
    BY <2>1, WithoutSome
  <2>4. i \notin ended
    BY <2>1 DEF Served
  <2> QED
    BY <2>1, <2>2, <2>3, <2>4 DEF CarriedOut
<1>6. CASE Restart
  <2>1. PICK K \in SUBSET DOMAIN sessions : sessions' = Without(sessions, K)
    BY <1>6 DEF Restart
  <2>2. UNCHANGED <<clock, ended, revenants>>
    BY <1>6 DEF Restart
  <2>3. /\ DOMAIN sessions' = DOMAIN sessions \ K
        /\ \A j \in DOMAIN sessions \ K : sessions'[j] = sessions[j]
    BY <2>1, WithoutSome
  <2> QED
    BY <2>2, <2>3
<1>7. CASE CreateMember \/ DeleteMember \/ EnrollTotp \/ Refuse \/ UNCHANGED vars
  BY <1>7 DEF CreateMember, DeleteMember, EnrollTotp, Refuse, history, vars
<1> QED
  BY <1>1, <1>2, <1>3, <1>4, <1>5, <1>6, <1>7 DEF Next

LEMMA PresentedAtFirst == Init => People /\ Presented /\ Dead /\ EndedForGood
<1> SUFFICES ASSUME Init PROVE People /\ Presented /\ Dead /\ EndedForGood
  OBVIOUS
<1>1. DOMAIN Empty = {}
  BY DEF Empty
<1> QED
  BY <1>1, TypesAtFirst DEF Init, TypeOK, People, Presented, Dead, EndedForGood

\* No request is carried out on a session once it expired, was signed out, or was
\* presented while its member had no account, for any lifetime of sessions.
THEOREM EndedSessionsStayDead == Spec => []EndedForGood
<1> DEFINE Inv == People /\ Presented /\ Dead /\ EndedForGood
<1>1. Init => Inv
  BY PresentedAtFirst
<1>2. Inv /\ [Next]_vars => Inv'
  BY PeopleKept, PresentedKept, DeadKept
<1>3. Inv => EndedForGood
  OBVIOUS
<1> QED
  BY <1>1, <1>2, <1>3, PTL DEF Spec
-----------------------------------------------------------------------------
(* No replay.  A secret belongs to one account at most, whose counter is not *)
(* behind any code of it that was accepted, and a new secret has none.       *)

Taken == accepted \in [1..MaxSecrets -> Seq(Nat)]
OneHolder ==
  \A n, m \in DOMAIN accounts :
    accounts[n].secret = accounts[m].secret /\ accounts[n].secret # 0 => n = m
Ahead ==
  \A n \in DOMAIN accounts, s \in 1..MaxSecrets : accounts[n].secret = s =>
    \A a \in DOMAIN accepted[s] : accepted[s][a] <= accounts[n].last
Untried == \A s \in 1..MaxSecrets : s > secrets => accepted[s] = <<>>

ReplayInv == Taken /\ OneHolder /\ Ahead /\ Untried /\ NoReplay

\* A code that verifies is later than all of its secret that were accepted.
LEMMA SignInKeeps == People /\ ReplayInv /\ SignIn => ReplayInv'
<1> SUFFICES ASSUME People, ReplayInv, SignIn PROVE ReplayInv'
  OBVIOUS
<1> USE DEF ReplayInv
<1>1. PICK k \in Keys, s \in 1..secrets, p \in 1..MaxClock + 1 : \E n \in Matches(k, s, p) :
        /\ accounts' = [accounts EXCEPT ![n].last = p]
        /\ accepted' = [accepted EXCEPT ![s] = Append(@, p)]
  BY DEF SignIn
<1>2. PICK n \in DOMAIN accounts :
        /\ Verifies(n, s, p)
        /\ accounts' = [accounts EXCEPT ![n].last = p]
        /\ accepted' = [accepted EXCEPT ![s] = Append(@, p)]
  BY <1>1 DEF Matches
<1>3. /\ s \in 1..MaxSecrets /\ p \in Nat /\ secrets' = secrets /\ secrets \in Nat
      /\ \A m \in DOMAIN accounts : accounts[m] \in Account
  BY BoundsAssumption DEF SignIn, People
<1>4. accounts[n].secret = s /\ p > accounts[n].last /\ accounts[n].last \in Nat
  BY <1>2, <1>3 DEF Verifies, Account
<1>5. DEFINE old == accepted[s]
<1>6. old \in Seq(Nat) /\ Len(old) \in Nat /\ DOMAIN old = 1..Len(old)
  BY <1>3, LenProperties DEF Taken
<1>7. /\ Append(old, p) \in Seq(Nat) /\ Len(Append(old, p)) = Len(old) + 1
      /\ DOMAIN Append(old, p) = 1..Len(old) + 1
      /\ \A a \in 1..Len(old) : Append(old, p)[a] = old[a]
      /\ Append(old, p)[Len(old) + 1] = p
  BY <1>3, <1>6, AppendProperties, LenProperties
<1>8. /\ accepted' \in [1..MaxSecrets -> Seq(Nat)] /\ accepted'[s] = Append(old, p)
      /\ \A t \in 1..MaxSecrets : t # s => accepted'[t] = accepted[t]
  BY <1>2, <1>3, <1>7 DEF Taken
<1>9. /\ DOMAIN accounts' = DOMAIN accounts
      /\ accounts'[n].last = p /\ \A m \in DOMAIN accounts : accounts'[m].secret = accounts[m].secret
      /\ \A m \in DOMAIN accounts : m # n => accounts'[m] = accounts[m]
  BY <1>2, <1>3 DEF Account
<1>10. \A a \in 1..Len(old) : old[a] \in Nat /\ old[a] < p
  <2>1. \A a \in 1..Len(old) : old[a] \in Nat
    BY <1>6, ElementOfSeq
  <2>2. \A a \in 1..Len(old) : old[a] <= accounts[n].last
    BY <1>3, <1>4, <1>6 DEF Ahead
  <2> QED
    BY <1>3, <1>4, <2>1, <2>2
<1> HIDE DEF old
<1>11. OneHolder'
  BY <1>9 DEF OneHolder
<1>12. Ahead'
  <2> SUFFICES ASSUME NEW m \in DOMAIN accounts, NEW t \in 1..MaxSecrets,
                      accounts[m].secret = t, NEW a \in DOMAIN accepted'[t]
               PROVE  accepted'[t][a] <= accounts'[m].last
    BY <1>9 DEF Ahead
  <2>1. CASE t = s
    <3>1. m = n
      BY <1>3, <1>4, <2>1 DEF OneHolder
    <3>2. a \in 1..Len(old) \/ a = Len(old) + 1
      BY <1>6, <1>7, <1>8, <2>1
    <3> QED
      BY <1>3, <1>7, <1>8, <1>9, <1>10, <2>1, <3>1, <3>2
  <2>2. CASE t # s
    BY <1>3, <1>4, <1>8, <1>9, <2>2 DEF Ahead
  <2> QED
    BY <2>1, <2>2
<1>13. Untried'
  BY <1>3, <1>8 DEF Untried
<1>14. NoReplay'
  <2> SUFFICES ASSUME NEW t \in 1..MaxSecrets, NEW a \in DOMAIN accepted'[t],
                      NEW b \in DOMAIN accepted'[t], a < b
               PROVE  accepted'[t][a] < accepted'[t][b]
    BY DEF NoReplay
  <2>1. CASE t = s
    <3>1. a \in 1..Len(old) /\ (b \in 1..Len(old) \/ b = Len(old) + 1)
      BY <1>6, <1>7, <1>8, <2>1
    <3>2. b \in 1..Len(old) => old[a] < old[b]
      BY <1>3, <1>6, <3>1 DEF NoReplay, old
    <3> QED
      BY <1>7, <1>8, <1>10, <2>1, <3>1, <3>2
  <2>2. CASE t # s
    BY <1>8, <2>2 DEF NoReplay
  <2> QED
    BY <2>1, <2>2
<1> QED
  BY <1>8, <1>11, <1>12, <1>13, <1>14 DEF Taken

LEMMA ReplayKept == People /\ ReplayInv /\ [Next]_vars => ReplayInv'
<1> SUFFICES ASSUME People, ReplayInv, [Next]_vars PROVE ReplayInv'
  OBVIOUS
<1> USE DEF ReplayInv
<1>1. CASE SignIn
  BY <1>1, SignInKeeps
<1>2. CASE EnrollTotp
  <2>1. PICK n \in DOMAIN accounts :
          accounts' = [accounts EXCEPT ![n] = [secret |-> secrets + 1, last |-> 0]]
    BY <1>2 DEF EnrollTotp
  <2>2. accepted' = accepted /\ secrets' = secrets + 1 /\ secrets \in Nat
    BY <1>2, BoundsAssumption DEF EnrollTotp, People, history
  <2>3. /\ DOMAIN accounts' = DOMAIN accounts
        /\ accounts'[n] = [secret |-> secrets + 1, last |-> 0]
        /\ \A m \in DOMAIN accounts : m # n => accounts'[m] = accounts[m]
    BY <2>1
  <2>4. \A m \in DOMAIN accounts : accounts[m].secret \in Nat /\ accounts[m].secret < secrets + 1
    BY <2>2, BoundsAssumption DEF People, Account
  <2>5. OneHolder'
    BY <2>2, <2>3, <2>4 DEF OneHolder
  <2>6. Ahead'
    <3> SUFFICES ASSUME NEW m \in DOMAIN accounts, NEW s \in 1..MaxSecrets,
                        accounts'[m].secret = s, NEW a \in DOMAIN accepted[s]
                 PROVE  accepted[s][a] <= accounts'[m].last
      BY <2>2, <2>3 DEF Ahead
    <3>1. CASE m = n
      <4>1. accepted[s] = <<>>
        BY <2>2, <2>3, <3>1 DEF Untried
      <4> QED
        BY <4>1
    <3>2. CASE m # n
      BY <2>3, <3>2 DEF Ahead
    <3> QED
      BY <3>1, <3>2
  <2>7. Untried' /\ NoReplay' /\ Taken'
    BY <2>2 DEF Untried, NoReplay, Taken
  <2> QED
    BY <2>5, <2>6, <2>7
<1>3. CASE CreateMember
  <2>1. PICK n \in Names \ DOMAIN accounts : accounts' = With(accounts, n, NewAccount)
    BY <1>3 DEF CreateMember
  <2>2. UNCHANGED <<accepted, secrets>>
    BY <1>3 DEF CreateMember, history
  <2>3. /\ DOMAIN accounts' = DOMAIN accounts \cup {n} /\ accounts'[n].secret = 0
        /\ \A m \in DOMAIN accounts : accounts'[m] = accounts[m]
    BY <2>1 DEF With, NewAccount
  <2> QED
    BY <2>2, <2>3 DEF OneHolder, Ahead, Untried, NoReplay, Taken
<1>4. CASE DeleteMember
  <2>1. PICK n \in DOMAIN accounts : accounts' = Without(accounts, {n})
    BY <1>4 DEF DeleteMember
  <2>2. UNCHANGED <<accepted, secrets>>
    BY <1>4 DEF DeleteMember, history
  <2>3. /\ DOMAIN accounts' = DOMAIN accounts \ {n}
        /\ \A m \in DOMAIN accounts \ {n} : accounts'[m] = accounts[m]
    BY <2>1, WithoutSome
  <2> QED
    BY <2>2, <2>3 DEF OneHolder, Ahead, Untried, NoReplay, Taken
<1>5. CASE Tick \/ Refuse \/ Request \/ Orphaned \/ SignOut \/ Restart \/ UNCHANGED vars
  <2>1. UNCHANGED <<accounts, secrets, accepted>>
    BY <1>5 DEF Tick, Refuse, Request, Orphaned, SignOut, Restart, people, history, vars
  <2> QED
    BY <2>1 DEF OneHolder, Ahead, Untried, NoReplay, Taken
<1> QED
  BY <1>1, <1>2, <1>3, <1>4, <1>5 DEF Next

\* No code signs in twice, and none that is older than one that did, although
\* members are deleted, created again under their names and given new secrets.
THEOREM CodesAreUsedOnce == Spec => []NoReplay
<1> DEFINE Inv == People /\ ReplayInv
<1>1. Init => Inv
  <2> SUFFICES ASSUME Init PROVE Inv
    OBVIOUS
  <2>1. People
    BY PresentedAtFirst
  <2>2. Taken /\ Untried /\ NoReplay
    BY EmptySeq DEF Init, Taken, Untried, NoReplay
  <2>3. OneHolder /\ Ahead
    BY DEF Init, NewAccount, OneHolder, Ahead
  <2> QED
    BY <2>1, <2>2, <2>3 DEF ReplayInv
<1>2. Inv /\ [Next]_vars => Inv'
  BY PeopleKept, ReplayKept
<1>3. Inv => NoReplay
  BY DEF ReplayInv
<1> QED
  BY <1>1, <1>2, <1>3, PTL DEF Spec
-----------------------------------------------------------------------------
(* The rest of the types: lockouts never count past their limit, because a   *)
(* locked key is refused before its attempt is counted.                      *)

Counted ==
  /\ DOMAIN lockouts \subseteq Keys
  /\ \A k \in DOMAIN lockouts :
       lockouts[k] \in Lockout /\ lockouts[k].since <= clock
                              /\ lockouts[k].failures <= MaxFailuresFor(k)
  /\ wrong \in [Keys -> Seq(Nat)] /\ cleared \in [Keys -> Seq(Nat)]
  /\ refusals \in 0..MaxRefusals /\ faults \in 0..MaxFaults

\* Noting the running lockouts that are cleared.
LEMMA ClearedKept ==
  ASSUME Counted, NEW K, Cleared(K), clock \in Nat
  PROVE  /\ cleared' \in [Keys -> Seq(Nat)]
         /\ \A k \in Keys : cleared'[k] = IF k \in K /\ Running(k)
                                          THEN Append(cleared[k], clock) ELSE cleared[k]
<1>1. \A k \in Keys : Append(cleared[k], clock) \in Seq(Nat) /\ cleared[k] \in Seq(Nat)
  BY AppendProperties DEF Counted
<1> QED
  BY <1>1 DEF Cleared

LEMMA CountedKept == Counted /\ Presented /\ [Next]_vars => Counted'
<1> SUFFICES ASSUME Counted, Presented, [Next]_vars PROVE Counted'
  OBVIOUS
<1> USE DEF Counted
<1>0. clock \in Nat /\ MaxRefusals \in Nat /\ MaxFaults \in Nat
  BY BoundsAssumption DEF Presented
<1>1. CASE Tick
  <2>1. clock' = clock + 1 /\ UNCHANGED <<lockouts, wrong, cleared, bounds>>
    BY <1>1 DEF Tick
  <2>2. \A k \in DOMAIN lockouts : lockouts[k].since \in Nat
    BY DEF Lockout
  <2> QED
    BY <1>0, <2>1, <2>2 DEF bounds
<1>2. CASE SignIn
  <2>1. PICK K : lockouts' = Without(lockouts, K) /\ Cleared(K)
    BY <1>2 DEF SignIn
  <2>2. UNCHANGED <<clock, wrong, bounds>>
    BY <1>2 DEF SignIn
  <2>3. /\ DOMAIN lockouts' = DOMAIN lockouts \ K
        /\ \A k \in DOMAIN lockouts \ K : lockouts'[k] = lockouts[k]
    BY <2>1, WithoutSome
  <2>4. cleared' \in [Keys -> Seq(Nat)]
    BY <1>0, <2>1, ClearedKept
  <2> QED
    BY <2>2, <2>3, <2>4 DEF bounds
<1>3. CASE Refuse
  <2>1. PICK k \in Keys :
          /\ ~Locked(k)
          /\ lockouts' = With(lockouts, k,
               IF Running(k) THEN [lockouts[k] EXCEPT !.failures = @ + 1]
                             ELSE [failures |-> 1, since |-> clock])
          /\ wrong' = [wrong EXCEPT ![k] = Append(@, clock)]
    BY <1>3 DEF Refuse
  <2>2. refusals' \in 0..MaxRefusals /\ UNCHANGED <<clock, cleared, faults>>
    BY <1>0, <1>3 DEF Refuse
  <2>3. PICK m \in Nat \ {0} : m = MaxFailuresFor(k)
    BY TimesAssumption DEF MaxFailuresFor
  <2>4. PICK e : e = lockouts'[k]
    OBVIOUS
  <2>5. /\ DOMAIN lockouts' = DOMAIN lockouts \cup {k}
        /\ \A x \in DOMAIN lockouts : x # k => lockouts'[x] = lockouts[x]
        /\ Running(k) => e = [lockouts[k] EXCEPT !.failures = @ + 1]
        /\ ~Running(k) => e = [failures |-> 1, since |-> clock]
    BY <2>1, <2>4 DEF With
  <2>6. e \in Lockout /\ e.since <= clock /\ e.failures <= m
    <3>1. CASE Running(k)
      <4>1. PICK l : l = lockouts[k]
        OBVIOUS
      <4>2. l \in Lockout /\ l.since <= clock /\ ~(l.failures >= m)
        BY <2>1, <2>3, <3>1, <4>1 DEF Locked, Running
      <4>3. e = [l EXCEPT !.failures = @ + 1]
        BY <2>5, <3>1, <4>1
      <4>4. PICK f \in Nat \ {0}, g \in Nat : l = [failures |-> f, since |-> g]
        BY <4>2 DEF Lockout
      <4>5. e = [failures |-> f + 1, since |-> g]
        BY <4>3, <4>4
      <4>6. f + 1 \in Nat \ {0} /\ f + 1 <= m /\ g <= clock
        BY <2>3, <4>2, <4>4
      <4> QED
        BY <4>5, <4>6 DEF Lockout
    <3>2. CASE ~Running(k)
      BY <1>0, <2>3, <2>5, <3>2 DEF Lockout
    <3> QED
      BY <3>1, <3>2
  <2>7. wrong' \in [Keys -> Seq(Nat)]
    <3>1. Append(wrong[k], clock) \in Seq(Nat)
      BY <1>0, <2>1, AppendProperties
    <3> QED
      BY <2>1, <3>1
  <2> QED
    BY <2>1, <2>2, <2>3, <2>4, <2>5, <2>6, <2>7
<1>4. CASE Restart
  <2>1. DOMAIN lockouts' = {} /\ faults' \in 0..MaxFaults /\ refusals' = refusals
        /\ wrong' = wrong
    BY <1>0, <1>4 DEF Restart, Empty
  <2>2. cleared' \in [Keys -> Seq(Nat)]
    BY <1>0, <1>4, ClearedKept DEF Restart
  <2> QED
    BY <2>1, <2>2
<1>5. CASE DeleteMember
  BY <1>0, <1>5 DEF DeleteMember, history
<1>6. CASE CreateMember \/ EnrollTotp \/ Request \/ Orphaned \/ SignOut \/ UNCHANGED vars
  BY <1>6 DEF CreateMember, EnrollTotp, Request, Orphaned, SignOut, history, bounds, vars
<1> QED
  BY <1>1, <1>2, <1>3, <1>4, <1>5, <1>6 DEF Next

\* Accounts, sessions, lockouts and histories keep their types, and no key counts
\* more failures than its limit.
THEOREM SignInTypeCorrect == Spec => []TypeOK
<1> DEFINE Inv == People /\ Presented /\ Counted /\ ReplayInv
<1>1. Init => Inv
  <2> SUFFICES ASSUME Init PROVE Inv
    OBVIOUS
  <2>1. TypeOK /\ People /\ Presented
    BY TypesAtFirst, PresentedAtFirst
  <2>2. Taken /\ Untried /\ NoReplay
    BY EmptySeq DEF Init, Taken, Untried, NoReplay
  <2>3. OneHolder /\ Ahead
    BY DEF Init, NewAccount, OneHolder, Ahead
  <2> QED
    BY <2>1, <2>2, <2>3 DEF TypeOK, Counted, ReplayInv
<1>2. Inv /\ [Next]_vars => Inv'
  BY PeopleKept, PresentedKept, CountedKept, ReplayKept
<1>3. Inv => TypeOK
  BY DEF TypeOK, People, Presented, Counted, ReplayInv, Taken
<1> QED
  BY <1>1, <1>2, <1>3, PTL DEF Spec
-----------------------------------------------------------------------------
(* Guesses.  In a span of one window, the refusals of a key before its first  *)
(* clear or new window belong to a lockout that began before the span, and    *)
(* the span sees one failure less than the limit of it.  A window that began  *)
(* in the span does not elapse in it: only a clear makes room for another.    *)

LEMMA WithinAppend ==
  ASSUME NEW q \in Seq(Nat), NEW c \in Nat, NEW t \in Nat
  PROVE  /\ Within(q, t) \in Nat
         /\ Within(Append(q, c), t) = Within(q, t) + IF t <= c /\ c < t + Window THEN 1 ELSE 0
<1>1. PICK n \in Nat : n = Len(q)
  BY LenProperties
<1>2. PICK v : v = Append(q, c)
  OBVIOUS
<1>3. /\ DOMAIN q = 1..n /\ DOMAIN v = 1..n + 1 /\ v[n + 1] = c
      /\ \A j \in 1..n : v[j] = q[j]
  BY <1>1, <1>2, AppendProperties, LenProperties
<1>4. Window \in Nat
  BY TimesAssumption
<1>5. PICK old : old = {j \in 1..n : q[j] \in t .. t + Window - 1}
  OBVIOUS
<1>6. PICK new : new = {j \in 1..n + 1 : v[j] \in t .. t + Window - 1}
  OBVIOUS
<1>7. IsFiniteSet(old)
  <2>1. IsFiniteSet(1..n)
    BY FS_Interval
  <2>2. old \subseteq 1..n
    BY <1>5
  <2> QED
    BY <2>1, <2>2, FS_Subset
<1>8. Cardinality(old) \in Nat
  BY <1>7, FS_CardinalityType
<1>9. Within(q, t) = Cardinality(old) /\ Within(v, t) = Cardinality(new)
  BY <1>3, <1>5, <1>6 DEF Within
<1>10. CASE t <= c /\ c < t + Window
  <2>1. c \in t .. t + Window - 1
    BY <1>4, <1>10
  <2>2. new = old \cup {n + 1} /\ n + 1 \notin old
    BY <1>3, <1>5, <1>6, <2>1
  <2>3. Cardinality(new) = Cardinality(old) + 1
    BY <1>7, <2>2, FS_AddElement
  <2> QED
    BY <1>2, <1>8, <1>9, <1>10, <2>3
<1>11. CASE ~(t <= c /\ c < t + Window)
  <2>1. c \notin t .. t + Window - 1
    BY <1>4, <1>11
  <2>2. new = old
    BY <1>3, <1>5, <1>6, <2>1
  <2> QED
    BY <1>2, <1>8, <1>9, <1>11, <2>2
<1> QED
  BY <1>10, <1>11

LEMMA WithinEmpty ==
  ASSUME NEW t \in Nat
  PROVE  Within(<<>>, t) = 0
<1>1. {j \in DOMAIN <<>> : <<>>[j] \in t .. t + Window - 1} = {}
  BY EmptySeq
<1> QED
  BY <1>1, FS_EmptySet DEF Within

\* The books of one key at time c for the span from t: r refusals in it, an
\* allowance a for the clears in it, the limit m, and the running lockout, if one
\* runs, with f failures since s.
Balanced(r, a, m, t, c, run, s, f) ==
  /\ r < 2 * m + a
  /\ c < t => r = 0
  /\ t <= c /\ c < t + Window =>
       r <= IF run THEN (IF s < t THEN f - 1 ELSE (m - 1) + a + f) ELSE (m - 1) + a

\* Time passes: a lockout that began in the span is still running in it.
LEMMA BalancedTick ==
  ASSUME NEW r \in Nat, NEW a \in Nat, NEW m \in Nat \ {0}, NEW t \in Nat, NEW c \in Nat,
         NEW run \in BOOLEAN, NEW later \in BOOLEAN, NEW s, NEW f,
         run => s \in Nat /\ f \in Nat \ {0} /\ f <= m /\ s <= c,
         later <=> run /\ ~((c + 1) - s >= Window),
         Balanced(r, a, m, t, c, run, s, f)
  PROVE  Balanced(r, a, m, t, c + 1, later, s, f)
<1>1. Window \in Nat \ {0}
  BY TimesAssumption
<1>2. CASE run /\ later
  BY <1>1, <1>2 DEF Balanced
<1>3. CASE run /\ ~later
  BY <1>1, <1>3 DEF Balanced
<1>4. CASE ~run
  BY <1>1, <1>4 DEF Balanced
<1> QED
  BY <1>2, <1>3, <1>4

Allowance(k, t) == MaxFailuresFor(k) * Within(cleared[k], t)

SpanInv(k, t) ==
  Balanced(Within(wrong[k], t), Allowance(k, t), MaxFailuresFor(k), t, clock,
           Running(k), lockouts[k].since, lockouts[k].failures)

GuessInv == \A k \in Keys, t \in Nat : SpanInv(k, t)

\* The numbers in the books are natural numbers.
LEMMA Books ==
  ASSUME Counted, Presented, NEW k \in Keys, NEW t \in Nat
  PROVE  /\ Within(wrong[k], t) \in Nat /\ Within(cleared[k], t) \in Nat
         /\ Allowance(k, t) \in Nat /\ MaxFailuresFor(k) \in Nat \ {0} /\ clock \in Nat
         /\ Running(k) \in BOOLEAN
         /\ Running(k) => /\ lockouts[k].since \in Nat /\ lockouts[k].failures \in Nat \ {0}
                          /\ lockouts[k].failures <= MaxFailuresFor(k)
                          /\ lockouts[k].since <= clock /\ lockouts[k] \in Lockout
<1>1. wrong[k] \in Seq(Nat) /\ cleared[k] \in Seq(Nat)
  BY DEF Counted
<1>2. clock \in Nat
  BY BoundsAssumption DEF Presented
<1>3. Within(wrong[k], t) \in Nat /\ Within(cleared[k], t) \in Nat
  BY <1>1, <1>2, WithinAppend
<1>4. MaxFailuresFor(k) \in Nat \ {0}
  BY TimesAssumption DEF MaxFailuresFor
<1>5. Allowance(k, t) \in Nat
  <2>1. PICK m \in Nat, w \in Nat : m = MaxFailuresFor(k) /\ w = Within(cleared[k], t)
    BY <1>3, <1>4
  <2>2. m * w \in Nat
    OBVIOUS
  <2> QED
    BY <2>1, <2>2 DEF Allowance
<1>6. Running(k) \in BOOLEAN
  BY DEF Running
<1>7. ASSUME Running(k)
      PROVE  /\ lockouts[k].since \in Nat /\ lockouts[k].failures \in Nat \ {0}
             /\ lockouts[k].failures <= MaxFailuresFor(k)
             /\ lockouts[k].since <= clock /\ lockouts[k] \in Lockout
  BY <1>7 DEF Running, Counted, Lockout
<1> QED
  BY <1>2, <1>3, <1>4, <1>5, <1>6, <1>7

\* A step that leaves a key's lockout, its history and the clock alone.
LEMMA SpanUntouched ==
  ASSUME NEW k \in Keys, NEW t \in Nat, SpanInv(k, t), clock' = clock,
         wrong'[k] = wrong[k], cleared'[k] = cleared[k],
         k \in DOMAIN lockouts' <=> k \in DOMAIN lockouts,
         k \in DOMAIN lockouts => lockouts'[k] = lockouts[k]
  PROVE  SpanInv(k, t)'
<1>1. Running(k)' <=> Running(k)
  BY DEF Running, Elapsed
<1>2. Allowance(k, t)' = Allowance(k, t) /\ Within(wrong[k], t)' = Within(wrong[k], t)
  BY DEF Allowance, Within
<1>3. CASE Running(k)
  <2>1. lockouts'[k] = lockouts[k]
    BY <1>3 DEF Running
  <2> QED
    BY <1>1, <1>2, <1>3, <2>1 DEF SpanInv, Balanced
<1>4. CASE ~Running(k)
  BY <1>1, <1>2, <1>4 DEF SpanInv, Balanced
<1> QED
  BY <1>3, <1>4

\* What a wrong code does to the books of its key, and of the others.
LEMMA RefuseBalances == Counted /\ Presented /\ GuessInv /\ Refuse => GuessInv'
<1> SUFFICES ASSUME Counted, Presented, GuessInv, Refuse, NEW x \in Keys, NEW t \in Nat
             PROVE  SpanInv(x, t)'
  BY DEF GuessInv
<1>1. PICK k \in Keys :
        /\ ~Locked(k)
        /\ lockouts' = With(lockouts, k,
             IF Running(k) THEN [lockouts[k] EXCEPT !.failures = @ + 1]
                           ELSE [failures |-> 1, since |-> clock])
        /\ wrong' = [wrong EXCEPT ![k] = Append(@, clock)]
  BY DEF Refuse
<1>2. clock' = clock /\ cleared' = cleared /\ clock \in Nat
  BY BoundsAssumption DEF Refuse, Presented
<1>3. /\ DOMAIN lockouts' = DOMAIN lockouts \cup {k}
      /\ \A y \in DOMAIN lockouts : y # k => lockouts'[y] = lockouts[y]
      /\ lockouts'[k] = IF Running(k) THEN [lockouts[k] EXCEPT !.failures = @ + 1]
                                      ELSE [failures |-> 1, since |-> clock]
  BY <1>1 DEF With
<1>4. SpanInv(x, t)
  BY DEF GuessInv
<1>5. wrong'[k] = Append(wrong[k], clock) /\ (x # k => wrong'[x] = wrong[x])
  BY <1>1 DEF Counted
<1>6. CASE x # k
  BY <1>2, <1>3, <1>4, <1>5, <1>6, SpanUntouched
<1>7. CASE x = k
  <2>1. PICK r \in Nat, a \in Nat, m \in Nat \ {0}, c \in Nat :
          r = Within(wrong[k], t) /\ a = Allowance(k, t) /\ m = MaxFailuresFor(k) /\ c = clock
    BY Books
  <2>2. PICK run, s, f :
          run \in BOOLEAN /\ (run <=> Running(k)) /\ s = lockouts[k].since /\ f = lockouts[k].failures
    OBVIOUS
  <2>3. PICK s2, f2 : s2 = lockouts'[k].since /\ f2 = lockouts'[k].failures
    OBVIOUS
  <2>4. run => s \in Nat /\ f \in Nat \ {0} /\ f <= m /\ s <= c /\ lockouts[k] \in Lockout
    BY <2>1, <2>2, Books
  <2>5. run => f < m
    <3>1. run => ~(f >= m)
      BY <1>1, <2>1, <2>2 DEF Locked
    <3> QED
      BY <2>1, <2>4, <3>1
  <2>6. run => s2 = s /\ f2 = f + 1
    BY <1>3, <2>2, <2>3, <2>4 DEF Lockout
  <2>7. ~run => s2 = c /\ f2 = 1
    BY <1>3, <2>1, <2>2, <2>3
  <2>8. s2 \in Nat /\ f2 \in Nat
    BY <2>1, <2>4, <2>6, <2>7
  <2>9. PICK r2 : r2 = Within(Append(wrong[k], clock), t)
    OBVIOUS
  <2>10. r2 = r + IF t <= c /\ c < t + Window THEN 1 ELSE 0
    <3>1. wrong[k] \in Seq(Nat)
      BY DEF Counted
    <3> QED
      BY <1>2, <2>1, <2>9, <3>1, WithinAppend
  <2>11. Balanced(r, a, m, t, c, run, s, f)
    BY <1>4, <1>7, <2>1, <2>2 DEF SpanInv, Balanced
  <2>12. Balanced(r2, a, m, t, c, TRUE, s2, f2)
    <3>1. r2 \in Nat /\ Window \in Nat \ {0}
      BY <2>1, <2>10, TimesAssumption
    <3>2. CASE run
      BY ONLY <2>1, <2>4, <2>5, <2>6, <2>10, <2>11, <3>1, <3>2, t \in Nat DEF Balanced
    <3>3. CASE ~run
      BY ONLY <2>1, <2>7, <2>10, <2>11, <3>1, <3>3, t \in Nat DEF Balanced
    <3> QED
      BY <3>2, <3>3
  <2>13. Running(k)'
    <3>1. k \in DOMAIN lockouts'
      BY <1>3
    <3>2. run => ~(c - s >= Window)
      BY <2>1, <2>2 DEF Running, Elapsed
    <3>3. ~(c - s2 >= Window)
      BY <2>1, <2>6, <2>7, <3>2, TimesAssumption
    <3> QED
      BY <1>2, <2>1, <2>3, <3>1, <3>3 DEF Running, Elapsed
  <2>14. Allowance(k, t)' = a /\ Within(wrong[k], t)' = r2
    BY <1>2, <1>5, <2>1, <2>9 DEF Allowance, Within
  <2> QED
    BY <1>2, <1>7, <2>1, <2>3, <2>12, <2>13, <2>14 DEF SpanInv, Balanced
<1> QED
  BY <1>6, <1>7

\* What forgetting the lockouts of K does to the books.
LEMMA ClearBalances ==
  ASSUME Counted, Presented, GuessInv, NEW K, Cleared(K), clock' = clock, wrong' = wrong,
         DOMAIN lockouts' = DOMAIN lockouts \ K,
         \A k \in DOMAIN lockouts \ K : lockouts'[k] = lockouts[k]
  PROVE  GuessInv'
<1> SUFFICES ASSUME NEW k \in Keys, NEW t \in Nat PROVE SpanInv(k, t)'
  BY DEF GuessInv
<1>1. SpanInv(k, t)
  BY DEF GuessInv
<1>2. clock \in Nat
  BY BoundsAssumption DEF Presented
<1>3. cleared'[k] = IF k \in K /\ Running(k) THEN Append(cleared[k], clock) ELSE cleared[k]
  BY <1>2, ClearedKept
<1>4. CASE k \notin K
  BY <1>1, <1>3, <1>4, SpanUntouched
<1>5. CASE k \in K
  <2>1. PICK r \in Nat, a \in Nat, m \in Nat \ {0}, c \in Nat, w \in Nat :
          /\ r = Within(wrong[k], t) /\ a = Allowance(k, t) /\ m = MaxFailuresFor(k)
          /\ c = clock /\ w = Within(cleared[k], t)
    BY Books
  <2>2. PICK run, s, f :
          run \in BOOLEAN /\ (run <=> Running(k)) /\ s = lockouts[k].since /\ f = lockouts[k].failures
    OBVIOUS
  <2>3. run => s \in Nat /\ f \in Nat \ {0} /\ f <= m /\ s <= c
    BY <2>1, <2>2, Books
  <2>4. PICK w2 : w2 = Within(cleared'[k], t)
    OBVIOUS
  <2>5. w2 = w + IF run /\ t <= c /\ c < t + Window THEN 1 ELSE 0
    <3>1. cleared[k] \in Seq(Nat)
      BY DEF Counted
    <3>3. ASSUME NEW q \in Seq(Nat)
          PROVE  Within(Append(q, c), t) = Within(q, t) + IF t <= c /\ c < t + Window THEN 1 ELSE 0
      BY WithinAppend
    <3>2. Within(Append(cleared[k], c), t) = w + IF t <= c /\ c < t + Window THEN 1 ELSE 0
      BY <2>1, <3>1, <3>3
    <3> QED
      BY <1>3, <1>5, <2>1, <2>2, <2>4, <3>2
  <2>6. m * w2 = m * w + IF run /\ t <= c /\ c < t + Window THEN m ELSE 0
    BY <2>1, <2>5
  <2>7. Balanced(r, a, m, t, c, run, s, f)
    BY <1>1, <2>1, <2>2 DEF SpanInv, Balanced
  <2>8. PICK a2, s2, f2 : a2 = m * w2 /\ s2 = lockouts'[k].since /\ f2 = lockouts'[k].failures
    OBVIOUS
  <2>9. a2 = a + IF run /\ t <= c /\ c < t + Window THEN m ELSE 0
    BY <2>1, <2>6, <2>8 DEF Allowance
  <2>10. Balanced(r, a2, m, t, c, FALSE, s2, f2)
    <3>1. a2 \in Nat /\ Window \in Nat \ {0}
      BY <2>1, <2>9, TimesAssumption
    <3>2. CASE run
      BY ONLY <2>1, <2>3, <2>7, <2>9, <3>1, <3>2, t \in Nat DEF Balanced
    <3>3. CASE ~run
      BY ONLY <2>1, <2>7, <2>9, <3>1, <3>3, t \in Nat DEF Balanced
    <3> QED
      BY <3>2, <3>3
  <2>11. ~Running(k)'
    BY <1>5 DEF Running
  <2>12. Allowance(k, t)' = a2 /\ Within(wrong[k], t)' = r
    BY <2>1, <2>4, <2>8 DEF Allowance, Within
  <2> QED
    BY <2>1, <2>8, <2>10, <2>11, <2>12 DEF SpanInv, Balanced
<1> QED
  BY <1>4, <1>5

LEMMA GuessesKept == Counted /\ Presented /\ GuessInv /\ [Next]_vars => GuessInv'
<1> SUFFICES ASSUME Counted, Presented, GuessInv, [Next]_vars PROVE GuessInv'
  OBVIOUS
<1>1. CASE Refuse
  BY <1>1, RefuseBalances
<1>2. CASE SignIn
  <2>1. PICK K : lockouts' = Without(lockouts, K) /\ Cleared(K)
    BY <1>2 DEF SignIn
  <2>2. clock' = clock /\ wrong' = wrong
    BY <1>2 DEF SignIn
  <2>3. /\ DOMAIN lockouts' = DOMAIN lockouts \ K
        /\ \A k \in DOMAIN lockouts \ K : lockouts'[k] = lockouts[k]
    BY <2>1, WithoutSome
  <2> QED
    BY <2>1, <2>2, <2>3, ClearBalances
<1>3. CASE Restart
  <2>1. Cleared(Keys) /\ clock' = clock /\ wrong' = wrong /\ DOMAIN lockouts' = {}
    BY <1>3 DEF Restart, Empty
  <2>2. DOMAIN lockouts \ Keys = {}
    BY DEF Counted
  <2> QED
    BY <2>1, <2>2, ClearBalances
<1>4. CASE Tick
  <2> SUFFICES ASSUME NEW k \in Keys, NEW t \in Nat PROVE SpanInv(k, t)'
    BY DEF GuessInv
  <2>1. clock' = clock + 1 /\ UNCHANGED <<lockouts, wrong, cleared>>
    BY <1>4 DEF Tick
  <2>2. PICK r \in Nat, a \in Nat, m \in Nat \ {0}, c \in Nat :
          r = Within(wrong[k], t) /\ a = Allowance(k, t) /\ m = MaxFailuresFor(k) /\ c = clock
    BY Books
  <2>3. PICK run, later, s, f :
          /\ run \in BOOLEAN /\ later \in BOOLEAN
          /\ run <=> Running(k)
          /\ later <=> Running(k)'
          /\ s = lockouts[k].since /\ f = lockouts[k].failures
    OBVIOUS
  <2>4. run => s \in Nat /\ f \in Nat \ {0} /\ f <= m /\ s <= c
    BY <2>2, <2>3, Books
  <2>5. later <=> run /\ ~((c + 1) - s >= Window)
    <3>1. later <=> k \in DOMAIN lockouts /\ ~((c + 1) - s >= Window)
      BY <2>1, <2>2, <2>3 DEF Running, Elapsed
    <3>2. run <=> k \in DOMAIN lockouts /\ ~(c - s >= Window)
      BY <2>2, <2>3 DEF Running, Elapsed
    <3>3. k \in DOMAIN lockouts => s \in Nat
      BY <2>3 DEF Counted, Lockout
    <3>4. Window \in Nat
      BY TimesAssumption
    <3> QED
      BY <3>1, <3>2, <3>3, <3>4
  <2>6. Balanced(r, a, m, t, c, run, s, f)
    BY <2>2, <2>3 DEF GuessInv, SpanInv, Balanced
  <2>7. Balanced(r, a, m, t, c + 1, later, s, f)
    BY ONLY <2>2, <2>3, <2>4, <2>5, <2>6, BalancedTick
  <2>8. Allowance(k, t)' = a /\ Within(wrong[k], t)' = r
    BY <2>1, <2>2 DEF Allowance, Within
  <2> QED
    BY <2>1, <2>2, <2>3, <2>7, <2>8 DEF SpanInv, Balanced
<1>5. CASE CreateMember \/ DeleteMember \/ EnrollTotp \/ Request \/ Orphaned \/ SignOut
           \/ UNCHANGED vars
  <2>1. UNCHANGED <<clock, lockouts, wrong, cleared>>
    BY <1>5 DEF CreateMember, DeleteMember, EnrollTotp, Request, Orphaned, SignOut, history, vars
  <2> QED
    BY <2>1, SpanUntouched DEF GuessInv
<1> QED
  BY <1>1, <1>2, <1>3, <1>4, <1>5 DEF Next

\* Into any span as long as the lockout window fall fewer refusals of one key than
\* twice its limit and one limit for every running lockout of the key cleared in
\* it, for all limits and windows: the window does not slide, and a locked key is
\* refused before its attempt counts.
THEOREM GuessersAreLockedOut == Spec => []GuessesBounded
<1> DEFINE Inv == People /\ Presented /\ Counted /\ GuessInv
<1>1. Init => Inv
  <2> SUFFICES ASSUME Init PROVE Inv
    OBVIOUS
  <2>1. TypeOK /\ People /\ Presented
    BY TypesAtFirst, PresentedAtFirst
  <2>2. Counted
    BY <2>1 DEF TypeOK, Counted
  <2>3. GuessInv
    <3> SUFFICES ASSUME NEW k \in Keys, NEW t \in Nat PROVE SpanInv(k, t)
      BY DEF GuessInv
    <3>1. DOMAIN lockouts = {} /\ wrong[k] = <<>>
      BY DEF Init, Empty
    <3>2. ~Running(k) /\ Within(wrong[k], t) = 0
      BY <3>1, WithinEmpty DEF Running
    <3>3. PICK a \in Nat, m \in Nat \ {0} : a = Allowance(k, t) /\ m = MaxFailuresFor(k)
      BY <2>1, <2>2, Books
    <3> QED
      BY <3>2, <3>3 DEF SpanInv, Balanced
  <2> QED
    BY <2>1, <2>2, <2>3
<1>2. Inv /\ [Next]_vars => Inv'
  BY PeopleKept, PresentedKept, CountedKept, GuessesKept
<1>3. Inv => GuessesBounded
  <2> SUFFICES ASSUME Inv, NEW k \in Keys, NEW t \in 1..MaxClock
               PROVE  Within(wrong[k], t) < (2 + Within(cleared[k], t)) * MaxFailuresFor(k)
    BY DEF GuessesBounded
  <2>1. t \in Nat
    BY BoundsAssumption
  <2>2. PICK r \in Nat, w \in Nat, m \in Nat :
          r = Within(wrong[k], t) /\ w = Within(cleared[k], t) /\ m = MaxFailuresFor(k)
    BY <2>1, Books
  <2>3. SpanInv(k, t)
    BY <2>1 DEF GuessInv
  <2>4. r < 2 * m + m * w
    BY <2>2, <2>3 DEF SpanInv, Balanced, Allowance
  <2>5. 2 * m + m * w = (2 + w) * m
    BY <2>2
  <2> QED
    BY <2>2, <2>4, <2>5
<1> QED
  BY <1>1, <1>2, <1>3, PTL DEF Spec
=============================================================================
