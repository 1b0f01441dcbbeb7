---------------------------- MODULE RunnerProofs ----------------------------
(***************************************************************************)
(* Theorems about the runner: the busy signal with its presence reports,   *)
(* for all sessions, stamps, items and handles, and any ages, bounds and   *)
(* numbers of crashes; then the objectives tracker, for any number of      *)
(* objectives, changes and troubles.  The two share nothing but the        *)
(* process they run in.                                                    *)
(***************************************************************************)
EXTENDS ObjectivesTracker, Presence, FiniteSetTheorems, SequenceTheorems, TLAPS

-----------------------------------------------------------------------------
(* Types.  A report is only sent while there is room for one. *)

PresenceTypeInv == PresenceTypeOK /\ InFlight <= MaxFlight

LEMMA AgesAreTicks ==
  /\ {LlmAge, ToolAge, MaxAge} \subseteq Nat
  /\ LlmAge \in Gone..MaxAge /\ ToolAge \in Gone..MaxAge
  /\ \A n \in Gone..MaxAge : n > 0 => n - 1 \in Gone..MaxAge /\ n - 1 # Gone
  /\ Gone \in Gone..MaxAge
BY AgeAssumption DEF MaxAge, Gone

LEMMA SignalTypeInit == SignalInit => SignalTypeOK
<1> SUFFICES ASSUME SignalInit PROVE SignalTypeOK
  OBVIOUS
<1>1. <<>> \in Seq(Pending)
  BY EmptySeq
<1>2. Gone \in Gone..MaxAge /\ 0 \in 0..MaxBlows
  BY AgesAreTicks, BoundsAssumption
<1> QED
  BY <1>1, <1>2
  DEF SignalInit, SignalTypeOK, NoConns, NoRequests, NoHandles, NoItems, NoneLive, Refs

LEMMA ResetType == SignalTypeOK /\ Reset /\ blows' = blows /\ phase' = "down" => SignalTypeOK'
<1> SUFFICES ASSUME SignalTypeOK, Reset, blows' = blows, phase' = "down" PROVE SignalTypeOK'
  OBVIOUS
<1>1. <<>> \in Seq(Pending)
  BY EmptySeq
<1>2. Gone \in Gone..MaxAge
  BY AgesAreTicks
<1> QED
  BY <1>1, <1>2
  DEF Reset, SignalTypeOK, NoConns, NoRequests, NoHandles, NoItems, NoneLive, Refs

LEMMA FinishedType ==
  ASSUME SignalTypeOK, NEW hs
  PROVE  /\ Finished(hs) \in [Handles -> Gone..MaxAge]
         /\ \A h \in Handles : Finished(hs)[h] = IF h \in hs THEN Gone ELSE live[h]
BY AgesAreTicks DEF Finished, SignalTypeOK

\* Some handles of one session are taken out of the map.
LEMMA ExchangedType ==
  ASSUME SignalTypeOK, NEW s \in Sessions, NEW stamps, Exchanged(s, stamps)
  PROVE  /\ live' \in [Handles -> Gone..MaxAge]
         /\ lost' \subseteq Handles
         /\ ofRequest' \in [Sessions -> [Stamps -> Refs]]
<1>1. ofRequest' = [ofRequest EXCEPT
        ![s] = [k \in Stamps |-> IF k \in stamps THEN Off ELSE ofRequest[s][k]]]
  BY DEF Exchanged
<1>2. [k \in Stamps |-> IF k \in stamps THEN Off ELSE ofRequest[s][k]] \in [Stamps -> Refs]
  BY DEF SignalTypeOK, Refs
<1>3. live' \in [Handles -> Gone..MaxAge]
  BY FinishedType DEF Exchanged
<1> QED
  BY <1>1, <1>2, <1>3 DEF Exchanged, SignalTypeOK

LEMMA RequestType == ASSUME SignalTypeOK, NEW s \in Sessions, Request(s) PROVE SignalTypeOK'
<1>1. PICK h \in Handles, k \in Stamps :
        /\ Start(s, k, h)
        /\ asked' = [asked EXCEPT ![s] =
             Append(asked[s], [stamp |-> k, shared |-> k \in StampsOf(s)])]
  BY DEF Request
<1> DEFINE r == [stamp |-> k, shared |-> k \in StampsOf(s)]
<1>2. r \in Pending
  BY DEF Pending
<1> HIDE DEF r
<1>3. Append(asked[s], r) \in Seq(Pending)
  BY <1>2, AppendProperties DEF SignalTypeOK
<1>4. asked' \in [Sessions -> Seq(Pending)]
  BY <1>1, <1>3 DEF SignalTypeOK, r
<1>5. live' \in [Handles -> Gone..MaxAge] /\ lost' \subseteq Handles
  BY <1>1, AgesAreTicks DEF Start, SignalTypeOK, Live
<1>6. ofRequest' \in [Sessions -> [Stamps -> Refs]]
  BY <1>1 DEF Start, SignalTypeOK, Refs
<1>7. conn' \in [Sessions -> {"none", "open", "poisoned"}]
  BY DEF Request, SignalTypeOK
<1>8. UNCHANGED <<ofItem, phase, blows>>
  BY DEF Request
<1> QED
  BY <1>4, <1>5, <1>6, <1>7, <1>8 DEF SignalTypeOK

LEMMA RespondType == ASSUME SignalTypeOK, NEW s \in Sessions, Respond(s) PROVE SignalTypeOK'
<1>1. Tail(asked[s]) \in Seq(Pending)
  BY HeadTailProperties DEF Respond, SignalTypeOK
<1>2. asked' \in [Sessions -> Seq(Pending)]
  BY <1>1 DEF Respond, SignalTypeOK
<1>3. /\ live' \in [Handles -> Gone..MaxAge] /\ lost' \subseteq Handles
      /\ ofRequest' \in [Sessions -> [Stamps -> Refs]]
  BY ExchangedType DEF Respond
<1>4. UNCHANGED <<conn, ofItem, phase, blows>>
  BY DEF Respond
<1> QED
  BY <1>2, <1>3, <1>4 DEF SignalTypeOK

LEMMA CloseType == ASSUME SignalTypeOK, NEW s \in Sessions, Close(s) PROVE SignalTypeOK'
<1>1. /\ live' \in [Handles -> Gone..MaxAge] /\ lost' \subseteq Handles
      /\ ofRequest' \in [Sessions -> [Stamps -> Refs]]
  <2>1. CASE Unflushed(s)
    <3>1. live' = live /\ lost' \subseteq lost \cup Live
      BY <2>1 DEF Close
    <3>2. ofRequest' = [ofRequest EXCEPT ![s] = [k \in Stamps |-> Off]]
      BY <2>1 DEF Close
    <3>3. [k \in Stamps |-> Off] \in [Stamps -> Refs]
      BY DEF Refs
    <3> QED
      BY <3>1, <3>2, <3>3 DEF SignalTypeOK, Live
  <2>2. CASE ~Unflushed(s)
    BY <2>2, ExchangedType DEF Close
  <2> QED
    BY <2>1, <2>2
<1>2. <<>> \in Seq(Pending)
  BY EmptySeq
<1>3. /\ asked' \in [Sessions -> Seq(Pending)]
      /\ conn' \in [Sessions -> {"none", "open", "poisoned"}]
  BY <1>2 DEF Close, SignalTypeOK
<1>4. UNCHANGED <<ofItem, phase, blows>>
  BY DEF Close
<1> QED
  BY <1>1, <1>3, <1>4 DEF SignalTypeOK

LEMMA ToolTypes ==
  ASSUME SignalTypeOK, (\E i \in Items : ToolStarted(i) \/ ToolCompleted(i)) \/ DrainTools
  PROVE  SignalTypeOK'
<1>1. CASE \E i \in Items : ToolStarted(i)
  BY <1>1, AgesAreTicks DEF ToolStarted, SignalTypeOK, Refs
<1>2. CASE \E i \in Items : ToolCompleted(i)
  BY <1>2, FinishedType DEF ToolCompleted, SignalTypeOK, Refs
<1>3. CASE DrainTools
  BY <1>3, FinishedType DEF DrainTools, SignalTypeOK, Refs, NoItems
<1> QED
  BY <1>1, <1>2, <1>3

LEMMA AgeOutType == ASSUME SignalTypeOK, NEW h \in Handles, AgeOut(h) PROVE SignalTypeOK'
<1>1. \A ref \in Refs : Ended(ref, h) \in Refs
  BY DEF Ended, Refs
<1>2. /\ ofRequest' \in [Sessions -> [Stamps -> Refs]]
      /\ ofItem' \in [Items -> Refs]
  BY <1>1 DEF AgeOut, SignalTypeOK
<1>3. live' \in [Handles -> Gone..MaxAge] /\ lost' \subseteq Handles
  BY FinishedType DEF AgeOut, SignalTypeOK
<1> QED
  BY <1>2, <1>3 DEF AgeOut, SignalTypeOK

LEMMA CloseAllType == ASSUME SignalTypeOK, CloseAll PROVE SignalTypeOK'
<1>1. live' \in [Handles -> Gone..MaxAge]
  BY FinishedType DEF CloseAll
<1>2. lost' \subseteq Handles
  BY DEF CloseAll, SignalTypeOK, Live
<1>3. <<>> \in Seq(Pending)
  BY EmptySeq
<1>4. /\ ofRequest' \in [Sessions -> [Stamps -> Refs]]
      /\ asked' \in [Sessions -> Seq(Pending)]
      /\ conn' \in [Sessions -> {"none", "open", "poisoned"}]
  BY <1>3 DEF CloseAll, NoHandles, NoRequests, NoConns, Refs
<1> QED
  BY <1>1, <1>2, <1>4 DEF CloseAll, SignalTypeOK

LEMMA OlderType ==
  ASSUME SignalTypeOK
  PROVE  /\ Older \in [Handles -> Gone..MaxAge]
         /\ \A h \in Handles : Older[h] = Gone <=> live[h] = Gone
BY AgesAreTicks DEF Older, SignalTypeOK, Gone

LEMMA SignalTypeStep == SignalTypeOK /\ [Next]_vars => SignalTypeOK'
<1> SUFFICES ASSUME SignalTypeOK, [Next]_vars PROVE SignalTypeOK'
  OBVIOUS
<1>1. CASE NewWork
  BY <1>1, RequestType, ToolTypes DEF NewWork
<1>2. CASE WorkGoesOn
  <2>1. ASSUME NEW s \in Sessions, Poison(s) PROVE SignalTypeOK'
    BY <2>1, BoundsAssumption DEF Poison, SignalTypeOK
  <2> QED
    BY <1>2, <2>1, RespondType, CloseType, ToolTypes DEF WorkGoesOn
<1>3. CASE \E h \in Handles : TimeOut(h)
  BY <1>3, AgeOutType DEF TimeOut
<1>4. CASE Abort
  BY <1>4 DEF Abort, SignalTypeOK
<1>5. CASE Teardown
  BY <1>5, CloseAllType, ResetType DEF Teardown, ForceFinishAll
<1>6. CASE Crash
  BY <1>6, ResetType DEF Crash
<1>7. CASE Launch
  BY <1>7 DEF Launch, SignalTypeOK
<1>8. CASE Tick
  BY <1>8, OlderType DEF Tick, SignalTypeOK
<1>9. CASE UNCHANGED signal
  BY <1>9 DEF signal, SignalTypeOK
<1>10. CASE Heartbeat \/ (\E b \in BOOLEAN : Admit(b) \/ Land(b)) \/ Lose \/ DeleteMember
  BY <1>9, <1>10 DEF Heartbeat, Admit, Land, Lose, DeleteMember
<1>11. CASE Feed
  BY <1>1, <1>2, <1>11 DEF Feed
<1>12. CASE UNCHANGED vars
  BY <1>9, <1>12 DEF vars
<1> QED
  BY <1>3, <1>4, <1>5, <1>6, <1>7, <1>8, <1>10, <1>11, <1>12 DEF Next

\* The four places a report can be in.
LEMMA KindsAre ==
  /\ Kinds = {Report(TRUE), Report(FALSE),
              [busy |-> TRUE, admitted |-> TRUE], [busy |-> FALSE, admitted |-> TRUE]}
  /\ Report(TRUE) # Report(FALSE)
  /\ \A b, c \in BOOLEAN : Report(b) # [busy |-> c, admitted |-> TRUE]
  /\ [busy |-> TRUE, admitted |-> TRUE] # [busy |-> FALSE, admitted |-> TRUE]
<1> DEFINE R(b, a) == [busy |-> b, admitted |-> a]
<1>1. ASSUME NEW x \in Kinds
      PROVE  x = R(x.busy, x.admitted) /\ x.busy \in BOOLEAN /\ x.admitted \in BOOLEAN
  <2>1. x.busy \in BOOLEAN /\ x.admitted \in BOOLEAN
    BY DEF Kinds
  <2>2. x = [busy |-> x.busy, admitted |-> x.admitted]
    BY DEF Kinds
  <2> QED
    BY <2>1, <2>2
<1>2. \A b, a \in BOOLEAN : R(b, a) \in Kinds /\ R(b, a).busy = b /\ R(b, a).admitted = a
  BY DEF Kinds
<1> HIDE DEF R
<1>3. Kinds = {R(TRUE, FALSE), R(FALSE, FALSE), R(TRUE, TRUE), R(FALSE, TRUE)}
  <2>1. ASSUME NEW x \in Kinds
        PROVE  x \in {R(TRUE, FALSE), R(FALSE, FALSE), R(TRUE, TRUE), R(FALSE, TRUE)}
    <3>1. PICK b \in BOOLEAN, a \in BOOLEAN : x = R(b, a)
      BY <1>1
    <3>2. CASE b = TRUE /\ a = TRUE
      BY <3>1, <3>2
    <3>3. CASE b = TRUE /\ a = FALSE
      BY <3>1, <3>3
    <3>4. CASE b = FALSE /\ a = TRUE
      BY <3>1, <3>4
    <3>5. CASE b = FALSE /\ a = FALSE
      BY <3>1, <3>5
    <3> QED
      BY <3>2, <3>3, <3>4, <3>5
  <2> QED
    BY <1>2, <2>1
<1>4. \A b, c \in BOOLEAN : R(b, FALSE) # R(c, TRUE)
  BY <1>2
<1>5. R(TRUE, FALSE) # R(FALSE, FALSE) /\ R(TRUE, TRUE) # R(FALSE, TRUE)
  BY <1>2
<1> QED
  BY <1>3, <1>4, <1>5 DEF Report, R

WireOK == flight \in [Kinds -> 0..MaxFlight] /\ InFlight <= MaxFlight

LEMMA PostType == ASSUME WireOK, NEW b \in BOOLEAN, Post(b) PROVE WireOK'
<1> DEFINE r1 == Report(TRUE)
           r2 == Report(FALSE)
           r3 == [busy |-> TRUE, admitted |-> TRUE]
           r4 == [busy |-> FALSE, admitted |-> TRUE]
<1>1. Kinds = {r1, r2, r3, r4} /\ r1 # r2 /\ r1 # r3 /\ r1 # r4 /\ r2 # r3 /\ r2 # r4 /\ r3 # r4
  BY KindsAre
<1>2. InFlight = flight[r1] + flight[r2] + flight[r3] + flight[r4] /\ Report(b) \in {r1, r2}
  BY DEF InFlight
<1>3. InFlight' = flight'[r1] + flight'[r2] + flight'[r3] + flight'[r4]
  BY DEF InFlight
<1>4. flight' = IF InFlight < MaxFlight THEN [flight EXCEPT ![Report(b)] = flight[Report(b)] + 1] ELSE flight
  BY DEF Post
<1>5. MaxFlight \in Nat
  BY PresenceBoundsAssumption
<1> HIDE DEF r1, r2, r3, r4
<1>6. CASE InFlight < MaxFlight
  <2>1. \A r \in Kinds : flight[r] \in Nat /\ flight[r] <= MaxFlight
    BY DEF WireOK
  <2>2. PICK r \in {r1, r2} : flight' = [flight EXCEPT ![r] = flight[r] + 1]
    BY <1>2, <1>4, <1>6
  <2>3. \A x \in Kinds : flight'[x] = IF x = r THEN flight[x] + 1 ELSE flight[x]
    BY <1>1, <2>2 DEF WireOK
  <2>4. InFlight' = InFlight + 1
    BY <1>1, <1>2, <1>3, <2>1, <2>3
  <2>5. flight[r] + 1 \in 0..MaxFlight
    BY <1>1, <1>2, <1>5, <1>6, <2>1
  <2>6. InFlight \in Nat
    BY <1>1, <1>2, <2>1
  <2> QED
    BY <1>1, <1>5, <1>6, <2>2, <2>4, <2>5, <2>6 DEF WireOK
<1>7. CASE ~(InFlight < MaxFlight)
  BY <1>3, <1>2, <1>4, <1>7 DEF WireOK
<1> QED
  BY <1>6, <1>7

\* A report that moves on, or is gone, leaves room.
LEMMA FewerType ==
  ASSUME WireOK, NEW r \in Kinds, flight[r] > 0
  PROVE  /\ flight' = Fewer(r) => WireOK'
         /\ \A q \in Kinds : q # r /\ flight' = [Fewer(r) EXCEPT ![q] = @ + 1] => WireOK'
<1> DEFINE r1 == Report(TRUE)
           r2 == Report(FALSE)
           r3 == [busy |-> TRUE, admitted |-> TRUE]
           r4 == [busy |-> FALSE, admitted |-> TRUE]
<1>1. Kinds = {r1, r2, r3, r4} /\ r1 # r2 /\ r1 # r3 /\ r1 # r4 /\ r2 # r3 /\ r2 # r4 /\ r3 # r4
  BY KindsAre
<1>2. InFlight = flight[r1] + flight[r2] + flight[r3] + flight[r4]
  BY DEF InFlight
<1>3. InFlight' = flight'[r1] + flight'[r2] + flight'[r3] + flight'[r4]
  BY DEF InFlight
<1>5. MaxFlight \in Nat
  BY PresenceBoundsAssumption
<1> HIDE DEF r1, r2, r3, r4
<1>6. \A x \in Kinds : flight[x] \in Nat /\ flight[x] <= MaxFlight
  BY DEF WireOK
<1>7. ASSUME flight' = Fewer(r) PROVE WireOK'
  <2>1. \A x \in Kinds : flight'[x] = IF x = r THEN flight[x] - 1 ELSE flight[x]
    BY <1>7 DEF Fewer, WireOK
  <2>2. InFlight' = InFlight - 1
    BY <1>1, <1>2, <1>3, <1>6, <2>1
  <2>3. flight[r] - 1 \in 0..MaxFlight
    BY <1>5, <1>6
  <2>4. flight' \in [Kinds -> 0..MaxFlight]
    BY <1>7, <2>3 DEF Fewer, WireOK
  <2>5. InFlight \in Nat
    BY <1>1, <1>2, <1>6
  <2> QED
    BY <1>5, <2>2, <2>4, <2>5 DEF WireOK
<1>8. ASSUME NEW q \in Kinds, q # r, flight' = [Fewer(r) EXCEPT ![q] = @ + 1] PROVE WireOK'
  <2>1. \A x \in Kinds : flight'[x] = IF x = r THEN flight[x] - 1
                                      ELSE IF x = q THEN flight[x] + 1 ELSE flight[x]
    BY <1>8 DEF Fewer, WireOK
  <2>2. InFlight' = InFlight
    BY <1>1, <1>2, <1>3, <1>6, <1>8, <2>1
  <2>3. flight[q] + 1 <= MaxFlight
    BY <1>1, <1>2, <1>5, <1>6, <1>8 DEF WireOK
  <2>4. \A x \in Kinds : flight'[x] \in 0..MaxFlight
    BY <1>5, <1>6, <2>1, <2>3
  <2>5. flight' \in [Kinds -> 0..MaxFlight]
    BY <1>8, <2>4 DEF Fewer, WireOK
  <2> QED
    BY <2>2, <2>5 DEF WireOK
<1> QED
  BY <1>7, <1>8

LEMMA PresenceTypeInit == Init => PresenceTypeInv
<1> SUFFICES ASSUME Init PROVE PresenceTypeInv
  OBVIOUS
<1> DEFINE r1 == Report(TRUE)
           r2 == Report(FALSE)
           r3 == [busy |-> TRUE, admitted |-> TRUE]
           r4 == [busy |-> FALSE, admitted |-> TRUE]
<1>1. Kinds = {r1, r2, r3, r4} /\ r1 # r2 /\ r2 # r3 /\ r2 # r4
  BY KindsAre
<1>2. InFlight = flight[r1] + flight[r2] + flight[r3] + flight[r4]
  BY DEF InFlight
<1>3. MaxFlight \in Nat /\ MaxLost \in Nat /\ MaxCrashes \in Nat /\ Ttl \in Nat
  BY PresenceBoundsAssumption, TtlAssumption
<1>4. flight = [r \in Kinds |-> IF r = r2 /\ MaxFlight > 0 THEN 1 ELSE 0]
  BY DEF Init
<1> HIDE DEF r1, r2, r3, r4
<1>5. flight \in [Kinds -> 0..MaxFlight] /\ InFlight <= MaxFlight
  BY <1>1, <1>2, <1>3, <1>4
<1>6. beating \in BOOLEAN /\ member \in BOOLEAN
  BY DEF Init
<1>7. left \in 0..Ttl /\ losses \in 0..MaxLost /\ crashes \in 0..MaxCrashes
  BY <1>3 DEF Init
<1>8. SignalTypeOK
  BY SignalTypeInit DEF Init
<1> QED
  BY <1>5, <1>6, <1>7, <1>8 DEF PresenceTypeInv, PresenceTypeOK

LEMMA WireStep == WireOK /\ [Next]_vars => WireOK'
<1> SUFFICES ASSUME WireOK, [Next]_vars PROVE WireOK'
  OBVIOUS
<1>1. CASE UNCHANGED flight
  BY <1>1 DEF WireOK, InFlight
<1>2. ASSUME NEW b \in BOOLEAN, Post(b) PROVE WireOK'
  BY <1>2, PostType
<1>3. Busy' \in BOOLEAN
  BY DEF Busy
<1>4. ASSUME Notify PROVE WireOK'
  BY <1>1, <1>2, <1>3, <1>4 DEF Notify
<1>5. CASE Feed \/ \E h \in Handles : TimeOut(h)
  BY <1>4, <1>5 DEF Feed, TimeOut
<1>6. CASE Heartbeat \/ Abort \/ Launch
  BY <1>1, <1>2, <1>6 DEF Heartbeat, Abort, Launch
<1>7. CASE Teardown \/ Crash \/ DeleteMember \/ Tick \/ UNCHANGED vars
  BY <1>1, <1>7 DEF Teardown, Crash, DeleteMember, Tick, vars, wire
<1>8. ASSUME NEW b \in BOOLEAN, Admit(b) PROVE WireOK'
  <2>1. /\ Report(b) \in Kinds /\ [busy |-> b, admitted |-> TRUE] \in Kinds
        /\ Report(b) # [busy |-> b, admitted |-> TRUE]
    BY KindsAre
  <2> QED
    BY <1>8, <2>1, FewerType DEF Admit
<1>9. ASSUME NEW b \in BOOLEAN, Land(b) PROVE WireOK'
  <2>1. [busy |-> b, admitted |-> TRUE] \in Kinds
    BY KindsAre
  <2> QED
    BY <1>9, <2>1, FewerType DEF Land
<1>10. CASE Lose
  BY <1>10, FewerType DEF Lose
<1> QED
  BY <1>5, <1>6, <1>7, <1>8, <1>9, <1>10 DEF Next

LEMMA PresenceTypeStep == PresenceTypeInv /\ [Next]_vars => PresenceTypeInv'
<1> SUFFICES ASSUME PresenceTypeInv, [Next]_vars PROVE PresenceTypeInv'
  OBVIOUS
<1>1. SignalTypeOK'
  BY SignalTypeStep DEF PresenceTypeInv, PresenceTypeOK
<1>2. WireOK'
  BY WireStep DEF PresenceTypeInv, PresenceTypeOK, WireOK
<1>3. MaxLost \in Nat /\ MaxCrashes \in Nat /\ Ttl \in Nat
  BY PresenceBoundsAssumption, TtlAssumption
<1>4. beating' \in BOOLEAN
  <2>1. Busy' \in BOOLEAN
    BY DEF Busy
  <2>2. beating' \in {beating, TRUE, FALSE, Busy'}
    BY DEF Next, Feed, TimeOut, Notify, Heartbeat, Abort, Teardown, Crash, Launch, Admit, Land,
           Lose, DeleteMember, Tick, vars, wire
  <2> QED
    BY <2>1, <2>2 DEF PresenceTypeInv, PresenceTypeOK
<1> DEFINE Tracked == /\ member \in BOOLEAN /\ left \in 0..Ttl
                      /\ losses \in 0..MaxLost /\ crashes \in 0..MaxCrashes
<1>5. Tracked'
  <2>1. CASE UNCHANGED <<left, member, losses, crashes>>
    BY <2>1 DEF PresenceTypeInv, PresenceTypeOK
  <2>2. CASE Feed \/ (\E h \in Handles : TimeOut(h)) \/ Heartbeat \/ Abort \/ Teardown
             \/ Launch \/ UNCHANGED vars
    BY <2>1, <2>2 DEF Feed, TimeOut, Heartbeat, Abort, Teardown, Launch, vars, wire
  <2>3. CASE Crash
    BY <1>3, <2>3 DEF Crash, PresenceTypeInv, PresenceTypeOK
  <2>4. CASE \E b \in BOOLEAN : Admit(b) \/ Land(b)
    BY <1>3, <2>4 DEF Admit, Land, Reported, PresenceTypeInv, PresenceTypeOK
  <2>5. CASE Lose
    BY <1>3, <2>5 DEF Lose, PresenceTypeInv, PresenceTypeOK
  <2>6. CASE DeleteMember
    <3>1. member' = FALSE
      BY <2>6 DEF DeleteMember
    <3>2. left' = 0 /\ losses' = losses /\ crashes' = crashes
      BY <2>6 DEF DeleteMember
    <3>3. member' \in BOOLEAN
      BY <3>1
    <3>4. left' \in 0..Ttl /\ losses' \in 0..MaxLost /\ crashes' \in 0..MaxCrashes
      BY <1>3, <3>2 DEF PresenceTypeInv, PresenceTypeOK
    <3> QED
      BY <3>3, <3>4
  <2>7. CASE Tick
    BY <1>3, <2>7 DEF Tick, PresenceTypeInv, PresenceTypeOK
  <2> HIDE DEF Tracked
  <2> QED
    BY <2>2, <2>3, <2>4, <2>5, <2>6, <2>7 DEF Next
<1> QED
  BY <1>1, <1>2, <1>4, <1>5 DEF PresenceTypeInv, PresenceTypeOK, WireOK

\* No map of the runner or of the tracker leaves its range, and the reports
\* under way are never more than their bound (busy-reporter.ts, busy-tracker.ts).
THEOREM PresenceTypeCorrect == Spec => []PresenceTypeInv
BY PresenceTypeInit, PresenceTypeStep, PTL DEF Spec

-----------------------------------------------------------------------------
(* The heartbeat.  What makes it inductive: nothing is live in a runner    *)
(* that is down, so the one launched next starts idle, and without a beat. *)

DownIsIdle == phase = "down" => Live = {}

BeatInv == BeatsWhileBusy /\ DownIsIdle /\ beating \in BOOLEAN

\* Work only ends but for a new request or a tool that starts.
LEMMA FinishedLive == ASSUME SignalTypeOK, NEW hs, live' = Finished(hs) PROVE Live' = Live \ hs
<1>1. \A h \in Handles : live'[h] = IF h \in hs THEN Gone ELSE live[h]
  BY FinishedType
<1> QED
  BY <1>1 DEF Live

LEMMA ResetLive == ASSUME Reset PROVE Live' = {}
BY DEF Reset, NoneLive, Live

LEMMA OlderLive == ASSUME SignalTypeOK, live' = Older PROVE Live' = Live
BY OlderType DEF Live

LEMMA WorkOnlyEnds ==
  ASSUME SignalTypeOK, WorkGoesOn \/ (\E h \in Handles : AgeOut(h))
  PROVE  Live' \subseteq Live /\ phase' = phase
<1>1. ASSUME live' = live PROVE Live' = Live
  BY <1>1 DEF Live
<1>2. ASSUME NEW s \in Sessions, NEW stamps, Exchanged(s, stamps) PROVE Live' \subseteq Live
  BY <1>2, FinishedLive DEF Exchanged
<1>3. ASSUME NEW s \in Sessions, Respond(s) PROVE Live' \subseteq Live /\ phase' = phase
  BY <1>2, <1>3 DEF Respond
<1>4. ASSUME NEW s \in Sessions, Poison(s) PROVE Live' \subseteq Live /\ phase' = phase
  BY <1>1, <1>4 DEF Poison
<1>5. ASSUME NEW s \in Sessions, Close(s) PROVE Live' \subseteq Live /\ phase' = phase
  BY <1>1, <1>2, <1>5 DEF Close
<1>6. ASSUME NEW i \in Items, ToolCompleted(i) PROVE Live' \subseteq Live /\ phase' = phase
  BY <1>6, FinishedLive DEF ToolCompleted
<1>7. CASE DrainTools
  BY <1>7, FinishedLive DEF DrainTools
<1>8. ASSUME NEW h \in Handles, AgeOut(h) PROVE Live' \subseteq Live /\ phase' = phase
  BY <1>8, FinishedLive DEF AgeOut
<1> QED
  BY <1>3, <1>4, <1>5, <1>6, <1>7, <1>8 DEF WorkGoesOn

LEMMA BeatInit == Init => BeatInv
<1> SUFFICES ASSUME Init PROVE BeatInv
  OBVIOUS
<1>1. Live = {}
  BY DEF Init, SignalInit, NoneLive, Live
<1> QED
  BY <1>1 DEF Init, SignalInit, BeatInv, BeatsWhileBusy, DownIsIdle, Busy

\* A step that tells the listener, in a runner that stays in its phase.
LEMMA NotifyKeepsBeat ==
  ASSUME BeatInv, Notify, phase' = phase, phase = "down" => Live' = {}
  PROVE  BeatInv'
<1>1. CASE phase = "up" /\ Busy' # Busy
  <2>1. (beating' <=> Busy') /\ phase' = "up"
    BY <1>1 DEF Notify
  <2> QED
    BY <2>1 DEF BeatInv, BeatsWhileBusy, DownIsIdle, Busy
<1>2. CASE ~(phase = "up" /\ Busy' # Busy)
  <2>1. beating' = beating
    BY <1>2 DEF Notify
  <2>2. (phase = "up" /\ Busy) <=> (phase' = "up" /\ Busy')
    BY <1>2
  <2> QED
    BY <2>1, <2>2 DEF BeatInv, BeatsWhileBusy, DownIsIdle
<1> QED
  BY <1>1, <1>2

LEMMA BeatStep == SignalTypeOK /\ BeatInv /\ [Next]_vars => BeatInv'
<1> SUFFICES ASSUME SignalTypeOK, BeatInv, [Next]_vars PROVE BeatInv'
  OBVIOUS
<1> USE DEF BeatInv, BeatsWhileBusy, DownIsIdle
<1>1. CASE Feed
  <2>1. CASE NewWork
    BY <1>1, <2>1, NotifyKeepsBeat DEF Feed, NewWork, Request, ToolStarted
  <2>2. CASE WorkGoesOn
    BY <1>1, <2>2, WorkOnlyEnds, NotifyKeepsBeat DEF Feed
  <2> QED
    BY <1>1, <2>1, <2>2 DEF Feed
<1>2. ASSUME NEW h \in Handles, TimeOut(h) PROVE BeatInv'
  BY <1>2, WorkOnlyEnds, NotifyKeepsBeat DEF TimeOut
<1>3. CASE Abort
  BY <1>3 DEF Abort
<1>4. CASE Teardown
  <2>1. phase = "aborted" /\ phase' # "up" /\ beating' = beating /\ (phase' = "down" => Live' = {})
    BY <1>4, ResetLive DEF Teardown, CloseAll, ForceFinishAll, wire
  <2> QED
    BY <2>1
<1>5. CASE Crash
  BY <1>5, ResetLive DEF Crash
<1>6. CASE Launch
  BY <1>6 DEF Launch, Live, Busy
<1>7. CASE Tick
  BY <1>7, OlderLive DEF Tick, Busy
<1>8. CASE UNCHANGED <<signal, beating>>
  BY <1>8 DEF signal, Live, Busy
<1>9. CASE Heartbeat \/ (\E b \in BOOLEAN : Admit(b) \/ Land(b)) \/ Lose \/ DeleteMember \/ UNCHANGED vars
  BY <1>8, <1>9 DEF Heartbeat, Admit, Land, Lose, DeleteMember, vars, wire
<1> QED
  BY <1>1, <1>2, <1>3, <1>4, <1>5, <1>6, <1>7, <1>9 DEF Next

\* The interval of the reporter runs exactly while it listens and there is
\* work, over any number of runners that stop, die and are launched again
\* (startBusyReporter of busy-reporter.ts).
THEOREM HeartbeatFollowsWork == Spec => []BeatsWhileBusy
<1>1. PresenceTypeInv => SignalTypeOK
  BY DEF PresenceTypeInv, PresenceTypeOK
<1>2. BeatInv => BeatsWhileBusy
  BY DEF BeatInv
<1> QED
  BY <1>1, <1>2, PresenceTypeCorrect, BeatInit, BeatStep, PTL DEF Spec

-----------------------------------------------------------------------------
(* The count is the work.  What makes it inductive: of the requests of one  *)
(* stamp only the oldest is not marked as shared, so the response that      *)
(* takes it leaves no other one uncounted.                                  *)

RepeatsAreShared ==
  \A s \in Sessions : \A i, j \in 1..Len(asked[s]) :
    i < j /\ asked[s][i].stamp = asked[s][j].stamp => asked[s][j].shared

LiveIsNamed == \A h \in Live \ lost : Named(h)

AskedIsCounted ==
  \A s \in Sessions : \A i \in 1..Len(asked[s]) :
    ~asked[s][i].shared => ofRequest[s][asked[s][i].stamp] # Off

ByItem(h) == \E i \in Items : ofItem[i] = h

LEMMA AskedType ==
  ASSUME SignalTypeOK, NEW s \in Sessions
  PROVE  /\ asked[s] \in Seq(Pending)
         /\ \A i \in 1..Len(asked[s]) : asked[s][i] \in Pending /\ asked[s][i].stamp \in Stamps
         /\ StampsOf(s) \subseteq Stamps
<1>1. asked[s] \in Seq(Pending)
  BY DEF SignalTypeOK
<1>2. \A i \in 1..Len(asked[s]) : asked[s][i] \in Pending
  BY <1>1, ElementOfSeq
<1> QED
  BY <1>1, <1>2 DEF Pending, StampsOf

\* Another request at the end of a queue.
LEMMA AppendedAsked ==
  ASSUME SignalTypeOK, NEW s \in Sessions, NEW r \in Pending,
         asked' = [asked EXCEPT ![s] = Append(asked[s], r)]
  PROVE  /\ asked'[s] = Append(asked[s], r) /\ Len(asked[s]) \in Nat
         /\ Len(asked'[s]) = Len(asked[s]) + 1 /\ asked'[s][Len(asked[s]) + 1] = r
         /\ \A i \in 1..Len(asked[s]) : asked'[s][i] = asked[s][i]
         /\ \A t \in Sessions : t # s => asked'[t] = asked[t] /\ StampsOf(t)' = StampsOf(t)
         /\ StampsOf(s)' = StampsOf(s) \cup {r.stamp}
<1>1. asked[s] \in Seq(Pending)
  BY AskedType
<1>2. asked'[s] = Append(asked[s], r) /\ \A t \in Sessions : t # s => asked'[t] = asked[t]
  BY DEF SignalTypeOK
<1>3. /\ Len(Append(asked[s], r)) = Len(asked[s]) + 1
      /\ Append(asked[s], r)[Len(asked[s]) + 1] = r
      /\ \A i \in 1..Len(asked[s]) : Append(asked[s], r)[i] = asked[s][i]
  BY <1>1, AppendProperties
<1>4. Len(asked[s]) \in Nat
  BY <1>1, LenProperties
<1>5. StampsOf(s)' = StampsOf(s) \cup {r.stamp}
  BY <1>2, <1>3, <1>4 DEF StampsOf
<1>6. \A t \in Sessions : t # s => StampsOf(t)' = StampsOf(t)
  BY <1>2 DEF StampsOf
<1> QED
  BY <1>2, <1>3, <1>4, <1>5, <1>6

\* The oldest request leaves its queue.
LEMMA TailOfAsked ==
  ASSUME SignalTypeOK, NEW s \in Sessions, asked[s] # <<>>,
         asked' = [asked EXCEPT ![s] = Tail(asked[s])]
  PROVE  /\ Len(asked[s]) \in Nat \ {0} /\ Head(asked[s]) = asked[s][1]
         /\ Len(asked'[s]) = Len(asked[s]) - 1
         /\ \A i \in 1..Len(asked'[s]) : asked'[s][i] = asked[s][i + 1]
         /\ \A t \in Sessions : t # s => asked'[t] = asked[t] /\ StampsOf(t)' = StampsOf(t)
         /\ StampsOf(s) \ {Head(asked[s]).stamp} \subseteq StampsOf(s)'
<1>1. asked[s] \in Seq(Pending)
  BY AskedType
<1>2. asked'[s] = Tail(asked[s]) /\ \A t \in Sessions : t # s => asked'[t] = asked[t]
  BY DEF SignalTypeOK
<1>3. /\ Len(asked[s]) \in Nat \ {0} /\ Head(asked[s]) = asked[s][1]
      /\ Len(Tail(asked[s])) = Len(asked[s]) - 1
      /\ \A i \in 1..Len(Tail(asked[s])) : Tail(asked[s])[i] = asked[s][i + 1]
  <2>1. Len(asked[s]) \in Nat /\ Len(asked[s]) # 0
    BY <1>1, EmptySeq, LenProperties
  <2>2. Head(asked[s]) = asked[s][1]
    OBVIOUS
  <2> QED
    BY <1>1, <2>1, <2>2, HeadTailProperties
<1>4. ASSUME NEW i \in 1..Len(asked[s]), asked[s][i].stamp # Head(asked[s]).stamp
      PROVE  asked[s][i].stamp \in StampsOf(s)'
  <2>1. i # 1
    BY <1>3, <1>4
  <2>2. i - 1 \in 1..Len(asked'[s]) /\ (i - 1) + 1 = i
    BY <1>2, <1>3, <2>1
  <2>3. asked'[s][i - 1] = asked[s][i]
    BY <1>2, <1>3, <2>2
  <2> QED
    BY <2>2, <2>3 DEF StampsOf
<1>5. \A t \in Sessions : t # s => StampsOf(t)' = StampsOf(t)
  BY <1>2 DEF StampsOf
<1>6. StampsOf(s) \ {Head(asked[s]).stamp} \subseteq StampsOf(s)'
  BY <1>4 DEF StampsOf
<1> QED
  BY <1>2, <1>3, <1>5, <1>6

LEMMA RequestKeepsSignal ==
  ASSUME SignalTypeOK, RepeatsAreShared, LiveIsNamed, AskedIsCounted,
         NEW s \in Sessions, Request(s)
  PROVE  RepeatsAreShared' /\ LiveIsNamed' /\ AskedIsCounted'
<1>1. PICK h \in Handles, k \in Stamps :
        /\ Start(s, k, h)
        /\ asked' = [asked EXCEPT ![s] =
             Append(asked[s], [stamp |-> k, shared |-> k \in StampsOf(s)])]
  BY DEF Request
<1> DEFINE r == [stamp |-> k, shared |-> k \in StampsOf(s)]
<1>2. r \in Pending /\ r.stamp = k /\ (k \in StampsOf(s) => r.shared)
  <2>1. r.stamp = k /\ (r.shared <=> k \in StampsOf(s))
    OBVIOUS
  <2>2. r \in Pending
    <3>1. (k \in StampsOf(s)) \in BOOLEAN
      OBVIOUS
    <3> QED
      BY <3>1 DEF Pending
  <2> QED
    BY <2>1, <2>2
<1>3. asked' = [asked EXCEPT ![s] = Append(asked[s], r)]
  BY <1>1
<1> HIDE DEF r
<1>4. /\ Len(asked[s]) \in Nat
      /\ Len(asked'[s]) = Len(asked[s]) + 1 /\ asked'[s][Len(asked[s]) + 1] = r
      /\ \A i \in 1..Len(asked[s]) : asked'[s][i] = asked[s][i]
      /\ \A t \in Sessions : t # s => asked'[t] = asked[t] /\ StampsOf(t)' = StampsOf(t)
      /\ StampsOf(s)' = StampsOf(s) \cup {k}
  BY <1>2, <1>3, AppendedAsked
<1>5. /\ \A t \in Sessions, l \in Stamps :
           ofRequest'[t][l] = IF t = s /\ l = k THEN h ELSE ofRequest[t][l]
      /\ ofItem' = ofItem
  BY <1>1 DEF Start, SignalTypeOK, Request
<1>6. RepeatsAreShared'
  <2> SUFFICES ASSUME NEW t \in Sessions, NEW i \in 1..Len(asked'[t]), NEW j \in 1..Len(asked'[t]),
                      i < j, asked'[t][i].stamp = asked'[t][j].stamp
               PROVE  asked'[t][j].shared
    BY DEF RepeatsAreShared
  <2>0. i < j /\ asked'[t][i].stamp = asked'[t][j].stamp
    OBVIOUS
  <2>1. CASE t # s \/ j # Len(asked[s]) + 1
    <3>1. i \in 1..Len(asked[t]) /\ j \in 1..Len(asked[t])
      BY <1>4, <2>1
    <3>2. asked'[t][i] = asked[t][i] /\ asked'[t][j] = asked[t][j]
      BY <1>4, <2>1, <3>1
    <3>3. \A a, b \in 1..Len(asked[t]) :
            a < b /\ asked[t][a].stamp = asked[t][b].stamp => asked[t][b].shared
      BY DEF RepeatsAreShared
    <3> QED
      BY ONLY <2>0, <3>1, <3>2, <3>3
  <2>2. CASE t = s /\ j = Len(asked[s]) + 1
    <3>1. i \in 1..Len(asked[s]) /\ asked'[s][i] = asked[s][i] /\ asked'[s][j] = r
      BY <1>4, <2>2
    <3>2. k \in StampsOf(s)
      BY <1>2, <2>2, <3>1 DEF StampsOf
    <3> QED
      BY <1>2, <2>2, <3>1, <3>2
  <2> QED
    BY <2>1, <2>2
<1>7. AskedIsCounted'
  <2> SUFFICES ASSUME NEW t \in Sessions, NEW i \in 1..Len(asked'[t]), ~asked'[t][i].shared
               PROVE  ofRequest'[t][asked'[t][i].stamp] # Off
    BY DEF AskedIsCounted
  <2>1. h # Off
    BY HandlesAssumption
  <2>2. CASE t = s /\ i = Len(asked[s]) + 1
    BY <1>2, <1>4, <1>5, <2>1, <2>2
  <2>3. CASE t # s \/ i # Len(asked[s]) + 1
    <3>1. i \in 1..Len(asked[t]) /\ asked'[t][i] = asked[t][i]
      BY <1>4, <2>3
    <3>2. asked[t][i].stamp \in Stamps
      BY <3>1, AskedType
    <3> QED
      BY <1>5, <2>1, <3>1, <3>2 DEF AskedIsCounted
  <2> QED
    BY <2>2, <2>3
<1>8. LiveIsNamed'
  <2> SUFFICES ASSUME NEW x \in Live', x \notin lost' PROVE Named(x)'
    BY DEF LiveIsNamed
  <2>1. CASE x = h
    BY <1>4, <1>5, <2>1 DEF Named
  <2>2. CASE x # h
    <3>1. x \in Live \ lost /\ x # ofRequest[s][k]
      BY <1>1, <2>2 DEF Start, Live, SignalTypeOK
    <3>2. Named(x)
      BY <3>1 DEF LiveIsNamed
    <3>3. CASE ByItem(x)
      BY <1>5, <3>3 DEF ByItem, Named
    <3>4. ASSUME NEW t \in Sessions, NEW l \in StampsOf(t), ofRequest[t][l] = x PROVE Named(x)'
      <4>1. l \in Stamps /\ l \in StampsOf(t)'
        BY <1>4, AskedType
      <4>2. ofRequest'[t][l] = x
        BY <1>5, <3>1, <3>4, <4>1
      <4> QED
        BY <4>1, <4>2 DEF Named
    <3> QED
      BY <3>2, <3>3, <3>4 DEF Named, ByItem
  <2> QED
    BY <2>1, <2>2
<1> QED
  BY <1>6, <1>7, <1>8

\* The requests that are answered or flushed take their handles with them.
LEMMA ExchangeKeepsNames ==
  ASSUME SignalTypeOK, LiveIsNamed, NEW s \in Sessions, NEW stamps, Exchanged(s, stamps),
         ofItem' = ofItem, StampsOf(s) \ stamps \subseteq StampsOf(s)',
         \A t \in Sessions : t # s => StampsOf(t)' = StampsOf(t)
  PROVE  /\ LiveIsNamed'
         /\ \A t \in Sessions, k \in Stamps :
              ofRequest'[t][k] = IF t = s /\ k \in stamps THEN Off ELSE ofRequest[t][k]
<1>1. \A t \in Sessions, k \in Stamps :
        ofRequest'[t][k] = IF t = s /\ k \in stamps THEN Off ELSE ofRequest[t][k]
  BY DEF Exchanged, SignalTypeOK
<1> DEFINE hs == {ofRequest[s][k] : k \in stamps}
<1>2. Live' = Live \ hs /\ lost' = lost \ hs
  BY FinishedLive DEF Exchanged
<1>3. LiveIsNamed'
  <2> SUFFICES ASSUME NEW x \in Live', x \notin lost' PROVE Named(x)'
    BY DEF LiveIsNamed
  <2>1. x \in Live \ lost /\ x \notin hs
    BY <1>2
  <2>2. Named(x)
    BY <2>1 DEF LiveIsNamed
  <2>3. CASE ByItem(x)
    BY <2>3 DEF ByItem, Named
  <2>4. ASSUME NEW t \in Sessions, NEW k \in StampsOf(t), ofRequest[t][k] = x PROVE Named(x)'
    <3>1. k \in Stamps
      BY AskedType
    <3>2. ~(t = s /\ k \in stamps)
      BY <2>1, <2>4
    <3>3. k \in StampsOf(t)'
      BY <3>2
    <3>4. ofRequest'[t][k] = x
      BY <1>1, <2>4, <3>1, <3>2
    <3> QED
      BY <3>3, <3>4 DEF Named
  <2> QED
    BY <2>2, <2>3, <2>4 DEF Named, ByItem
<1> QED
  BY <1>1, <1>3

LEMMA RespondKeepsSignal ==
  ASSUME SignalTypeOK, RepeatsAreShared, LiveIsNamed, AskedIsCounted,
         NEW s \in Sessions, Respond(s)
  PROVE  RepeatsAreShared' /\ LiveIsNamed' /\ AskedIsCounted'
<1> DEFINE k0 == Head(asked[s]).stamp
<1>1. /\ Len(asked[s]) \in Nat \ {0} /\ Head(asked[s]) = asked[s][1]
      /\ Len(asked'[s]) = Len(asked[s]) - 1
      /\ \A i \in 1..Len(asked'[s]) : asked'[s][i] = asked[s][i + 1]
      /\ \A t \in Sessions : t # s => asked'[t] = asked[t] /\ StampsOf(t)' = StampsOf(t)
      /\ StampsOf(s) \ {k0} \subseteq StampsOf(s)'
  BY TailOfAsked DEF Respond
<1>2. LiveIsNamed' /\ \A t \in Sessions, k \in Stamps :
        ofRequest'[t][k] = IF t = s /\ k = k0 THEN Off ELSE ofRequest[t][k]
  <2>1. Exchanged(s, {k0}) /\ ofItem' = ofItem
    BY DEF Respond
  <2> HIDE DEF k0
  <2> QED
    BY <1>1, <2>1, ExchangeKeepsNames
<1>3. RepeatsAreShared'
  <2> SUFFICES ASSUME NEW t \in Sessions, NEW i \in 1..Len(asked'[t]), NEW j \in 1..Len(asked'[t]),
                      i < j, asked'[t][i].stamp = asked'[t][j].stamp
               PROVE  asked'[t][j].shared
    BY DEF RepeatsAreShared
  <2>0. i < j /\ asked'[t][i].stamp = asked'[t][j].stamp
    OBVIOUS
  <2>1. CASE t # s
    BY <1>1, <2>1 DEF RepeatsAreShared
  <2>2. CASE t = s
    <3>1. /\ i + 1 \in 1..Len(asked[s]) /\ j + 1 \in 1..Len(asked[s]) /\ i + 1 < j + 1
          /\ asked'[s][i] = asked[s][i + 1] /\ asked'[s][j] = asked[s][j + 1]
      BY <1>1, <2>2
    <3> QED
      BY <2>2, <3>1 DEF RepeatsAreShared
  <2> QED
    BY <2>1, <2>2
<1>4. AskedIsCounted'
  <2> SUFFICES ASSUME NEW t \in Sessions, NEW i \in 1..Len(asked'[t]), ~asked'[t][i].shared
               PROVE  ofRequest'[t][asked'[t][i].stamp] # Off
    BY DEF AskedIsCounted
  <2>1. CASE t # s
    <3>1. i \in 1..Len(asked[t]) /\ asked'[t][i] = asked[t][i]
      BY <1>1, <2>1
    <3> QED
      BY <1>2, <2>1, <3>1, AskedType DEF AskedIsCounted
  <2>2. CASE t = s
    <3>1. i + 1 \in 1..Len(asked[s]) /\ 1 \in 1..Len(asked[s]) /\ 1 < i + 1 /\ asked'[s][i] = asked[s][i + 1]
      BY <1>1, <2>2
    <3>2. asked[s][i + 1].stamp \in Stamps
      BY <3>1, AskedType
    <3>3. asked[s][i + 1].stamp # k0
      BY <1>1, <2>2, <3>1 DEF RepeatsAreShared
    <3> QED
      BY <1>2, <2>2, <3>1, <3>2, <3>3 DEF AskedIsCounted
  <2> QED
    BY <2>1, <2>2
<1> QED
  BY <1>2, <1>3, <1>4

LEMMA CloseKeepsSignal ==
  ASSUME SignalTypeOK, RepeatsAreShared, LiveIsNamed, AskedIsCounted,
         NEW s \in Sessions, Close(s)
  PROVE  RepeatsAreShared' /\ LiveIsNamed' /\ AskedIsCounted'
<1>1. /\ asked'[s] = <<>> /\ Len(asked'[s]) = 0
      /\ \A t \in Sessions : t # s => asked'[t] = asked[t] /\ StampsOf(t)' = StampsOf(t)
      /\ ofItem' = ofItem
  BY DEF Close, SignalTypeOK, StampsOf
<1>2. RepeatsAreShared'
  BY <1>1 DEF RepeatsAreShared
<1>3. ASSUME \A t \in Sessions, k \in Stamps : t # s => ofRequest'[t][k] = ofRequest[t][k]
      PROVE  AskedIsCounted'
  BY <1>1, <1>3, AskedType DEF AskedIsCounted
<1>4. CASE ~Unflushed(s)
  <2>1. Exchanged(s, StampsOf(s))
    BY <1>4 DEF Close
  <2> DEFINE taken == StampsOf(s)
  <2>2. Exchanged(s, taken) /\ StampsOf(s) \ taken \subseteq StampsOf(s)'
    BY <2>1
  <2> HIDE DEF taken
  <2>3. LiveIsNamed' /\ \A t \in Sessions, k \in Stamps :
          ofRequest'[t][k] = IF t = s /\ k \in taken THEN Off ELSE ofRequest[t][k]
    BY <1>1, <2>2, ExchangeKeepsNames
  <2> QED
    BY <1>2, <1>3, <2>3
<1>5. CASE Unflushed(s)
  <2>1. /\ lost' = lost \cup (Live \cap {ofRequest[s][k] : k \in Stamps})
        /\ live' = live
        /\ \A t \in Sessions : t # s => ofRequest'[t] = ofRequest[t]
    BY <1>5 DEF Close, Unflushed, SignalTypeOK
  <2>2. LiveIsNamed'
    <3> SUFFICES ASSUME NEW x \in Live', x \notin lost' PROVE Named(x)'
      BY DEF LiveIsNamed
    <3>1. x \in Live \ lost /\ \A k \in Stamps : ofRequest[s][k] # x
      BY <2>1 DEF Live
    <3>2. Named(x)
      BY <3>1 DEF LiveIsNamed
    <3>3. CASE ByItem(x)
      BY <1>1, <3>3 DEF ByItem, Named
    <3>4. ASSUME NEW t \in Sessions, NEW k \in StampsOf(t), ofRequest[t][k] = x PROVE Named(x)'
      <4>1. t # s
        BY <3>1, <3>4, AskedType
      <4>2. k \in StampsOf(t)' /\ ofRequest'[t][k] = x
        BY <1>1, <2>1, <3>4, <4>1
      <4> QED
        BY <4>2 DEF Named
    <3> QED
      BY <3>2, <3>3, <3>4 DEF Named, ByItem
  <2> QED
    BY <1>2, <1>3, <2>1, <2>2
<1> QED
  BY <1>4, <1>5

\* Steps that leave the requests alone.
LEMMA SameRequests ==
  ASSUME UNCHANGED <<asked, ofRequest>>
  PROVE  /\ RepeatsAreShared => RepeatsAreShared'
         /\ AskedIsCounted => AskedIsCounted'
         /\ \A s : StampsOf(s)' = StampsOf(s)
BY DEF RepeatsAreShared, AskedIsCounted, StampsOf

LEMMA ToolsKeepSignal ==
  ASSUME SignalTypeOK, RepeatsAreShared, LiveIsNamed, AskedIsCounted,
         (\E i \in Items : ToolStarted(i) \/ ToolCompleted(i)) \/ DrainTools
  PROVE  RepeatsAreShared' /\ LiveIsNamed' /\ AskedIsCounted'
<1>1. UNCHANGED <<asked, ofRequest, lost>>
  BY DEF ToolStarted, ToolCompleted, DrainTools
<1>2. RepeatsAreShared' /\ AskedIsCounted' /\ \A s : StampsOf(s)' = StampsOf(s)
  BY <1>1, SameRequests
<1>3. ASSUME NEW x \in Live \ lost,
             \A i \in Items : ofItem[i] = x => \E j \in Items : ofItem'[j] = x
      PROVE  Named(x)'
  <2>1. Named(x)
    BY <1>3 DEF LiveIsNamed
  <2> QED
    BY <1>1, <1>2, <1>3, <2>1 DEF Named
<1>4. ASSUME NEW i \in Items, ToolStarted(i) PROVE LiveIsNamed'
  <2>1. PICK h \in Handles :
          live' = [live EXCEPT ![h] = ToolAge] /\ ofItem' = [ofItem EXCEPT ![i] = h]
    BY <1>4 DEF ToolStarted
  <2>2. ofItem[i] = Off /\ Off \notin Handles
    BY <1>4, HandlesAssumption DEF ToolStarted, New
  <2>3. \A j \in Items : ofItem'[j] = IF j = i THEN h ELSE ofItem[j]
    BY <2>1 DEF SignalTypeOK
  <2> SUFFICES ASSUME NEW x \in Live', x \notin lost' PROVE Named(x)'
    BY DEF LiveIsNamed
  <2>4. CASE x = h
    BY <2>3, <2>4 DEF Named
  <2>5. CASE x # h
    <3>1. x \in Live \ lost /\ x \in Handles
      BY <1>1, <2>1, <2>5 DEF Live, SignalTypeOK
    <3> QED
      BY <1>3, <2>2, <2>3, <3>1
  <2> QED
    BY <2>4, <2>5
<1>5. ASSUME NEW i \in Items, ToolCompleted(i) PROVE LiveIsNamed'
  <2> SUFFICES ASSUME NEW x \in Live', x \notin lost' PROVE Named(x)'
    BY DEF LiveIsNamed
  <2>1. x \in Live \ lost /\ x # ofItem[i]
    BY <1>1, <1>5, FinishedLive DEF ToolCompleted
  <2>2. \A j \in Items : j # i => ofItem'[j] = ofItem[j]
    BY <1>5 DEF ToolCompleted, SignalTypeOK
  <2> QED
    BY <1>3, <2>1, <2>2
<1>6. ASSUME DrainTools PROVE LiveIsNamed'
  <2> SUFFICES ASSUME NEW x \in Live', x \notin lost' PROVE Named(x)'
    BY DEF LiveIsNamed
  <2>1. x \in Live \ lost /\ \A j \in Items : ofItem[j] # x
    BY <1>1, <1>6, FinishedLive DEF DrainTools
  <2>2. \A i \in Items : ofItem[i] = x => \E j \in Items : ofItem'[j] = x
    BY <2>1
  <2>3. x \in Live \ lost
    BY <2>1
  <2> QED
    BY <1>3, <2>2, <2>3
<1> QED
  BY <1>2, <1>4, <1>5, <1>6

LEMMA AgeOutKeepsSignal ==
  ASSUME SignalTypeOK, RepeatsAreShared, LiveIsNamed, AskedIsCounted,
         NEW h \in Handles, AgeOut(h)
  PROVE  RepeatsAreShared' /\ LiveIsNamed' /\ AskedIsCounted'
<1>1. asked' = asked /\ Live' = Live \ {h} /\ lost' = lost \ {h}
  BY FinishedLive DEF AgeOut
<1>2. \A s \in Sessions, k \in Stamps : ofRequest'[s][k] = Ended(ofRequest[s][k], h)
  BY DEF AgeOut
<1>3. \A i \in Items : ofItem'[i] = Ended(ofItem[i], h)
  BY DEF AgeOut
<1>4. RepeatsAreShared' /\ \A s : StampsOf(s)' = StampsOf(s)
  BY <1>1 DEF RepeatsAreShared, StampsOf
<1>5. AskedIsCounted'
  <2>1. \A ref : ref # Off => Ended(ref, h) # Off
    BY DEF Ended, Off, Over
  <2> SUFFICES ASSUME NEW t \in Sessions, NEW i \in 1..Len(asked'[t]), ~asked'[t][i].shared
               PROVE  ofRequest'[t][asked'[t][i].stamp] # Off
    BY DEF AskedIsCounted
  <2>2. i \in 1..Len(asked[t]) /\ asked'[t][i] = asked[t][i] /\ asked[t][i].stamp \in Stamps
    BY <1>1, AskedType
  <2> QED
    BY <1>2, <2>1, <2>2 DEF AskedIsCounted
<1>6. LiveIsNamed'
  <2> SUFFICES ASSUME NEW x \in Live', x \notin lost' PROVE Named(x)'
    BY DEF LiveIsNamed
  <2>1. x \in Live \ lost /\ Ended(x, h) = x
    BY <1>1 DEF Ended
  <2>2. Named(x)
    BY <2>1 DEF LiveIsNamed
  <2>3. ASSUME NEW t \in Sessions, NEW k \in StampsOf(t), ofRequest[t][k] = x PROVE Named(x)'
    <3>1. k \in Stamps /\ k \in StampsOf(t)'
      BY <1>4, AskedType
    <3> QED
      BY <1>2, <2>1, <2>3, <3>1 DEF Named
  <2>4. CASE ByItem(x)
    BY <1>3, <2>1, <2>4 DEF ByItem, Named
  <2> QED
    BY <2>2, <2>3, <2>4 DEF Named, ByItem
<1> QED
  BY <1>4, <1>5, <1>6

LEMMA CloseAllKeepsSignal ==
  ASSUME SignalTypeOK, LiveIsNamed, CloseAll
  PROVE  RepeatsAreShared' /\ LiveIsNamed' /\ AskedIsCounted'
<1>1. \A s \in Sessions : asked'[s] = <<>> /\ Len(asked'[s]) = 0
  BY DEF CloseAll, NoRequests
<1>2. RepeatsAreShared' /\ AskedIsCounted'
  BY <1>1 DEF RepeatsAreShared, AskedIsCounted
<1> DEFINE flushed == {s \in Sessions : ~Unflushed(s)}
           hs == UNION {{ofRequest[s][k] : k \in StampsOf(s)} : s \in flushed}
<1>3. /\ live' = Finished(hs) /\ ofItem' = ofItem
      /\ lost' = (lost \ hs) \cup (Live \cap {ofRequest[s][k] : s \in Sessions \ flushed, k \in Stamps})
  BY DEF CloseAll
<1>4. Live' = Live \ hs
  BY <1>3, FinishedLive
<1>5. LiveIsNamed'
  <2> SUFFICES ASSUME NEW x \in Live', x \notin lost' PROVE Named(x)'
    BY DEF LiveIsNamed
  <2>1. x \in Live \ lost /\ x \notin hs
    BY <1>3, <1>4
  <2>2. Named(x)
    BY <2>1 DEF LiveIsNamed
  <2>3. ASSUME NEW t \in Sessions, NEW k \in StampsOf(t), ofRequest[t][k] = x PROVE FALSE
    <3>1. k \in Stamps
      BY AskedType
    <3>2. CASE t \in flushed
      <4>1. ofRequest[t][k] \in {ofRequest[t][l] : l \in StampsOf(t)}
        OBVIOUS
      <4>2. ofRequest[t][k] \in hs
        BY <3>2, <4>1
      <4> QED
        BY <2>1, <2>3, <4>2
    <3>3. CASE t \notin flushed
      <4>1. ofRequest[t][k] \in {ofRequest[u][l] : u \in Sessions \ flushed, l \in Stamps}
        BY <3>1, <3>3
      <4> HIDE DEF flushed, hs
      <4> QED
        BY <1>3, <2>1, <2>3, <4>1
    <3> QED
      BY <3>2, <3>3
  <2> QED
    BY <1>3, <2>2, <2>3 DEF Named
<1> QED
  BY <1>2, <1>5

LEMMA ResetKeepsSignal ==
  ASSUME Reset
  PROVE  RepeatsAreShared' /\ LiveIsNamed' /\ AskedIsCounted'
<1>1. \A s \in Sessions : asked'[s] = <<>> /\ Len(asked'[s]) = 0
  BY DEF Reset, NoRequests
<1> QED
  BY <1>1, ResetLive DEF RepeatsAreShared, AskedIsCounted, LiveIsNamed

SignalInv == RepeatsAreShared /\ LiveIsNamed /\ AskedIsCounted

LEMMA SignalInvInit == Init => SignalInv
<1> SUFFICES ASSUME Init PROVE SignalInv
  OBVIOUS
<1>1. Live = {} /\ \A s \in Sessions : asked[s] = <<>> /\ Len(asked[s]) = 0
  BY DEF Init, SignalInit, NoneLive, NoRequests, Live
<1> QED
  BY <1>1 DEF SignalInv, RepeatsAreShared, LiveIsNamed, AskedIsCounted

LEMMA SignalInvStep == SignalTypeOK /\ SignalInv /\ [Next]_vars => SignalInv'
<1> SUFFICES ASSUME SignalTypeOK, RepeatsAreShared, LiveIsNamed, AskedIsCounted, [Next]_vars
             PROVE  SignalInv'
  BY DEF SignalInv
<1>1. CASE Feed
  <2>1. ASSUME NEW s \in Sessions, Poison(s) PROVE SignalInv'
    BY <2>1, SameRequests DEF Poison, SignalInv, LiveIsNamed, Live, Named
  <2>2. ASSUME NEW s \in Sessions, Request(s) \/ Respond(s) \/ Close(s) PROVE SignalInv'
    BY <2>2, RequestKeepsSignal, RespondKeepsSignal, CloseKeepsSignal DEF SignalInv
  <2>3. CASE (\E i \in Items : ToolStarted(i) \/ ToolCompleted(i)) \/ DrainTools
    BY <2>3, ToolsKeepSignal DEF SignalInv
  <2> QED
    BY <1>1, <2>1, <2>2, <2>3 DEF Feed, NewWork, WorkGoesOn
<1>2. ASSUME NEW h \in Handles, TimeOut(h) PROVE SignalInv'
  BY <1>2, AgeOutKeepsSignal DEF TimeOut, SignalInv
<1>3. CASE Teardown
  BY <1>3, CloseAllKeepsSignal, ResetKeepsSignal DEF Teardown, ForceFinishAll, SignalInv
<1>4. CASE Crash
  BY <1>4, ResetKeepsSignal DEF Crash, SignalInv
<1>5. CASE Tick
  BY <1>5, SameRequests, OlderLive DEF Tick, SignalInv, LiveIsNamed, Named
<1>6. ASSUME UNCHANGED <<asked, ofRequest, ofItem, live, lost>> PROVE SignalInv'
  BY <1>6, SameRequests DEF SignalInv, LiveIsNamed, Live, Named
<1>7. CASE Abort \/ Launch \/ UNCHANGED vars \/ Heartbeat
           \/ (\E b \in BOOLEAN : Admit(b) \/ Land(b)) \/ Lose \/ DeleteMember
  BY <1>6, <1>7 DEF Abort, Launch, vars, signal, Heartbeat, Admit, Land, Lose, DeleteMember
<1> QED
  BY <1>1, <1>2, <1>3, <1>4, <1>5, <1>7 DEF Next

\* What the runner counts is the work there is: whatever is live belongs to a
\* request that waits or a tool that runs, but for what a poisoned session or a
\* shared stamp left to its timer, and what waits is counted until its timer
\* fires (busy.ts, host.ts, http1-reassembler.ts).
THEOREM CountIsTheWork == Spec => []SignalMatchesWork
<1>1. PresenceTypeInv => SignalTypeOK
  BY DEF PresenceTypeInv, PresenceTypeOK
<1>2. SignalInv => SignalMatchesWork
  BY DEF SignalInv, LiveIsNamed, AskedIsCounted, SignalMatchesWork
<1> QED
  BY <1>1, <1>2, PresenceTypeCorrect, SignalInvInit, SignalInvStep, PTL DEF Spec

-----------------------------------------------------------------------------
(* ObjectivesTracker.  The invariant behind a right copy: while no event is *)
(* unread, no timer runs and nothing was lost since the last fetch began,   *)
(* no listing has changed since then, so every answer taken is still what   *)
(* the broker would answer.                                                 *)

Settled == stream = 0 /\ ~timer /\ stale = {}

CopyInv ==
  /\ stream \in Nat
  /\ ~connected => stream = 0
  /\ DOMAIN answers \subseteq OpenStatuses
  /\ Settled =>
       IF inflight THEN \A s \in DOMAIN answers : answers[s] = Listed(s) ELSE open = Visible

(* The runner starts with the briefing, or with a reason to differ.         *)
LEMMA CopyInit == TrackerInit => CopyInv
<1> SUFFICES ASSUME TrackerInit PROVE CopyInv
  OBVIOUS
<1>1. stale = {} => open = Visible
  BY DEF TrackerInit
<1>2. stream = 0 /\ inflight = FALSE /\ DOMAIN answers = {}
  BY DEF TrackerInit, NoAnswers
<1> QED
  BY <1>1, <1>2 DEF CopyInv, Settled

(* The two lists make the whole listing.                                    *)
LEMMA ListsMakeTheListing == Listed("active") \cup Listed("blocked") = Visible
BY DEF Visible, OpenStatuses

(* A step that leaves status, tie and permissions alone leaves every listing. *)
LEMMA SameListing ==
  ASSUME UNCHANGED <<status, tie, creates>>
  PROVE  (\A s : Listed(s)' = Listed(s)) /\ Visible' = Visible
BY DEF Listed, Visible, Scope

(* A change the runner does not hear of leaves the listings or a cause.     *)
LEMMA UnheardKeepsCopy ==
  ASSUME CopyInv, NEW cause, Unheard(cause),
         UNCHANGED <<connected, timer, inflight, answers, open>>
  PROVE  CopyInv'
<1>1. CASE \A s \in OpenStatuses : Listed(s)' = Listed(s)
  <2>1. Visible' = Visible
    BY <1>1 DEF Visible, OpenStatuses
  <2>2. stale' = stale /\ stream' = stream
    BY <1>1 DEF Unheard
  <2>3. Settled' <=> Settled
    BY <2>2 DEF Settled
  <2>4. \A s \in DOMAIN answers : Listed(s)' = Listed(s)
    BY <1>1 DEF CopyInv
  <2> QED
    BY <2>1, <2>2, <2>3, <2>4 DEF CopyInv
<1>2. CASE ~ \A s \in OpenStatuses : Listed(s)' = Listed(s)
  <2>1. stale' # {} /\ stream' = stream
    BY <1>2 DEF Unheard
  <2> QED
    BY <2>1 DEF CopyInv, Settled
<1> QED
  BY <1>1, <1>2

(* Every step of the broker, the forwarder and the tracker keeps the        *)
(* invariant: a change is unread or lost until a later fetch covers it.     *)
LEMMA CopyStep == CopyInv /\ [TrackerNext]_trackerVars => CopyInv'
<1> SUFFICES ASSUME CopyInv, [TrackerNext]_trackerVars PROVE CopyInv'
  OBVIOUS
<1> USE DEF CopyInv
<1>1. ASSUME NEW o \in Ids, NEW s \in Statuses, NEW t \in Ties, Change(o, s, t)
      PROVE  CopyInv'
  <2>1. UNCHANGED <<connected, timer, inflight, answers, open>>
    BY <1>1 DEF Change
  <2>2. CASE connected /\ stream' = stream + 1 /\ UNCHANGED stale
    BY <2>1, <2>2 DEF Settled
  <2>3. CASE Unheard(IF connected THEN "unannounced" ELSE "lost")
    BY <2>1, <2>3, UnheardKeepsCopy
  <2> QED
    BY <1>1, <2>2, <2>3 DEF Change
<1>10. CASE Regrant
  BY <1>10, UnheardKeepsCopy DEF Regrant
<1>2. ASSUME NEW s \in OpenStatuses, Answer(s)
      PROVE  CopyInv'
  <2>1. Settled' <=> Settled
    BY <1>2 DEF Answer, Settled
  <2>2. inflight /\ inflight'
    BY <1>2 DEF Answer
  <2>3. \A t : Listed(t)' = Listed(t)
    BY <1>2, SameListing DEF Answer, brokerVars
  <2>4. DOMAIN answers' = DOMAIN answers \cup {s}
    BY <1>2 DEF Answer
  <2>5. \A t \in DOMAIN answers' : answers'[t] = IF t = s THEN Listed(s) ELSE answers[t]
    BY <1>2 DEF Answer
  <2>6. Settled => \A t \in DOMAIN answers' : answers'[t] = Listed(t)
    BY <2>2, <2>4, <2>5
  <2> QED
    BY <1>2, <2>1, <2>2, <2>3, <2>4, <2>6 DEF Answer
<1>3. CASE Subscribe
  BY <1>3, SameListing DEF Subscribe, Settled, brokerVars
<1>4. CASE Disconnect
  BY <1>4, SameListing DEF Disconnect, Settled, brokerVars
<1>5. CASE Receive
  BY <1>5 DEF Receive, Settled
<1>6. CASE Fire
  BY <1>6 DEF Fire, Settled, NoAnswers, OpenStatuses
<1>7. CASE Finish
  <2>1. Settled' <=> Settled
    BY <1>7 DEF Finish, Settled
  <2>2. Settled => answers["active"] = Listed("active") /\ answers["blocked"] = Listed("blocked")
    BY <1>7 DEF Finish, Unanswered, OpenStatuses
  <2>3. Settled => open' = Visible
    BY <1>7, <2>2, ListsMakeTheListing DEF Finish
  <2> QED
    BY <1>7, <2>1, <2>3, SameListing DEF Finish, NoAnswers, OpenStatuses, brokerVars
<1>8. CASE Fail
  BY <1>8 DEF Fail, Settled, NoAnswers, OpenStatuses
<1>9. CASE UNCHANGED trackerVars
  BY <1>9, SameListing DEF trackerVars, Settled
<1> QED
  BY <1>1, <1>10, <1>2, <1>3, <1>4, <1>5, <1>6, <1>7, <1>8, <1>9 DEF TrackerNext

(* For every set of objectives: a quiet copy with no cause to differ is what *)
(* the broker lists for the member (objectives-tracker.ts:47-89,             *)
(* app.ts:1171-1204).                                                        *)
THEOREM QuietCopyIsTheListing == TrackerSpec => []QuietCopyIsRight
<1>1. CopyInv => QuietCopyIsRight
  BY DEF CopyInv, Settled, QuietCopyIsRight, Quiet
<1> QED
  BY <1>1, CopyInit, CopyStep, PTL DEF TrackerSpec

-----------------------------------------------------------------------------
(* The markers.  A listing appends each id that came or went once, so the   *)
(* last marker of an id is the one before, or the new one.                  *)

MarkerRecords == [kind : {"open", "close"}, id : Ids]

\* An order of a finite set lists each of its elements once.
LEMMA OrderFacts ==
  ASSUME NEW S, IsFiniteSet(S), NEW f \in Orders(S)
  PROVE  /\ Cardinality(S) \in Nat /\ DOMAIN f = 1..Cardinality(S)
         /\ \A i \in DOMAIN f : f[i] \in S
         /\ \A i, j \in DOMAIN f : i # j => f[i] # f[j]
         /\ \A x \in S : \E i \in DOMAIN f : f[i] = x
<1>1. /\ Cardinality(S) \in Nat
      /\ f \in [1..Cardinality(S) -> S] /\ DOMAIN f = 1..Cardinality(S)
      /\ \A i, j \in DOMAIN f : i # j => f[i] # f[j]
  BY FS_CardinalityType DEF Orders
<1>2. f \in Injection(1..Cardinality(S), S)
  BY <1>1 DEF Injection, IsInjective
<1>3. Cardinality(1..Cardinality(S)) = Cardinality(S)
  <2> DEFINE n == Cardinality(S)
  <2>1. n \in Nat /\ 1 \in Int /\ n \in Int
    BY <1>1
  <2> HIDE DEF n
  <2>2. Cardinality(1..n) = IF 1 > n THEN 0 ELSE n - 1 + 1
    BY <2>1, FS_Interval
  <2>3. Cardinality(1..n) = n
    BY <2>1, <2>2
  <2> QED
    BY <2>3 DEF n
<1>4. f \in Surjection(1..Cardinality(S), S)
  BY <1>2, <1>3, FS_Injection
<1> QED
  BY <1>1, <1>4 DEF Surjection

\* One marker for each id that came or went, and no other.
OneEach(new, came, went) ==
  /\ new \in Seq(MarkerRecords)
  /\ \A i \in DOMAIN new : new[i].id \in IF new[i].kind = "open" THEN came ELSE went
  /\ \A i, j \in DOMAIN new : i # j => new[i].id # new[j].id
  /\ \A o \in came \cup went : \E i \in DOMAIN new : new[i].id = o

LEMMA ListedMarkers ==
  ASSUME NEW S, S \subseteq Ids, NEW f \in Orders(S), NEW k \in {"open", "close"},
         NEW q, q = Listing(k, f)
  PROVE  /\ q \in Seq(MarkerRecords) /\ DOMAIN q = 1..Len(q) /\ DOMAIN q = DOMAIN f
         /\ Len(q) \in Nat
         /\ \A i \in DOMAIN q : q[i].kind = k /\ q[i].id \in S
         /\ \A i, j \in DOMAIN q : i # j => q[i].id # q[j].id
         /\ \A x \in S : \E i \in DOMAIN q : q[i].id = x
<1>1. IsFiniteSet(S)
  BY TrackerAssumption, FS_Subset
<1>2. /\ Cardinality(S) \in Nat /\ DOMAIN f = 1..Cardinality(S)
      /\ \A i \in DOMAIN f : f[i] \in S
      /\ \A i, j \in DOMAIN f : i # j => f[i] # f[j]
      /\ \A x \in S : \E i \in DOMAIN f : f[i] = x
  BY <1>1, OrderFacts
<1>3. DOMAIN q = DOMAIN f /\ \A i \in DOMAIN q : q[i] = Marker(k, f[i])
  BY DEF Listing
<1>4. \A i \in DOMAIN q : q[i] \in MarkerRecords /\ q[i].kind = k /\ q[i].id = f[i]
  <2>1. \A x \in Ids : /\ Marker(k, x) \in MarkerRecords
                       /\ Marker(k, x).kind = k /\ Marker(k, x).id = x
    BY DEF Marker, MarkerRecords
  <2>2. \A i \in DOMAIN q : f[i] \in Ids
    BY <1>2, <1>3
  <2> QED
    BY <1>3, <2>1, <2>2
<1> DEFINE n == Cardinality(S)
<1>5. q \in [1..n -> MarkerRecords] /\ n \in Nat
  <2>1. n \in Nat /\ DOMAIN f = 1..n
    BY <1>2
  <2>2. q = [i \in 1..n |-> Marker(k, f[i])]
    BY <2>1 DEF Listing
  <2>3. \A i \in 1..n : Marker(k, f[i]) \in MarkerRecords
    BY <1>3, <1>4, <2>1
  <2> HIDE DEF n
  <2> QED
    BY ONLY <2>1, <2>2, <2>3
<1> HIDE DEF n
<1>6. q \in Seq(MarkerRecords)
  BY <1>5, SeqDef
<1>7. Len(q) \in Nat /\ DOMAIN q = 1..Len(q)
  BY <1>6, LenProperties
<1> QED
  BY <1>2, <1>3, <1>4, <1>6, <1>7

LEMMA MarksAreOneEach ==
  ASSUME NEW next \in SUBSET Ids, open \subseteq Ids, NEW new, new \in Marks(next)
  PROVE  OneEach(new, next \ open, open \ next)
<1> DEFINE came == next \ open
           went == open \ next
<1>1. PICK f \in Orders(came), g \in Orders(went) :
        new = Listing("open", f) \o Listing("close", g)
  <2>1. PICK fg \in Orders(came) \X Orders(went) :
           new = Listing("open", fg[1]) \o Listing("close", fg[2])
    BY DEF Marks
  <2> HIDE DEF came, went
  <2> QED
    BY <2>1
<1>2. came \subseteq Ids /\ went \subseteq Ids /\ came \cap went = {}
  OBVIOUS
<1> HIDE DEF came, went
<1>3. PICK p, q : p = Listing("open", f) /\ q = Listing("close", g) /\ new = p \o q
  BY <1>1
<1>4. /\ p \in Seq(MarkerRecords) /\ DOMAIN p = 1..Len(p) /\ Len(p) \in Nat
      /\ \A i \in DOMAIN p : p[i].kind = "open" /\ p[i].id \in came
      /\ \A i, j \in DOMAIN p : i # j => p[i].id # p[j].id
      /\ \A x \in came : \E i \in DOMAIN p : p[i].id = x
  <2>1. came \subseteq Ids /\ f \in Orders(came) /\ p = Listing("open", f)
    BY <1>1, <1>2, <1>3
  <2>2. "open" \in {"open", "close"}
    OBVIOUS
  <2> QED
    BY ONLY <2>1, <2>2, ListedMarkers
<1>5. /\ q \in Seq(MarkerRecords) /\ DOMAIN q = 1..Len(q) /\ Len(q) \in Nat
      /\ \A i \in DOMAIN q : q[i].kind = "close" /\ q[i].id \in went
      /\ \A i, j \in DOMAIN q : i # j => q[i].id # q[j].id
      /\ \A x \in went : \E i \in DOMAIN q : q[i].id = x
  <2>1. went \subseteq Ids /\ g \in Orders(went) /\ q = Listing("close", g)
    BY <1>1, <1>2, <1>3
  <2>2. "close" \in {"open", "close"}
    OBVIOUS
  <2> QED
    BY ONLY <2>1, <2>2, ListedMarkers
<1> DEFINE m == Len(p)
           n == Len(q)
<1>6. /\ new \in Seq(MarkerRecords) /\ Len(new) = m + n
      /\ \A i \in 1..m+n : new[i] = IF i <= m THEN p[i] ELSE q[i - m]
  BY <1>3, <1>4, <1>5, ConcatProperties
<1>7. DOMAIN new = 1..m+n /\ m \in Nat /\ n \in Nat /\ DOMAIN p = 1..m /\ DOMAIN q = 1..n
  BY <1>4, <1>5, <1>6, LenProperties
<1> HIDE DEF m, n
<1>8. \A i \in DOMAIN p : i \in DOMAIN new /\ new[i] = p[i]
  BY <1>6, <1>7
<1>9. \A i \in DOMAIN q : i + m \in DOMAIN new /\ new[i + m] = q[i]
  <2> TAKE i \in DOMAIN q
  <2>1. i + m \in 1..m+n /\ ~(i + m <= m) /\ (i + m) - m = i
    BY <1>7
  <2> QED
    BY <1>6, <1>7, <2>1
<1>10. \A i \in DOMAIN new : i \in DOMAIN p \/ \E j \in DOMAIN q : i = j + m
  <2> TAKE i \in DOMAIN new
  <2>1. i \in 1..m+n
    BY <1>7
  <2>2. CASE ~(i <= m)
    <3>1. i - m \in 1..n /\ i = (i - m) + m
      BY <1>7, <2>1, <2>2
    <3> QED
      BY <1>7, <3>1
  <2> QED
    BY <1>7, <2>1, <2>2
<1>11. \A i \in DOMAIN new : \/ i \in DOMAIN p /\ new[i].kind = "open" /\ new[i].id \in came
                             \/ new[i].kind = "close" /\ new[i].id \in went
  BY <1>4, <1>5, <1>8, <1>9, <1>10
<1>12. \A i \in DOMAIN new : new[i].id \in IF new[i].kind = "open" THEN came ELSE went
  BY <1>11
<1>13. ASSUME NEW i \in DOMAIN new, NEW j \in DOMAIN new, i # j PROVE new[i].id # new[j].id
  <2>1. CASE i \in DOMAIN p /\ j \in DOMAIN p
    BY <1>4, <1>8, <1>13, <2>1
  <2>2. CASE \E k, l \in DOMAIN q : i = k + m /\ j = l + m
    <3>1. PICK k \in DOMAIN q, l \in DOMAIN q : i = k + m /\ j = l + m
      BY <2>2
    <3>2. k # l
      BY <1>13, <3>1
    <3>3. q[k].id # q[l].id
      <4>1. \A a, b \in DOMAIN q : a # b => q[a].id # q[b].id
        BY ONLY <1>5
      <4> QED
        BY ONLY <3>1, <3>2, <4>1
    <3>4. new[k + m] = q[k] /\ new[l + m] = q[l]
      BY <1>9
    <3> QED
      BY <3>1, <3>3, <3>4
  <2>3. CASE new[i].kind # new[j].kind
    <3>1. \/ new[i].id \in came /\ new[j].id \in went
          \/ new[i].id \in went /\ new[j].id \in came
      BY <1>11, <2>3
    <3> QED
      BY <1>2, <3>1
  <2>4. \A k \in DOMAIN p : new[k].kind = "open"
    BY <1>4, <1>8
  <2>5. \A k \in DOMAIN q : new[k + m].kind = "close"
    BY <1>5, <1>9
  <2> QED
    BY <1>10, <2>1, <2>2, <2>3, <2>4, <2>5
<1>14. \A o \in came \cup went : \E i \in DOMAIN new : new[i].id = o
  BY <1>4, <1>5, <1>8, <1>9
<1> QED
  BY <1>6, <1>12, <1>13, <1>14 DEF OneEach, came, went

\* MarkersBracket of a sequence of markers and a copy.
LastOpens(q, o, n) ==
  \E i \in 1..n : q[i] = Marker("open", o) /\ \A j \in i+1..n : q[j].id # o

Bracket(q, S) ==
  /\ \A i \in DOMAIN q : q[i].kind = "open" <=> ~LastOpens(q, q[i].id, i - 1)
  /\ \A o \in Ids : o \in S <=> LastOpens(q, o, Len(q))

LEMMA BracketIsTheProperty == MarkersBracket <=> Bracket(markers, open)
BY DEF MarkersBracket, Bracket, OpenAfter, LastOpens

\* Markers that do not name an objective leave its last marker what it was.
LEMMA OthersLeaveIt ==
  ASSUME NEW q, NEW r, NEW L \in Nat, NEW n \in Nat, L <= n, NEW o,
         \A i \in 1..L : r[i] = q[i],
         \A i \in L+1..n : r[i].id # o
  PROVE  LastOpens(r, o, n) <=> LastOpens(q, o, L)
<1> DEFINE opener == Marker("open", o)
<1>1. opener.id = o
  BY DEF Marker
<1> HIDE DEF opener
<1>2. ASSUME NEW i \in 1..n, r[i] = opener, \A j \in i+1..n : r[j].id # o
      PROVE  i \in 1..L /\ q[i] = opener /\ \A j \in i+1..L : q[j].id # o
  <2>1. i \in 1..L
    BY <1>1, <1>2
  <2>2. \A j \in i+1..L : j \in i+1..n /\ j \in 1..L
    BY <2>1
  <2> QED
    BY <1>2, <2>1, <2>2
<1>3. ASSUME NEW i \in 1..L, q[i] = opener, \A j \in i+1..L : q[j].id # o
      PROVE  i \in 1..n /\ r[i] = opener /\ \A j \in i+1..n : r[j].id # o
  <2>1. ASSUME NEW j \in i+1..n PROVE r[j].id # o
    <3>1. (j \in i+1..L /\ j \in 1..L) \/ j \in L+1..n
      OBVIOUS
    <3> QED
      BY <1>3, <3>1
  <2> QED
    BY <1>3, <2>1
<1>4. LastOpens(r, o, n) => LastOpens(q, o, L)
  BY <1>2 DEF LastOpens, opener
<1>5. LastOpens(q, o, L) => LastOpens(r, o, n)
  BY <1>3 DEF LastOpens, opener
<1> QED
  BY <1>4, <1>5

\* What came and what went, one marker each, keeps the brackets.
LEMMA BracketExtends ==
  ASSUME NEW q \in Seq(MarkerRecords), NEW S \in SUBSET Ids, NEW T \in SUBSET Ids,
         Bracket(q, S), NEW new, OneEach(new, T \ S, S \ T)
  PROVE  q \o new \in Seq(MarkerRecords) /\ Bracket(q \o new, T)
<1> DEFINE r == q \o new
           L == Len(q)
           N == Len(new)
<1>1. /\ new \in Seq(MarkerRecords)
      /\ \A i \in DOMAIN new : new[i].id \in IF new[i].kind = "open" THEN T \ S ELSE S \ T
      /\ \A i, j \in DOMAIN new : i # j => new[i].id # new[j].id
      /\ \A o \in (T \ S) \cup (S \ T) : \E i \in DOMAIN new : new[i].id = o
  BY DEF OneEach
<1>2. /\ r \in Seq(MarkerRecords) /\ Len(r) = L + N
      /\ \A i \in 1..L+N : r[i] = IF i <= L THEN q[i] ELSE new[i - L]
  BY <1>1, ConcatProperties
<1>3. /\ L \in Nat /\ N \in Nat /\ DOMAIN q = 1..L /\ DOMAIN new = 1..N /\ DOMAIN r = 1..L+N
  BY <1>1, <1>2, LenProperties
<1>4. \A i \in 1..N : new[i] \in MarkerRecords
  BY <1>1, <1>3, ElementOfSeq
<1> HIDE DEF r, L, N
<1>5. \A i \in 1..L : r[i] = q[i]
  BY <1>2, <1>3
<1>6. \A i \in 1..N : r[L + i] = new[i]
  <2> TAKE i \in 1..N
  <2>1. L + i \in 1..L+N /\ ~(L + i <= L) /\ (L + i) - L = i
    BY <1>3
  <2> QED
    BY <1>2, <2>1
<1>7. \A j \in L+1..L+N : j - L \in 1..N /\ r[j] = new[j - L]
  <2> TAKE j \in L+1..L+N
  <2>1. j \in 1..L+N /\ ~(j <= L) /\ j - L \in 1..N
    BY <1>3
  <2> QED
    BY <1>2, <2>1
<1>8. \A o \in Ids : o \in S <=> LastOpens(q, o, L)
  BY DEF Bracket, L
<1>9. \A i \in 1..N : new[i].kind \in {"open", "close"} /\ new[i].id \in Ids
  BY <1>4 DEF MarkerRecords
<1>10. ASSUME NEW i \in 1..L PROVE r[i].kind = "open" <=> ~LastOpens(r, r[i].id, i - 1)
  <2>1. q[i].kind = "open" <=> ~LastOpens(q, q[i].id, i - 1)
    BY <1>3 DEF Bracket
  <2>2. /\ i - 1 \in Nat /\ i - 1 <= i - 1
        /\ \A j \in 1..i-1 : j \in 1..L /\ \A k \in (i-1)+1..i-1 : FALSE
    BY <1>3
  <2>3. /\ \A j \in 1..i-1 : r[j] = q[j]
        /\ \A j \in (i-1)+1..i-1 : r[j].id # q[i].id
    BY <1>5, <2>2, <1>3
  <2>4. LastOpens(r, q[i].id, i - 1) <=> LastOpens(q, q[i].id, i - 1)
    BY ONLY <2>2, <2>3, OthersLeaveIt
  <2> QED
    BY <1>5, <2>1, <2>4
<1>11. ASSUME NEW i \in 1..N PROVE new[i].kind = "open" <=> ~LastOpens(r, new[i].id, (L + i) - 1)
  <2> DEFINE o == new[i].id
             n == (L + i) - 1
  <2>1. n \in Nat /\ L \in Nat /\ L <= n /\ n <= L + N /\ \A j \in L+1..n : j - L \in 1..N /\ j - L # i
    BY <1>3
  <2>2. \A j \in L+1..n : r[j].id # o
    <3> TAKE j \in L+1..n
    <3>1. j \in L+1..L+N /\ j - L \in 1..N /\ j - L # i
      BY <1>3, <2>1
    <3> QED
      BY <1>1, <1>3, <1>7, <3>1
  <2> HIDE DEF o, n
  <2>3. LastOpens(r, o, n) <=> LastOpens(q, o, L)
    BY ONLY <1>5, <2>1, <2>2, OthersLeaveIt
  <2>4. o \in Ids /\ (LastOpens(q, o, L) <=> o \in S)
    BY <1>8, <1>9 DEF o
  <2>5. o \in IF new[i].kind = "open" THEN T \ S ELSE S \ T
    BY <1>1, <1>3 DEF o
  <2>6. new[i].kind = "open" <=> ~LastOpens(r, o, n)
    BY <2>3, <2>4, <2>5
  <2> QED
    BY <2>6 DEF o, n
<1>12. ASSUME NEW i \in DOMAIN r PROVE r[i].kind = "open" <=> ~LastOpens(r, r[i].id, i - 1)
  <2>1. CASE i \in 1..L
    BY <1>10, <2>1
  <2>2. CASE i \in L+1..L+N
    <3>1. i - L \in 1..N /\ r[i] = new[i - L] /\ (L + (i - L)) - 1 = i - 1
      BY <1>3, <1>7, <2>2
    <3>2. new[i - L].kind = "open" <=> ~LastOpens(r, new[i - L].id, (L + (i - L)) - 1)
      BY <1>11, <3>1
    <3> QED
      BY <3>1, <3>2
  <2>3. i \in 1..L \/ i \in L+1..L+N
    BY <1>3
  <2> QED
    BY <2>1, <2>2, <2>3
<1>13. ASSUME NEW o \in Ids PROVE o \in T <=> LastOpens(r, o, L + N)
  <2>1. CASE \A i \in 1..N : new[i].id # o
    <3>1. o \in T <=> o \in S
      BY <1>1, <1>3, <2>1
    <3>2. \A j \in L+1..L+N : r[j].id # o
      BY <1>7, <2>1
    <3>3. L \in Nat /\ L + N \in Nat /\ L <= L + N
      BY <1>3
    <3>4. LastOpens(r, o, L + N) <=> LastOpens(q, o, L)
      BY ONLY <1>5, <3>2, <3>3, OthersLeaveIt
    <3> QED
      BY <1>8, <3>1, <3>4
  <2>2. CASE \E i \in 1..N : new[i].id = o
    <3>1. PICK i \in 1..N : new[i].id = o
      BY <2>2
    <3>2. \A k \in 1..N : k # i => new[k].id # o
      <4>1. \A a, b \in 1..N : a # b => new[a].id # new[b].id
        BY ONLY <1>1, <1>3
      <4> QED
        BY ONLY <3>1, <4>1
    <3>3. L + i \in 1..L+N /\ r[L + i] = new[i]
      BY <1>3, <1>6
    <3>4. o \in IF new[i].kind = "open" THEN T \ S ELSE S \ T
      BY <1>1, <1>3, <3>1
    <3>5. CASE new[i].kind = "open"
      <4>1. new[i] = Marker("open", o)
        BY <1>4, <3>1, <3>5 DEF MarkerRecords, Marker
      <4>2. ASSUME NEW j \in (L+i)+1..L+N PROVE r[j].id # o
        <5>1. j \in L+1..L+N /\ j - L # i
          BY <1>3
        <5> QED
          BY <1>7, <3>2, <5>1
      <4>3. LastOpens(r, o, L + N)
        BY <3>3, <4>1, <4>2 DEF LastOpens
      <4> QED
        BY <3>4, <3>5, <4>3
    <3>6. CASE new[i].kind # "open"
      <4>1. ASSUME NEW k \in 1..L+N, r[k] = Marker("open", o), \A j \in k+1..L+N : r[j].id # o
            PROVE  FALSE
        <5>1. Marker("open", o).id = o /\ Marker("open", o).kind = "open"
          BY DEF Marker
        <5>2. ~(L + i \in k+1..L+N)
          BY <3>1, <3>3, <4>1
        <5>3. k \in L+1..L+N /\ k - L \in i..N
          BY <1>3, <5>2
        <5>4. r[k] = new[k - L] /\ k - L \in 1..N
          BY <1>7, <5>3
        <5>5. k - L = i
          BY <3>2, <4>1, <5>1, <5>4
        <5> QED
          BY <3>6, <4>1, <5>1, <5>4, <5>5
      <4>2. ~LastOpens(r, o, L + N)
        BY <4>1 DEF LastOpens
      <4> QED
        BY <3>4, <3>6, <4>2
    <3> QED
      BY <3>5, <3>6
  <2> QED
    BY <2>1, <2>2
<1>14. Bracket(r, T)
  BY <1>2, <1>12, <1>13 DEF Bracket
<1> QED
  BY <1>2, <1>14 DEF r

MarksInv ==
  /\ open \subseteq Ids
  /\ \A s \in DOMAIN answers : answers[s] \subseteq Ids
  /\ markers \in Seq(MarkerRecords)
  /\ Bracket(markers, open)

(* The briefing opens each of its objectives once. *)
LEMMA MarksInit == TrackerInit => MarksInv
<1> SUFFICES ASSUME TrackerInit PROVE MarksInv
  OBVIOUS
<1>1. open \subseteq Ids /\ open \in SUBSET Ids /\ {} \in SUBSET Ids /\ answers = NoAnswers
  BY DEF TrackerInit, Briefed
<1>2. PICK f \in Orders(open) : markers = Listing("open", f)
  BY DEF TrackerInit
<1>3. /\ markers \in Seq(MarkerRecords)
      /\ \A i \in DOMAIN markers : markers[i].kind = "open" /\ markers[i].id \in open
      /\ \A i, j \in DOMAIN markers : i # j => markers[i].id # markers[j].id
      /\ \A x \in open : \E i \in DOMAIN markers : markers[i].id = x
  <2>1. "open" \in {"open", "close"}
    OBVIOUS
  <2> QED
    BY ONLY <1>1, <1>2, <2>1, ListedMarkers
<1>4. OneEach(markers, open \ {}, {} \ open)
  BY <1>3 DEF OneEach
<1>5. << >> \in Seq(MarkerRecords) /\ Len(<< >>) = 0 /\ DOMAIN << >> = {}
  BY EmptySeq
<1>6. Bracket(<< >>, {})
  BY <1>5 DEF Bracket, LastOpens
<1>7. Bracket(<< >> \o markers, open)
  BY ONLY <1>1, <1>4, <1>5, <1>6, BracketExtends
<1>8. << >> \o markers = markers
  BY <1>3, ConcatEmptySeq
<1> QED
  BY <1>1, <1>3, <1>7, <1>8 DEF MarksInv, NoAnswers

LEMMA MarksStep == MarksInv /\ [TrackerNext]_trackerVars => MarksInv'
<1> SUFFICES ASSUME MarksInv, [TrackerNext]_trackerVars PROVE MarksInv'
  OBVIOUS
<1>1. CASE Finish
  <2> DEFINE next == answers["active"] \cup answers["blocked"]
  <2>1. next \in SUBSET Ids /\ open \in SUBSET Ids
    BY <1>1 DEF Finish, MarksInv, Unanswered, OpenStatuses
  <2>2. PICK new \in Marks(next) : markers' = markers \o new
    BY <1>1 DEF Finish
  <2>3. open' = next /\ answers' = NoAnswers
    BY <1>1 DEF Finish
  <2> HIDE DEF next
  <2>4. OneEach(new, next \ open, open \ next)
    BY <2>1, <2>2, MarksAreOneEach
  <2>5. markers \o new \in Seq(MarkerRecords) /\ Bracket(markers \o new, next)
    BY <2>1, <2>4, BracketExtends DEF MarksInv
  <2>6. Bracket(markers, open)'
    BY <2>2, <2>3, <2>5 DEF Bracket, LastOpens
  <2> QED
    BY <2>1, <2>2, <2>3, <2>5, <2>6 DEF MarksInv, NoAnswers
<1>2. ASSUME UNCHANGED <<open, markers>>, \A s \in DOMAIN answers' : answers'[s] \subseteq Ids
      PROVE  MarksInv'
  BY <1>2 DEF MarksInv, Bracket, LastOpens
<1>3. ASSUME NEW o \in Ids, NEW s \in Statuses, NEW t \in Ties, Change(o, s, t)
      PROVE  MarksInv'
  BY <1>2, <1>3 DEF Change, MarksInv
<1>8. CASE Regrant
  BY <1>2, <1>8 DEF Regrant, MarksInv
<1>4. ASSUME NEW s \in OpenStatuses, Answer(s) PROVE MarksInv'
  <2>1. Listed(s) \subseteq Ids
    BY DEF Listed
  <2> QED
    BY <1>2, <1>4, <2>1 DEF Answer, MarksInv
<1>5. CASE Subscribe \/ Disconnect \/ Receive
  BY <1>2, <1>5 DEF Subscribe, Disconnect, Receive, MarksInv
<1>6. CASE Fire \/ Fail
  BY <1>2, <1>6 DEF Fire, Fail, NoAnswers, MarksInv
<1>7. CASE UNCHANGED trackerVars
  BY <1>2, <1>7 DEF trackerVars, MarksInv
<1> QED
  BY <1>1, <1>3, <1>4, <1>5, <1>6, <1>7, <1>8 DEF TrackerNext

(* For every set of objectives: the activity stream brackets each objective  *)
(* the copy ever held, whatever two lists a fetch puts together              *)
(* (runner.ts:315-340).                                                      *)
THEOREM ObjectivesAreBracketed == TrackerSpec => []MarkersBracket
<1>1. MarksInv => MarkersBracket
  BY BracketIsTheProperty DEF MarksInv
<1> QED
  BY <1>1, MarksInit, MarksStep, PTL DEF TrackerSpec

(* TypeOK is inductive as it stands: nothing is unread on a subscription    *)
(* that is down, and answers are only held while a fetch is under way.      *)
LEMMA TrackerTypeStep == TrackerTypeOK /\ [TrackerNext]_trackerVars => TrackerTypeOK'
<1> SUFFICES ASSUME TrackerTypeOK, [TrackerNext]_trackerVars PROVE TrackerTypeOK'
  OBVIOUS
<1> USE TrackerAssumption DEF TrackerTypeOK
<1>1. ASSUME NEW o \in Ids, NEW s \in Statuses, NEW t \in Ties, Change(o, s, t)
      PROVE  TrackerTypeOK'
  <2>1. changes' \in 0..MaxChanges
    BY <1>1 DEF Change
  <2>2. stale' \subseteq Causes
    BY <1>1 DEF Change, Unheard, Causes
  <2>3. stream' \in Nat /\ (stream' > 0 => connected')
    BY <1>1 DEF Change, Unheard
  <2>4. status' \in [Ids -> Statuses] /\ tie' \in [Ids -> Ties]
    BY <1>1 DEF Change
  <2> QED
    BY <1>1, <2>1, <2>2, <2>3, <2>4 DEF Change
<1>10. CASE Regrant
  <2>1. changes' \in 0..MaxChanges /\ creates' \in BOOLEAN
    BY <1>10 DEF Regrant
  <2>2. stale' \subseteq Causes /\ stream' = stream
    BY <1>10 DEF Regrant, Unheard, Causes
  <2> QED
    BY <1>10, <2>1, <2>2 DEF Regrant
<1>2. ASSUME NEW s \in OpenStatuses, Answer(s) PROVE TrackerTypeOK'
  <2>1. DOMAIN answers' = DOMAIN answers \cup {s} /\ inflight'
    BY <1>2 DEF Answer
  <2>2. \A t \in DOMAIN answers' : answers'[t] \subseteq Ids
    BY <1>2 DEF Answer, Listed
  <2> QED
    BY <1>2, <2>1, <2>2 DEF Answer, brokerVars
<1>3. CASE Subscribe
  BY <1>3 DEF Subscribe, brokerVars
<1>4. CASE Disconnect
  <2>1. troubles' \in 0..MaxTroubles
    BY <1>4 DEF Disconnect
  <2>2. stale' \subseteq Causes
    BY <1>4 DEF Disconnect, Causes
  <2>3. connected' = FALSE /\ UNCHANGED <<brokerVars, timer, inflight, answers, open, markers>>
    BY <1>4 DEF Disconnect
  <2>7. UNCHANGED <<status, tie, creates, changes>>
    BY <2>3 DEF brokerVars
  <2>4. connected' \in BOOLEAN
    BY ONLY <2>3
  <2>5. stream' = 0
    BY <1>4 DEF Disconnect
  <2>6. stream' \in Nat /\ ~(stream' > 0)
    BY ONLY <2>5
  <2> QED
    BY <2>1, <2>2, <2>3, <2>4, <2>6, <2>7
<1>7. CASE Receive
  BY <1>7 DEF Receive, brokerVars
<1>8. CASE Fire
  <2>1. stale' \subseteq Causes
    BY <1>8 DEF Fire, Causes
  <2> QED
    BY <1>8, <2>1 DEF Fire, NoAnswers, brokerVars
<1>9. CASE Fail
  <2>1. troubles' \in 0..MaxTroubles
    BY <1>9 DEF Fail
  <2>2. stale' \subseteq Causes
    BY <1>9 DEF Fail, Causes
  <2> QED
    BY <1>9, <2>1, <2>2 DEF Fail, NoAnswers, brokerVars
<1>5. CASE Finish
  <2> DEFINE next == answers["active"] \cup answers["blocked"]
  <2>1. next \in SUBSET Ids
    BY <1>5 DEF Finish, Unanswered, OpenStatuses
  <2>2. PICK new \in Marks(next) : markers' = markers \o new
    BY <1>5 DEF Finish
  <2>3. open' = next
    BY <1>5 DEF Finish
  <2> HIDE DEF next
  <2>4. OneEach(new, next \ open, open \ next)
    BY <2>1, <2>2, MarksAreOneEach
  <2>5. markers' \in Seq(MarkerRecords)
    BY <2>2, <2>4, ConcatProperties DEF OneEach, MarkerRecords
  <2> QED
    BY <1>5, <2>1, <2>3, <2>5 DEF Finish, NoAnswers, MarkerRecords, brokerVars
<1>6. CASE UNCHANGED trackerVars
  BY <1>6 DEF trackerVars
<1> QED
  BY <1>1, <1>2, <1>3, <1>4, <1>5, <1>6, <1>7, <1>8, <1>9, <1>10 DEF TrackerNext

(* Type correctness of the tracker, for every set of objectives and every   *)
(* bound.                                                                   *)
THEOREM TrackerTypeCorrect == TrackerSpec => []TrackerTypeOK
<1>1. TrackerInit => TrackerTypeOK
  <2> SUFFICES ASSUME TrackerInit PROVE TrackerTypeOK
    OBVIOUS
  <2>1. markers \in Seq([kind : {"open", "close"}, id : Ids]) /\ open \subseteq Ids
    BY MarksInit DEF MarksInv, MarkerRecords
  <2>2. changes \in 0..MaxChanges /\ troubles \in 0..MaxTroubles
    BY TrackerAssumption DEF TrackerInit
  <2>3. /\ connected = FALSE /\ timer = FALSE /\ inflight = FALSE /\ stream = 0
        /\ answers = NoAnswers
        /\ status \in [Ids -> Statuses] /\ tie \in [Ids -> Ties] /\ creates \in BOOLEAN
    BY DEF TrackerInit, Statuses
  <2>7. stale \subseteq Causes
    BY DEF TrackerInit, Causes
  <2>4. DOMAIN answers = {}
    BY <2>3 DEF NoAnswers
  <2>5. connected \in BOOLEAN /\ timer \in BOOLEAN /\ inflight \in BOOLEAN
    BY <2>3
  <2>6. stream \in Nat /\ ~(stream > 0)
    BY <2>3
  <2> QED
    BY <2>1, <2>2, <2>3, <2>4, <2>5, <2>6, <2>7 DEF TrackerTypeOK
<1> QED
  BY <1>1, TrackerTypeStep, PTL DEF TrackerSpec
=============================================================================
