------------------------------ MODULE Presence ------------------------------
(***************************************************************************)
(* From the busy signal of a runner to the spinner on the roster: the      *)
(* reporter (cli/src/runtime/busy-reporter.ts), the requests it sends and  *)
(* does not wait for, POST /presence/busy with its tracker                 *)
(* (apps/server/src/busy-tracker.ts), and the deletion of the member.      *)
(*                                                                         *)
(* Reports are alike but for their content and how far they came: under    *)
(* way, or authenticated and waiting for their body.  They overtake each   *)
(* other, and a bounded number is lost.  A runner can die with no word and *)
(* another one be started for the member.                                  *)
(***************************************************************************)
EXTENDS BusySignal

CONSTANTS
  Ttl,        \* BUSY_TTL_MS, in ticks
  MaxFlight,  \* bound: reports under way; one beyond it is lost
  MaxLost,    \* bound: reports lost below that bound
  MaxCrashes  \* bound: runners that die

ASSUME TtlAssumption == Ttl \in Nat \ {0}
ASSUME PresenceBoundsAssumption == {MaxFlight, MaxLost, MaxCrashes} \subseteq Nat

VARIABLES
  beating,    \* heartbeatTimer # null
  flight,     \* how many reports of each kind are on their way
  left,       \* ticks to expiresAt of the member's report; 0: none, or stale
  member,     \* the runner's member exists, and its token with it
  losses, crashes

wire == <<beating, flight, left, member, losses, crashes>>
vars == <<signal, wire>>

Kinds == [busy : BOOLEAN, admitted : BOOLEAN]
Report(b) == [busy |-> b, admitted |-> FALSE]

PresenceTypeOK ==
  /\ SignalTypeOK
  /\ beating \in BOOLEAN /\ member \in BOOLEAN
  /\ flight \in [Kinds -> 0..MaxFlight]
  /\ left \in 0..Ttl
  /\ losses \in 0..MaxLost /\ crashes \in 0..MaxCrashes

\* isBusy of the tracker, as GET /roster asks it.
Shown == left > 0

InFlight ==
  flight[Report(TRUE)] + flight[Report(FALSE)]
    + flight[[busy |-> TRUE, admitted |-> TRUE]]
    + flight[[busy |-> FALSE, admitted |-> TRUE]]

Post(b) ==
  flight' = IF InFlight < MaxFlight THEN [flight EXCEPT ![Report(b)] = @ + 1] ELSE flight

\* startBusyReporter: the first call of the listener comes with subscribe().
Init ==
  /\ SignalInit
  /\ beating = FALSE
  /\ flight = [r \in Kinds |-> IF r = Report(FALSE) /\ MaxFlight > 0 THEN 1 ELSE 0]
  /\ left = 0 /\ member = TRUE
  /\ losses = 0 /\ crashes = 0
-----------------------------------------------------------------------------
\* The listener, called on a change of Busy while it is subscribed.
\* Mutant: the timer is left running when the work ends.
NotifyForgetting ==
  IF phase = "up" /\ Busy' # Busy
    THEN Post(Busy') /\ beating' = TRUE
    ELSE UNCHANGED <<flight, beating>>

Notify ==
  IF phase = "up" /\ Busy' # Busy
    THEN Post(Busy') /\ beating' = Busy'
    ELSE UNCHANGED <<flight, beating>>

NewWork ==
  \/ \E s \in Sessions : Request(s)
  \/ \E i \in Items : ToolStarted(i)

WorkGoesOn ==
  \/ \E s \in Sessions : Respond(s) \/ Poison(s) \/ Close(s)
  \/ \E i \in Items : ToolCompleted(i)
  \/ DrainTools

Feed ==
  /\ NewWork \/ WorkGoesOn
  /\ Notify
  /\ UNCHANGED <<left, member, losses, crashes>>

TimeOut(h) ==
  /\ AgeOut(h)
  /\ Notify
  /\ UNCHANGED <<left, member, losses, crashes>>

\* Mutant: the interval posts what it sees once, and then clears itself.
HeartbeatOnce ==
  /\ beating /\ Busy
  /\ Post(TRUE)
  /\ beating' = FALSE
  /\ UNCHANGED <<signal, left, member, losses, crashes>>

\* The interval, each time it fires.
Heartbeat ==
  /\ beating /\ Busy
  /\ Post(TRUE)
  /\ UNCHANGED <<signal, beating, left, member, losses, crashes>>

\* shutdown(): the reporter is the first to hear of it.
Abort ==
  /\ phase = "up"
  /\ phase' = "aborted"
  /\ beating' = FALSE
  /\ IF Busy THEN Post(FALSE) ELSE UNCHANGED flight
  /\ UNCHANGED <<conn, asked, ofRequest, ofItem, live, lost, blows>>
  /\ UNCHANGED <<left, member, losses, crashes>>

Teardown ==
  /\ CloseAll \/ ForceFinishAll
  /\ UNCHANGED wire

Crash ==
  /\ phase # "down"
  /\ crashes < MaxCrashes /\ crashes' = crashes + 1
  /\ phase' = "down" /\ beating' = FALSE
  /\ Reset
  /\ UNCHANGED <<blows, flight, left, member, losses>>

\* Another runner for the member, whose token has to work.
Launch ==
  /\ phase = "down" /\ member
  /\ phase' = "up"
  /\ Post(FALSE)
  /\ UNCHANGED <<conn, asked, ofRequest, ofItem, live, lost, blows>>
  /\ UNCHANGED <<beating, left, member, losses, crashes>>
-----------------------------------------------------------------------------
Fewer(r) == [flight EXCEPT ![r] = @ - 1]

\* The auth middleware; the token of a deleted member is refused.
Admit(b) ==
  /\ flight[Report(b)] > 0
  /\ flight' = IF member
       THEN [Fewer(Report(b)) EXCEPT ![[busy |-> b, admitted |-> TRUE]] = @ + 1]
       ELSE Fewer(Report(b))
  /\ UNCHANGED <<signal, beating, left, member, losses, crashes>>

\* report() of the tracker.
Reported(b) == IF b THEN Ttl ELSE 0

\* The handler, once it has the body.
Land(b) ==
  LET r == [busy |-> b, admitted |-> TRUE] IN
    /\ flight[r] > 0
    /\ flight' = Fewer(r)
    /\ left' = Reported(b)
    /\ UNCHANGED <<signal, beating, member, losses, crashes>>

Lose ==
  /\ losses < MaxLost /\ losses' = losses + 1
  /\ \E r \in Kinds : flight[r] > 0 /\ flight' = Fewer(r)
  /\ UNCHANGED <<signal, beating, left, member, crashes>>

\* DELETE /members/:name: forget(), and the tokens are revoked.
DeleteMember ==
  /\ member /\ member' = FALSE
  /\ left' = 0
  /\ UNCHANGED <<signal, beating, flight, losses, crashes>>

\* Mutant: what the tracker was told does not expire.
TickWithoutExpiry ==
  /\ \E h \in Handles : live[h] > 0
  /\ live' = Older
  /\ UNCHANGED <<conn, asked, ofRequest, ofItem, lost, phase, blows>>
  /\ UNCHANGED <<beating, flight, left, member, losses, crashes>>

\* Both clocks; the tracker's entry expires with it.
Tick ==
  /\ \/ \E h \in Handles : live[h] > 0
     \/ left > 0
  /\ live' = Older
  /\ left' = IF left > 0 THEN left - 1 ELSE 0
  /\ UNCHANGED <<conn, asked, ofRequest, ofItem, lost, phase, blows>>
  /\ UNCHANGED <<beating, flight, member, losses, crashes>>

Next ==
  \/ Feed \/ \E h \in Handles : TimeOut(h)
  \/ Heartbeat \/ Abort \/ Teardown \/ Crash \/ Launch
  \/ \E b \in BOOLEAN : Admit(b) \/ Land(b)
  \/ Lose \/ DeleteMember \/ Tick

\* Timers fire, clocks run and requests are answered, late as they may be.
Fairness ==
  /\ WF_vars(Tick) /\ WF_vars(Heartbeat)
  /\ \A h \in Handles : WF_vars(TimeOut(h))
  /\ \A b \in BOOLEAN : WF_vars(Admit(b)) /\ WF_vars(Land(b))

Spec == Init /\ [][Next]_vars
FairSpec == Spec /\ Fairness
-----------------------------------------------------------------------------
\* The interval runs exactly while the reporter listens and there is work: it
\* neither outlives the work, which nothing would report, nor stops before.
BeatsWhileBusy == beating <=> phase = "up" /\ Busy

(***************************************************************************)
(* The promise of the safety nets: once no new work starts, the spinner    *)
(* goes off and stays off, whether responses never come, sessions were     *)
(* poisoned, reports were lost or overtook each other, or the runner died. *)
(***************************************************************************)
SpinnerStops == <>[][~NewWork]_vars => <>[]~Shown

\* A runner that works on and on is shown as working again and again, though
\* the report of the change was lost or overtaken by an older one.
WorkIsSeen == <>[](phase = "up" /\ member /\ Busy) => []<>Shown
=============================================================================
