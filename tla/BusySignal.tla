----------------------------- MODULE BusySignal -----------------------------
(***************************************************************************)
(* What a runner counts as work in flight (cli/src/runtime/trace/busy.ts), *)
(* with the three that feed it: the HTTP reassembler behind the proxy      *)
(* (http1-reassembler.ts, host.ts), the hook server of Claude Code         *)
(* (hook-server.ts) and the notifications of codex (busy-sniff.ts).  Busy  *)
(* is what subscribers see, and a step that changes it calls them once.    *)
(*                                                                         *)
(* A handle is one unit of work.  It ends by the finish() of its feeder,   *)
(* by the timer of its age, or when the host closes.  Requests of one      *)
(* session are told apart by the time of the chunk that completed them, a  *)
(* stamp, which two requests of one chunk share.  Session ids and handles  *)
(* are not used again in the code; here they are, once nothing names them. *)
(***************************************************************************)
EXTENDS Integers, Sequences, FiniteSets, Functions

CONSTANTS
  Sessions,   \* connections through the proxy to an LLM provider
  Stamps,     \* times of chunks
  Items,      \* tool_use_ids, or codex item ids
  Handles,    \* bound: units of work alive at once
  LlmAge,     \* DEFAULT_MAX_AGE_MS, in ticks
  ToolAge,
  MaxPending, \* bound: requests of a session that wait for their response
  MaxBlows    \* bound: sessions that outgrow MAX_DIRECTION_BUFFER

Off == "off"    \* in a map: no such key
Over == "over"  \* in a map: a handle that is finished; finish() does nothing
Gone == -1      \* a handle that is not alive

ASSUME AgeAssumption == LlmAge \in Nat /\ ToolAge \in Nat
ASSUME BoundsAssumption == MaxPending \in Nat /\ MaxBlows \in Nat
ASSUME HandlesAssumption == Off \notin Handles /\ Over \notin Handles

VARIABLES
  conn,       \* each session: absent, open or poisoned
  asked,      \* Session.pending: requests that wait for their response
  ofRequest,  \* pendingHandles of host.ts: stamp -> handle
  ofItem,     \* handles of the hook server, toolHandles of codex: item -> handle
  live,       \* liveHandles with the ticks their timers have left
  lost,       \* history: live handles that nothing will finish but their timer
  phase,      \* the runner: up, aborted, or down
  blows

signal == <<conn, asked, ofRequest, ofItem, live, lost, phase, blows>>

MaxAge == IF LlmAge > ToolAge THEN LlmAge ELSE ToolAge
Refs == Handles \cup {Off, Over}
Pending == [stamp : Stamps, shared : BOOLEAN]

SignalTypeOK ==
  /\ conn \in [Sessions -> {"none", "open", "poisoned"}]
  /\ asked \in [Sessions -> Seq(Pending)]
  /\ ofRequest \in [Sessions -> [Stamps -> Refs]]
  /\ ofItem \in [Items -> Refs]
  /\ live \in [Handles -> Gone..MaxAge]
  /\ lost \subseteq Handles
  /\ phase \in {"up", "aborted", "down"}
  /\ blows \in 0..MaxBlows

Live == {h \in Handles : live[h] # Gone}
Busy == Live # {}

NoRequests == [s \in Sessions |-> <<>>]
NoHandles == [s \in Sessions |-> [k \in Stamps |-> Off]]

NoConns == [s \in Sessions |-> "none"]
NoItems == [i \in Items |-> Off]
NoneLive == [h \in Handles |-> Gone]

SignalInit ==
  /\ conn = NoConns
  /\ asked = NoRequests /\ ofRequest = NoHandles /\ ofItem = NoItems
  /\ live = NoneLive /\ lost = {}
  /\ phase = "up" /\ blows = 0

Reset ==
  /\ conn' = NoConns
  /\ asked' = NoRequests /\ ofRequest' = NoHandles /\ ofItem' = NoItems
  /\ live' = NoneLive /\ lost' = {}
StampsOf(s) == {asked[s][i].stamp : i \in 1..Len(asked[s])}
-----------------------------------------------------------------------------
\* start(): no handle is in the maps, or live, before it is started.
Free(h) ==
  /\ live[h] = Gone
  /\ \A s \in Sessions, k \in Stamps : ofRequest[s][k] # h
  /\ \A i \in Items : ofItem[i] # h

\* finish(), of handles still alive: idempotent, and the timer is cleared.
Finished(hs) == [h \in Handles |-> IF h \in hs THEN Gone ELSE live[h]]

\* onRequestStart: the last request of this stamp is the one the map knows.
Start(s, k, h) ==
  /\ live' = [live EXCEPT ![h] = LlmAge]
  /\ ofRequest' = [ofRequest EXCEPT ![s][k] = h]
  /\ lost' = lost \cup (Live \cap {ofRequest[s][k]})

\* A request is complete.  Its stamp is the last one's or a later one.
Request(s) ==
  /\ phase # "down" /\ conn[s] # "poisoned" /\ Len(asked[s]) < MaxPending
  /\ \E h \in Handles, k \in Stamps :
       /\ Free(h)
       /\ k \in StampsOf(s) => k = asked[s][Len(asked[s])].stamp
       /\ Start(s, k, h)
       /\ asked' = [asked EXCEPT ![s] =
            Append(@, [stamp |-> k, shared |-> k \in StampsOf(s)])]
  /\ conn' = [conn EXCEPT ![s] = "open"]
  /\ UNCHANGED <<ofItem, phase, blows>>

\* onExchange of some pending requests of a session.
Exchanged(s, stamps) ==
  LET hs == {ofRequest[s][k] : k \in stamps} IN
    /\ live' = Finished(hs)
    /\ lost' = lost \ hs
    /\ ofRequest' = [ofRequest EXCEPT
         ![s] = [k \in Stamps |-> IF k \in stamps THEN Off ELSE @[k]]]

\* A response is complete, interim ones (1xx) included: the oldest request
\* takes it.  One that finds no request starts nothing and ends nothing.
Respond(s) ==
  /\ conn[s] = "open" /\ asked[s] # <<>>
  /\ Exchanged(s, {Head(asked[s]).stamp})
  /\ asked' = [asked EXCEPT ![s] = Tail(@)]
  /\ UNCHANGED <<conn, ofItem, phase, blows>>

\* A message outgrows the cap of the buffers: nothing more is parsed.
Poison(s) ==
  /\ conn[s] = "open"
  /\ blows < MaxBlows /\ blows' = blows + 1
  /\ conn' = [conn EXCEPT ![s] = "poisoned"]
  /\ UNCHANGED <<asked, ofRequest, ofItem, live, lost, phase>>

\* Mutant: no session is flushed.
FlushNothing(s) == TRUE
Unflushed(s) == conn[s] = "poisoned"

\* closeSession: pending requests are flushed as exchanges without a response,
\* but for a poisoned session.  What the map still names of it stays for good.
Close(s) ==
  /\ conn[s] # "none"
  /\ IF Unflushed(s)
       THEN /\ lost' = IF conn[s] = "poisoned"
                         THEN lost \cup (Live \cap {ofRequest[s][k] : k \in Stamps})
                         ELSE lost
            /\ ofRequest' = [ofRequest EXCEPT ![s] = [k \in Stamps |-> Off]]
            /\ UNCHANGED live
       ELSE Exchanged(s, StampsOf(s))
  /\ conn' = [conn EXCEPT ![s] = "none"]
  /\ asked' = [asked EXCEPT ![s] = <<>>]
  /\ UNCHANGED <<ofItem, phase, blows>>

\* PreToolUse, item/started: a repeated one is ignored, also when the timer
\* has ended the first.
New(i) == ofItem[i] = Off

ToolStarted(i) ==
  /\ phase # "down" /\ New(i)
  /\ \E h \in Handles :
       /\ Free(h)
       /\ live' = [live EXCEPT ![h] = ToolAge]
       /\ ofItem' = [ofItem EXCEPT ![i] = h]
  /\ UNCHANGED <<conn, asked, ofRequest, lost, phase, blows>>

\* PostToolUse and its like, item/completed.
ToolCompleted(i) ==
  /\ ofItem[i] # Off
  /\ live' = Finished({ofItem[i]})
  /\ ofItem' = [ofItem EXCEPT ![i] = Off]
  /\ UNCHANGED <<conn, asked, ofRequest, lost, phase, blows>>

\* turn/completed, the teardown of codex, the close of the hook server.
DrainTools ==
  /\ \E i \in Items : ofItem[i] # Off
  /\ live' = Finished({ofItem[i] : i \in Items})
  /\ ofItem' = NoItems
  /\ UNCHANGED <<conn, asked, ofRequest, lost, phase, blows>>

Ended(ref, h) == IF ref = h THEN Over ELSE ref

\* The timer of a handle.  The maps keep what it leaves: a finished handle.
AgeOut(h) ==
  /\ live[h] = 0
  /\ live' = Finished({h})
  /\ lost' = lost \ {h}
  /\ ofRequest' = [s \in Sessions |-> [k \in Stamps |-> Ended(ofRequest[s][k], h)]]
  /\ ofItem' = [i \in Items |-> Ended(ofItem[i], h)]
  /\ UNCHANGED <<conn, asked, phase, blows>>

\* A tick of every timer's clock; a timer that is due may be late.
Older == [h \in Handles |-> IF live[h] > 0 THEN live[h] - 1 ELSE live[h]]

\* reassembler.closeAll(), when the host begins to close.
CloseAll ==
  /\ phase = "aborted" /\ \E s \in Sessions : conn[s] # "none"
  /\ LET flushed == {s \in Sessions : ~Unflushed(s)}
         hs == UNION {{ofRequest[s][k] : k \in StampsOf(s)} : s \in flushed} IN
       /\ live' = Finished(hs)
       /\ lost' = (lost \ hs) \cup
            (Live \cap {ofRequest[s][k] : s \in Sessions \ flushed, k \in Stamps})
  /\ ofRequest' = NoHandles /\ asked' = NoRequests
  /\ conn' = NoConns
  /\ UNCHANGED <<ofItem, phase, blows>>

\* forceFinishAll(), after the proxy and the hook server are closed.
ForceFinishAll ==
  /\ phase = "aborted"
  /\ phase' = "down"
  /\ Reset
  /\ UNCHANGED blows
-----------------------------------------------------------------------------
Named(h) ==
  \/ \E s \in Sessions : \E k \in StampsOf(s) : ofRequest[s][k] = h
  \/ \E i \in Items : ofItem[i] = h

(***************************************************************************)
(* The count is the work: a live handle belongs to a request that is       *)
(* pending or to a tool that runs, unless its session was poisoned or its  *)
(* stamp was shared, and a pending request is counted until its timer has  *)
(* fired, unless it came in one chunk with another.                        *)
(***************************************************************************)
SignalMatchesWork ==
  /\ \A h \in Live \ lost : Named(h)
  /\ \A s \in Sessions : \A i \in 1..Len(asked[s]) :
       ~asked[s][i].shared => ofRequest[s][asked[s][i].stamp] # Off
=============================================================================
