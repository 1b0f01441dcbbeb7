------------------------------ MODULE CodexSink ------------------------------
(***************************************************************************)
(* The runner of codex: how an event of the broker becomes input of a turn *)
(* (cli/src/commands/codex.ts, runtime/agents/codex/channel-sink.ts), what *)
(* the adapter knows of the thread (adapter.ts), the JSON-RPC connection   *)
(* between them (json-rpc.ts), and the teardown.                           *)
(*                                                                         *)
(* An event is its number in the order of the broker's stream.  Both pipes *)
(* keep their order.  Lines that come in one chunk are handled before what *)
(* awaits any of them goes on; nothing else comes in between.              *)
(*                                                                         *)
(* codex itself is not in this repository.  It is modelled by what the     *)
(* adapter is written for: it answers requests in order, tells about a     *)
(* turn and its status in either order, may refuse, fall into an error,    *)
(* unload the thread, and exit.                                            *)
(***************************************************************************)
EXTENDS Integers, Sequences, FiniteSets

CONSTANTS
  MaxEvents,   \* bound: events the forwarder passes on
  MaxTroubles  \* bound: times codex falls into an error or unloads the thread

ASSUME BoundsAssumption == MaxEvents \in Nat /\ MaxTroubles \in Nat

VARIABLES
  received,    \* events passed on so far
  pendingArgs, \* those before the sink is attached
  buffer,      \* of the sink
  timer,       \* of the sink: # null
  flight,      \* flushing: the dispatch under way, and its answer once read
  waiting,     \* a flush of the timer or of a status awaits flushing
  seen,        \* threadId # null, lastStatus and activeTurnId of the adapter
  stdin,       \* requests on their way to codex
  stdout,      \* lines on their way to the adapter
  open,        \* the connection: closedReason = null
  stop,        \* how far the teardown is
  codex,       \* the process
  troubles,
  accepted,    \* history: events as codex took them
  dropped,     \* history: events given up with a line in the log
  before       \* history: events received before the teardown

sink == <<pendingArgs, buffer, timer, flight, waiting>>
vars == <<received, sink, seen, stdin, stdout, open, stop, codex, troubles,
          accepted, dropped, before>>

Events == 1..MaxEvents
Turns == 0..MaxEvents  \* 0: no turn
Statuses == {"notLoaded", "idle", "active", "systemError"}
Kinds == {"start", "steer", "interrupt"}

\* No dispatch under way.
NoFlight == [kind |-> "none", turn |-> 0, events |-> <<>>, retry |-> FALSE, answer |-> "none"]

Requests == [kind : Kinds, turn : Turns, events : Seq(Events)]
Flights == [kind : {"none", "start", "steer"}, turn : Turns, events : Seq(Events),
            retry : BOOLEAN, answer : {"none", "ok", "race", "refused"}]

\* teardown(): not begun; its flush awaits a dispatch before other flushes, or
\* after one, or has a dispatch of its own; the turn is interrupted; rpc.close().
Stages == {"no", "waits", "waitsLater", "owns", "flushed", "interrupting", "interrupted", "closed"}

TypeOK ==
  /\ received \in 0..MaxEvents /\ before \in 0..MaxEvents
  /\ {pendingArgs, buffer, accepted} \subseteq Seq(Events)
  /\ {timer, waiting, open} \subseteq BOOLEAN
  /\ flight \in Flights
  /\ seen \in [thread : BOOLEAN, status : Statuses, turn : Turns]
  /\ stdin \in Seq(Requests)
  /\ stop \in Stages
  /\ codex \in [alive : BOOLEAN, status : Statuses \cup {"starting"}, turn : Turns, turns : Turns]
  /\ troubles \in 0..MaxTroubles
  /\ dropped \subseteq Events

Init ==
  /\ received = 0 /\ pendingArgs = <<>>
  /\ buffer = <<>> /\ timer = FALSE /\ flight = NoFlight /\ waiting = FALSE
  /\ seen = [thread |-> FALSE, status |-> "notLoaded", turn |-> 0]
  /\ stdin = <<>> /\ stdout = <<>> /\ open = TRUE
  /\ stop = "no"
  /\ codex = [alive |-> TRUE, status |-> "starting", turn |-> 0, turns |-> 0]
  /\ troubles = 0
  /\ accepted = <<>> /\ dropped = {} /\ before = 0

Members(q) == {q[i] : i \in DOMAIN q}
InFlight == flight # NoFlight

\* A flush is over, and who awaits it has not gone on yet.
Awakened ==
  \/ stop = "flushed"
  \/ ~InFlight /\ (waiting \/ stop \in {"waits", "waitsLater"})

\* No continuation is due, so a timer, an event or a signal may be served.
Quiet == flight.answer = "none" /\ stop # "interrupted" /\ ~Awakened
-----------------------------------------------------------------------------
\* dispatchOnce needs a thread that is loaded, and a turn to steer if it is active.
Ready(s) == s.thread /\ s.status # "notLoaded" /\ (s.status = "active" => s.turn # 0)

\* turn/start, or turn/steer of the turn last seen.
Input(s, events, retry) ==
  [kind |-> IF s.status = "idle" THEN "start" ELSE "steer",
   turn |-> IF s.status = "idle" THEN 0 ELSE s.turn,
   events |-> events, retry |-> retry, answer |-> "none"]

Send(f) ==
  /\ flight' = f
  /\ stdin' = Append(stdin, [kind |-> f.kind, turn |-> f.turn, events |-> f.events])

\* dispatchOnce up to its await, with all the buffer, given what the adapter saw:
\* the events stay, are given up, or are on their way.
Dispatch(s) ==
  \/ /\ ~Ready(s)
     /\ UNCHANGED <<buffer, flight, stdin, dropped>>
  \/ /\ Ready(s) /\ (s.status = "systemError" \/ ~open)
     /\ buffer' = <<>> /\ dropped' = dropped \cup Members(buffer)
     /\ UNCHANGED <<flight, stdin>>
  \/ /\ Ready(s) /\ s.status # "systemError" /\ open
     /\ buffer' = <<>> /\ Send(Input(s, buffer, FALSE))
     /\ UNCHANGED dropped

Nothing == UNCHANGED <<buffer, flight, stdin, dropped>>

\* flush(), called by a timer or for a status.
Flush(s) ==
  /\ timer' = FALSE
  /\ waiting' = (waiting \/ (buffer # <<>> /\ InFlight))
  /\ IF buffer = <<>> \/ InFlight THEN Nothing ELSE Dispatch(s)

\* What an answer makes of its dispatch.  Mutant: events put back go behind
\* those that came meanwhile.
PutBackLast(events) == buffer' = buffer \o events
PutBack(events) == buffer' = events \o buffer

Taken ==
  /\ flight.answer = "ok"
  /\ UNCHANGED <<buffer, dropped>>

GivenUp ==
  /\ \/ flight.answer = "refused"
     \/ flight.answer = "race" /\ flight.retry
     \/ /\ flight.answer = "race" /\ seen.status # "notLoaded"
        /\ seen.status = "systemError" \/ ~Ready(seen) \/ ~open
  /\ dropped' = dropped \cup Members(flight.events)
  /\ UNCHANGED buffer

Unloaded ==
  /\ flight.answer = "race" /\ ~flight.retry /\ seen.status = "notLoaded"
  /\ PutBack(flight.events)
  /\ UNCHANGED dropped

\* dispatchOnce goes on and ends, and its flush with it.
Finish ==
  /\ Taken \/ GivenUp \/ Unloaded
  /\ flight' = NoFlight
  /\ stop' = IF stop = "owns" THEN "flushed" ELSE stop
  /\ UNCHANGED <<received, pendingArgs, timer, waiting, seen, stdin, stdout, open, codex,
                 troubles, accepted, before>>

\* The steer lost a race with the end of its turn: one more try.
Retry ==
  /\ flight.answer = "race" /\ ~flight.retry
  /\ Ready(seen) /\ seen.status # "systemError" /\ open
  /\ Send(Input(seen, flight.events, TRUE))
  /\ UNCHANGED <<received, pendingArgs, buffer, timer, waiting, seen, stdout, open, stop,
                 codex, troubles, accepted, dropped, before>>

\* A flush that awaited another one looks at the buffer again.
Resume ==
  /\ ~InFlight /\ waiting /\ stop # "waits"
  /\ waiting' = FALSE
  /\ IF buffer = <<>> THEN Nothing ELSE Dispatch(seen)
  /\ stop' = IF stop = "waitsLater" /\ flight' # NoFlight THEN "flushed" ELSE stop
  /\ UNCHANGED <<received, pendingArgs, timer, seen, stdout, open, codex, troubles,
                 accepted, before>>
-----------------------------------------------------------------------------
\* sinkWrapper.notification, and notification() of the sink once attached.
Receive ==
  /\ Quiet /\ received < MaxEvents
  /\ received' = received + 1
  /\ IF seen.thread
       THEN /\ buffer' = Append(buffer, received')
            /\ timer' = TRUE
            /\ UNCHANGED pendingArgs
       ELSE /\ pendingArgs' = Append(pendingArgs, received')
            /\ UNCHANGED <<buffer, timer>>
  /\ UNCHANGED <<flight, waiting, seen, stdin, stdout, open, stop, codex, troubles,
                 accepted, dropped, before>>

\* The timer of scheduleFlush.
Fire ==
  /\ Quiet /\ timer
  /\ Flush(seen)
  /\ UNCHANGED <<received, pendingArgs, seen, stdout, open, stop, codex, troubles,
                 accepted, before>>
-----------------------------------------------------------------------------
\* Lines of codex: what they are, and a status, a turn, or an answer.
Line(is, what) == [is |-> is, what |-> what]

\* The answer to thread/start, its status, and attachSink, which drains
\* pendingArgs into the empty buffer of the sink.
ReadLoaded(l) ==
  /\ l.is = "loaded"
  /\ seen' = [seen EXCEPT !.thread = TRUE, !.status = l.what]
  /\ buffer' = pendingArgs /\ pendingArgs' = <<>>
  /\ timer' = (pendingArgs # <<>>)
  /\ UNCHANGED <<flight, waiting, stdin, dropped, stop>>

\* applyStatus.  Mutant: the status is noted and nothing flushed.
NoteStatus(s) == Nothing /\ UNCHANGED <<timer, waiting>>
ApplyStatus(s) == IF s.status = "notLoaded" THEN NoteStatus(s) ELSE Flush(s)

ReadStatus(l) ==
  /\ l.is = "status"
  /\ seen' = [seen EXCEPT !.status = l.what]
  /\ ApplyStatus(seen')
  /\ UNCHANGED <<pendingArgs, stop>>

\* turn/started and turn/completed.
ReadTurn(l) ==
  /\ l.is = "turn"
  /\ seen' = [seen EXCEPT !.turn = l.what]
  /\ UNCHANGED <<sink, stdin, dropped, stop>>

\* handleResponse: who made the request goes on after this chunk.
ReadAnswer(l) ==
  /\ \/ /\ l.is = "answer"
        /\ flight' = [flight EXCEPT !.answer = l.what]
        /\ UNCHANGED stop
     \/ /\ l.is = "interrupted"
        /\ stop' = "interrupted"
        /\ UNCHANGED flight
  /\ UNCHANGED <<pendingArgs, buffer, timer, waiting, seen, stdin, dropped>>

Read ==
  /\ open /\ stdout # <<>> /\ ~Awakened
  /\ stdout' = Tail(stdout)
  /\ LET l == Head(stdout) IN ReadLoaded(l) \/ ReadStatus(l) \/ ReadTurn(l) \/ ReadAnswer(l)
  /\ UNCHANGED <<received, open, codex, troubles, accepted, before>>
-----------------------------------------------------------------------------
\* cleanup(): every request without an answer is rejected.  Mutant: none is.
RejectNone(f) == f
Rejected(f) == IF f # NoFlight /\ f.answer = "none" THEN [f EXCEPT !.answer = "refused"] ELSE f

Cleanup ==
  /\ open /\ open' = FALSE
  /\ flight' = Rejected(flight)
  /\ stop' = IF stop = "interrupting" THEN "interrupted" ELSE stop
  /\ UNCHANGED <<received, pendingArgs, buffer, timer, waiting, seen, stdin, stdout, codex,
                 troubles, accepted, dropped, before>>

\* stdout ends when codex is gone and its lines are read.
StdoutEnds == ~codex.alive /\ stdout = <<>> /\ ~Awakened /\ Cleanup

\* A write to a codex that is gone fails before its last lines are read: nobody
\* reads them any more.
StdinBreaks == ~codex.alive /\ stdin # <<>> /\ Quiet /\ Cleanup

\* teardown(), on a signal or an exit of codex once the sink is attached, or when
\* thread/start is refused: up to the await of its flush.  Mutant: none.
SkipFlush == Nothing /\ UNCHANGED timer /\ stop' = "flushed"
FinalFlush ==
  /\ timer' = FALSE
  /\ \/ /\ buffer = <<>>
        /\ Nothing /\ stop' = "flushed"
     \/ /\ buffer # <<>> /\ InFlight
        /\ Nothing /\ stop' = IF waiting THEN "waitsLater" ELSE "waits"
     \/ /\ buffer # <<>> /\ ~InFlight
        /\ Dispatch(seen) /\ stop' = IF flight' = NoFlight THEN "flushed" ELSE "owns"

Teardown ==
  /\ Quiet /\ stop = "no" /\ (seen.thread \/ ~open)
  /\ FinalFlush
  /\ before' = received
  /\ UNCHANGED <<received, pendingArgs, waiting, seen, stdout, open, codex, troubles, accepted>>

\* Its flush awaited another one, and is the first to look again, or the last.
ResumeFinal ==
  /\ ~InFlight /\ (stop = "waits" \/ (stop = "waitsLater" /\ ~waiting))
  /\ IF buffer = <<>> THEN Nothing ELSE Dispatch(seen)
  /\ stop' = IF flight' = NoFlight THEN "flushed" ELSE "owns"
  /\ UNCHANGED <<received, pendingArgs, timer, waiting, seen, stdout, open, codex, troubles,
                 accepted, before>>

\* turn/interrupt, if there is a turn; refused at once after the connection ended.
Interrupt ==
  /\ stop = "flushed" /\ seen.turn # 0
  /\ IF open
       THEN /\ stop' = "interrupting"
            /\ stdin' = Append(stdin, [kind |-> "interrupt", turn |-> seen.turn, events |-> <<>>])
       ELSE stop' = "interrupted" /\ UNCHANGED stdin
  /\ UNCHANGED <<received, sink, seen, stdout, open, codex, troubles, accepted, dropped, before>>

\* rpc.close() and SIGTERM, which codex may take its time to obey.
Close ==
  /\ stop = "interrupted" \/ (stop = "flushed" /\ seen.turn = 0)
  /\ stop' = "closed" /\ open' = FALSE
  /\ flight' = Rejected(flight)
  /\ UNCHANGED <<received, pendingArgs, buffer, timer, waiting, seen, stdin, stdout, codex,
                 troubles, accepted, dropped, before>>
-----------------------------------------------------------------------------
Says(lines) == stdout' = stdout \o lines

\* Two lines in either order.
SaysBoth(l, m) == Says(<<l, m>>) \/ Says(<<m, l>>)

\* A step of codex.
OfCodex == codex.alive /\ UNCHANGED <<received, sink, seen, open, stop, dropped, before>>

\* thread/start is answered.
Load ==
  /\ OfCodex
  /\ codex.status = "starting"
  /\ \E s \in {"notLoaded", "idle"} :
       codex' = [codex EXCEPT !.status = s] /\ Says(<<Line("loaded", s)>>)
  /\ UNCHANGED <<stdin, troubles, accepted>>

Take(events) == accepted' = accepted \o events
Refuse(why) == Says(<<Line("answer", why)>>) /\ UNCHANGED <<codex, accepted>>

\* turn/start: a turn begins, its answer, status and start in some order.
Begin(r) ==
  /\ r.kind = "start" /\ codex.status = "idle"
  /\ codex' = [codex EXCEPT !.status = "active", !.turn = codex.turns + 1, !.turns = @ + 1]
  /\ Take(r.events)
  /\ LET a == Line("answer", "ok")
         s == Line("status", "active")
         t == Line("turn", codex.turns + 1) IN
       \/ Says(<<a, s, t>>) \/ Says(<<a, t, s>>) \/ Says(<<s, a, t>>)
       \/ Says(<<s, t, a>>) \/ Says(<<t, a, s>>) \/ Says(<<t, s, a>>)

\* One while a turn is active may join it.
Join(r) ==
  /\ \/ r.kind = "start" /\ codex.status = "active"
     \/ r.kind = "steer" /\ codex.status = "active" /\ codex.turn = r.turn
  /\ Take(r.events)
  /\ Says(<<Line("answer", "ok")>>)
  /\ UNCHANGED codex

Misfit(r) ==
  \/ r.kind = "start" /\ codex.status # "idle" /\ Refuse("refused")
  \/ r.kind = "steer" /\ (codex.status # "active" \/ codex.turn # r.turn) /\ Refuse("race")

Stop(r) ==
  /\ r.kind = "interrupt"
  /\ codex' = [codex EXCEPT !.status = IF @ = "active" THEN "idle" ELSE @, !.turn = 0]
  /\ IF codex.status = "active"
       THEN Says(<<Line("interrupted", ""), Line("turn", 0), Line("status", "idle")>>)
       ELSE Says(<<Line("interrupted", "")>>)
  /\ UNCHANGED accepted

Handle ==
  /\ OfCodex
  /\ stdin # <<>> /\ stdin' = Tail(stdin)
  /\ LET r == Head(stdin) IN Begin(r) \/ Join(r) \/ Misfit(r) \/ Stop(r)
  /\ UNCHANGED troubles

EndTurn ==
  /\ OfCodex
  /\ codex.status = "active"
  /\ codex' = [codex EXCEPT !.status = "idle", !.turn = 0]
  /\ SaysBoth(Line("turn", 0), Line("status", "idle"))
  /\ UNCHANGED <<stdin, troubles, accepted>>

\* A turn lost with its thread may never be completed.
Stumble ==
  /\ OfCodex
  /\ codex.status \in {"idle", "active"}
  /\ troubles < MaxTroubles /\ troubles' = troubles + 1
  /\ \E s \in {"notLoaded", "systemError"} :
       /\ codex' = [codex EXCEPT !.status = s, !.turn = 0]
       /\ \/ Says(<<Line("status", s)>>)
          \/ codex.turn # 0 /\ SaysBoth(Line("turn", 0), Line("status", s))
  /\ UNCHANGED <<stdin, accepted>>

Recover ==
  /\ OfCodex
  /\ codex.status \in {"notLoaded", "systemError"}
  /\ codex' = [codex EXCEPT !.status = "idle"]
  /\ Says(<<Line("status", "idle")>>)
  /\ UNCHANGED <<stdin, troubles, accepted>>

Exit ==
  /\ OfCodex
  /\ codex' = [codex EXCEPT !.alive = FALSE]
  /\ UNCHANGED <<stdin, stdout, troubles, accepted>>

Codex == Load \/ Handle \/ EndTurn \/ Stumble \/ Recover \/ Exit

Next ==
  \/ Receive \/ Fire \/ Read \/ Finish \/ Retry \/ Resume
  \/ StdoutEnds \/ StdinBreaks \/ Teardown \/ ResumeFinal \/ Interrupt \/ Close
  \/ Codex

\* The process runs what is due.  codex answers, ends its turns and loads its
\* thread, unless it exits, and then the command tears down.
Fairness ==
  /\ WF_vars(Fire) /\ WF_vars(Read) /\ WF_vars(Finish) /\ WF_vars(Retry) /\ WF_vars(Resume)
  /\ WF_vars(StdoutEnds) /\ WF_vars(~codex.alive /\ Teardown)
  /\ WF_vars(ResumeFinal) /\ WF_vars(Interrupt) /\ WF_vars(Close)
  /\ WF_vars(Load) /\ WF_vars(Handle) /\ WF_vars(EndTurn) /\ WF_vars(Recover)

Spec == Init /\ [][Next]_vars
FairSpec == Spec /\ Fairness
-----------------------------------------------------------------------------
\* codex takes the events in the order of the stream, and none twice, whatever
\* was put back, retried, refused or raced with the end of a turn.
TakenInOrder ==
  \A i, j \in DOMAIN accepted : i < j => accepted[i] < accepted[j]

(***************************************************************************)
(* flushNow() of the teardown: once the connection is closed and what was  *)
(* under way is settled, an event that came before the teardown was taken  *)
(* or given up with a line in the log.  Only a thread that is not there,   *)
(* not loaded, or active with its turn not yet known, leaves events to go  *)
(* down with the sink in silence.                                          *)
(***************************************************************************)
FlushedAtTheEnd ==
  stop = "closed" /\ Quiet /\ ~InFlight =>
    \A e \in 1..before :
      \/ e \in Members(accepted) \cup dropped
      \/ e \in Members(buffer) \cup Members(pendingArgs) /\ ~Ready(seen)

Settled(e) == e \in Members(accepted) \cup dropped \/ stop # "no"

\* Every event is taken by codex or given up, or the runner stops: none waits
\* for ever in a buffer that no timer and no change of status will look at.
EventsSettle == \A e \in Events : received >= e ~> Settled(e)

\* A teardown ends, also if codex exits with a request open.
TeardownEnds == stop # "no" ~> stop = "closed"
=============================================================================
