----------------------------- MODULE Enrollment -----------------------------
(***************************************************************************)
(* Device-code enrollment on top of the roster: the store of pending rows  *)
(* (apps/server/src/enrollments.ts), the handlers that mint, poll, approve *)
(* and reject (app.ts, 2412-2771), and the device that polls               *)
(* (packages/cli/src/commands/connect.ts).                                 *)
(*                                                                         *)
(* An approval issues a token and leaves it in the row; the device's next  *)
(* poll takes it and consumes the row.  Nothing but a poll of that device  *)
(* or a boot deletes a row.                                                *)
(***************************************************************************)
EXTENDS Roster

CONSTANTS
  Codes,      \* enrollments: a device code and its user code
  MaxLosses   \* bound: poll answers lost on the way

ASSUME LossAssumption == MaxLosses \in Nat

VARIABLES
  rows,      \* table pending_enrollments: code -> row
  late,      \* codes past their expires_at
  device,    \* code -> what its `ac7 connect` is doing
  held,      \* code -> the token its device saved, or 0
  issuedFor, \* history: token -> code it was issued for
  verdicts,  \* history: code -> approvals and rejections that took effect
  handouts,  \* history: code -> answers that carried the token
  strays,    \* history: tokens a crash or a failed poll left behind
  losses

enrollVars == <<rows, late, device, held, issuedFor, verdicts, handouts, strays, losses>>
vars == <<members, presets, tokens, minted, waiting, up, era, slips, torn, edits, crashes,
          rows, late, device, held, issuedFor, verdicts, handouts, strays, losses>>

Row(status, n, t) == [status |-> status, member |-> n, token |-> t]
PendingRow == Row("pending", Nobody, 0)

Over == {"connected", "expired", "denied", "left"}

EnrollTypeOK ==
  /\ TypeOK
  /\ DOMAIN rows \subseteq Codes
  /\ \A code \in DOMAIN rows :
       rows[code] \in [status : {"pending", "approved", "rejected"},
                       member : Names \cup {Nobody}, token : 0..minted]
  /\ late \subseteq Codes
  /\ device \in [Codes -> {"idle", "polling"} \cup Over]
  /\ held \in [Codes -> 0..minted]
  /\ \A code \in Codes : held[code] # 0 <=> device[code] = "connected"
  /\ DOMAIN issuedFor \subseteq 1..minted
  /\ \A t \in DOMAIN issuedFor : issuedFor[t] \in Codes
  /\ verdicts \in [Codes -> Nat] /\ handouts \in [Codes -> Nat]
  /\ strays \subseteq 1..minted
  /\ losses \in 0..MaxLosses

Init ==
  /\ RosterInit
  /\ rows = Empty /\ late = {}
  /\ device = [code \in Codes |-> "idle"]
  /\ held = [code \in Codes |-> 0]
  /\ issuedFor = Empty
  /\ verdicts = [code \in Codes |-> 0]
  /\ handouts = [code \in Codes |-> 0]
  /\ strays = {}
  /\ losses = 0

-----------------------------------------------------------------------------
(* The director. *)

ActionableUnlessRejected(code) ==                                      \* mutant
  code \in DOMAIN rows /\ rows[code].status # "approved" /\ code \notin late

\* lookupByUserCode answers "pending".
Actionable(code) == code \in DOMAIN rows /\ rows[code].status = "pending" /\ code \notin late

Settle(code, row) ==
  /\ rows' = [rows EXCEPT ![code] = row]
  /\ verdicts' = [verdicts EXCEPT ![code] = @ + 1]

\* The member an approval binds: one there is, or a new one.
Bind(n) == Readable(n) /\ UNCHANGED <<members, era, edits>>
Recruit(n, raw) == Edit /\ Join(n, raw)

Approve(c, code, n) ==
  /\ Served(c, "approve")
  /\ Actionable(code)
  /\ Bind(n) \/ \E raw \in Raws : Recruit(n, raw)
  /\ Issue(tokens, n, era'[n], "enroll")
  /\ issuedFor' = With(issuedFor, minted + 1, code)
  /\ Settle(code, Row("approved", n, minted + 1))
  /\ UNCHANGED <<presets, up, slips, torn, crashes, late, device, held, handouts, strays,
                 losses>>

\* A crash after addMember, or after tokens.insert: the row stays pending.
ApproveCut(c, code, n) ==
  /\ up /\ c \in DOMAIN waiting /\ waiting[c].op = "approve"
  /\ Actionable(code)
  /\ \/ /\ \E raw \in Raws : Recruit(n, raw)
        /\ UNCHANGED <<tokens, minted, issuedFor, strays>>
     \/ /\ Bind(n) \/ \E raw \in Raws : Recruit(n, raw)
        /\ Issue(tokens, n, era'[n], "enroll")
        /\ issuedFor' = With(issuedFor, minted + 1, code)
        /\ strays' = strays \cup {minted + 1}
  /\ Die
  /\ UNCHANGED <<presets, slips, torn, rows, late, device, held, verdicts, handouts, losses>>

\* UPDATE ... WHERE status = 'pending', late or not
Reject(c, code) ==
  /\ Served(c, "reject")
  /\ code \in DOMAIN rows /\ rows[code].status = "pending"
  /\ Settle(code, Row("rejected", Nobody, 0))
  /\ UNCHANGED <<members, presets, tokens, minted, up, era, slips, torn, edits, crashes,
                 late, device, held, issuedFor, handouts, strays, losses>>

-----------------------------------------------------------------------------
(* The device. *)

Mint(code) ==
  /\ up
  /\ device[code] = "idle"
  /\ rows' = With(rows, code, PendingRow)
  /\ device' = [device EXCEPT ![code] = "polling"]
  /\ UNCHANGED <<rosterVars, late, held, issuedFor, verdicts, handouts, strays, losses>>

\* The answer reaches the device, or it polls again.
Answered(code, outcome, token) ==
  \/ /\ device' = [device EXCEPT ![code] = outcome]
     /\ held' = [held EXCEPT ![code] = token]
     /\ UNCHANGED losses
  \/ /\ losses < MaxLosses /\ losses' = losses + 1
     /\ UNCHANGED <<device, held>>

Polling(code) == up /\ device[code] = "polling"

\* pollByDeviceCode: no row, or one past its time.
PollExpired(code) ==
  /\ Polling(code)
  /\ code \in DOMAIN rows => code \in late
  /\ rows' = Without(rows, {code})
  /\ Answered(code, "expired", 0)
  /\ UNCHANGED <<rosterVars, late, issuedFor, verdicts, handouts, strays>>

PollRejected(code) ==
  /\ Polling(code)
  /\ code \in DOMAIN rows \ late /\ rows[code].status = "rejected"
  /\ rows' = Without(rows, {code})
  /\ Answered(code, "denied", 0)
  /\ UNCHANGED <<rosterVars, late, issuedFor, verdicts, handouts, strays>>

Consumed(code) ==
  /\ Polling(code)
  /\ code \in DOMAIN rows \ late /\ rows[code].status = "approved"
  /\ rows' = Without(rows, {code})

PollAndKeepTheRow(code) ==                                             \* mutant
  /\ Polling(code)
  /\ code \in DOMAIN rows \ late /\ rows[code].status = "approved"
  /\ Readable(rows[code].member)
  /\ Answered(code, "connected", rows[code].token)
  /\ rows' = IF losses' = losses THEN Without(rows, {code}) ELSE rows
  /\ handouts' = [handouts EXCEPT ![code] = @ + 1]
  /\ UNCHANGED <<rosterVars, late, issuedFor, verdicts, strays>>

PollApproved(code) ==
  /\ Consumed(code)
  /\ Readable(rows[code].member)
  /\ Answered(code, "connected", rows[code].token)
  /\ handouts' = [handouts EXCEPT ![code] = @ + 1]
  /\ UNCHANGED <<rosterVars, late, issuedFor, verdicts, strays>>

\* The member was deleted since: the token goes too.
PollOrphaned(code) ==
  /\ Consumed(code)
  /\ rows[code].member \notin DOMAIN members
  /\ tokens' = Without(tokens, {rows[code].token})
  /\ Answered(code, "expired", 0)
  /\ UNCHANGED <<members, presets, minted, waiting, up, era, slips, torn, edits, crashes,
                 late, issuedFor, verdicts, handouts, strays>>

\* findByName throws after the row is consumed: status 500, and the device
\* polls again.
PollThrown(code) ==
  /\ Consumed(code)
  /\ rows[code].member \in DOMAIN members /\ ~Readable(rows[code].member)
  /\ strays' = strays \cup {rows[code].token}
  /\ UNCHANGED <<rosterVars, late, device, held, issuedFor, verdicts, handouts, losses>>

Poll(code) ==
  \/ PollExpired(code) \/ PollRejected(code)
  \/ PollApproved(code) \/ PollOrphaned(code) \/ PollThrown(code)

GiveUpOnAnswer(code) ==                                                \* mutant
  /\ Polling(code) /\ code \in late
  /\ device' = [device EXCEPT ![code] = "expired"]
  /\ UNCHANGED <<rosterVars, rows, late, held, issuedFor, verdicts, handouts, strays, losses>>

\* The deadline of the polling loop, counted from the answer to the mint.
GiveUp(code) ==
  /\ device[code] = "polling" /\ code \in late
  /\ device' = [device EXCEPT ![code] = "expired"]
  /\ UNCHANGED <<rosterVars, rows, late, held, issuedFor, verdicts, handouts, strays, losses>>

\* Ctrl-C
Leave(code) ==
  /\ device[code] = "polling"
  /\ device' = [device EXCEPT ![code] = "left"]
  /\ UNCHANGED <<rosterVars, rows, late, held, issuedFor, verdicts, handouts, strays, losses>>

-----------------------------------------------------------------------------
(* Time and the process. *)

Expire(code) ==
  /\ device[code] # "idle" /\ code \notin late
  /\ late' = late \cup {code}
  /\ UNCHANGED <<rosterVars, rows, device, held, issuedFor, verdicts, handouts, strays,
                 losses>>

PurgeSettled == {code \in DOMAIN rows : rows[code].status # "pending"} \* mutant

\* purgeExpired, at boot and at no other time
Purged == DOMAIN rows \cap late

Restart ==
  /\ Boot
  /\ rows' = Without(rows, Purged)
  /\ UNCHANGED <<late, device, held, issuedFor, verdicts, handouts, strays, losses>>

Next ==
  \/ RosterStep /\ UNCHANGED enrollVars
  \/ Restart
  \/ \E c \in Conns :
       \/ (Begin(c, "approve", "members.manage") \/ Begin(c, "reject", "members.manage"))
            /\ UNCHANGED enrollVars
       \/ \E code \in Codes, n \in Names : Approve(c, code, n) \/ ApproveCut(c, code, n)
       \/ \E code \in Codes : Reject(c, code)
  \/ \E code \in Codes :
       \/ Mint(code) \/ Poll(code) \/ GiveUp(code) \/ Leave(code) \/ Expire(code)

\* Time passes, and a device that has not ended keeps its own deadline; the
\* broker need not come back.
Spec ==
  /\ Init /\ [][Next]_vars
  /\ \A code \in Codes : WF_vars(Expire(code)) /\ WF_vars(GiveUp(code))

-----------------------------------------------------------------------------
(* Properties. *)

\* An enrollment is decided once, by one approval or one rejection, whoever
\* else is deciding it (enrollments.ts:326-346, app.ts:2629-2640).
DecidedOnce == \A code \in Codes : verdicts[code] <= 1

\* The plaintext leaves the broker at most once, whatever becomes of the
\* answer, and a device that holds a token holds the one issued for it
\* (enrollments.ts:457-516).
HandedOutOnce ==
  \A code \in Codes :
    /\ handouts[code] <= 1
    /\ held[code] # 0 => handouts[code] = 1 /\ issuedFor[held[code]] = code

\* Until its enrollment expires, an active enrollment token is waiting in its
\* row or has been handed out: none is left that nobody can ever hold, unless
\* a crash or a failed poll left it (app.ts:2699-2727).
TokensAccountedFor ==
  \A t \in DOMAIN tokens \cap DOMAIN issuedFor :
    LET code == issuedFor[t]
    IN \/ code \in DOMAIN rows /\ rows[code].token = t
       \/ handouts[code] = 1
       \/ code \in late \/ t \in strays

\* Every `ac7 connect` ends, even when the broker dies on it
\* (connect.ts:194-274).
EveryDeviceStops == \A code \in Codes : device[code] = "polling" ~> device[code] \in Over
=============================================================================
