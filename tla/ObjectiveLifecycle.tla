------------------------- MODULE ObjectiveLifecycle -------------------------
(***************************************************************************)
(* What the objectives service promises, with no requests, no log and no   *)
(* pushes: "Four-state lifecycle ... done and cancelled are terminal;      *)
(* active <-> blocked is the only back-and-forth" (objectives.ts:13-17),   *)
(* one assignee at a time, changed only while the objective is open.       *)
(***************************************************************************)
CONSTANTS Ids, Members, Nobody

VARIABLES status, assignee

lifecycle == <<status, assignee>>

IsOpen(o) == status[o] \in {"active", "blocked"}

Init ==
  /\ status = [o \in Ids |-> "absent"]
  /\ assignee = [o \in Ids |-> Nobody]

Assign(o, m) ==
  /\ status[o] = "absent"
  /\ status' = [status EXCEPT ![o] = "active"]
  /\ assignee' = [assignee EXCEPT ![o] = m]

Move(o, from, to) ==
  /\ status[o] \in from
  /\ status' = [status EXCEPT ![o] = to]
  /\ UNCHANGED assignee

HandOver(o, m) ==
  /\ IsOpen(o)
  /\ m # assignee[o]
  /\ assignee' = [assignee EXCEPT ![o] = m]
  /\ UNCHANGED status

Next ==
  \E o \in Ids :
    \/ \E m \in Members : Assign(o, m) \/ HandOver(o, m)
    \/ Move(o, {"active"}, "blocked")
    \/ Move(o, {"blocked"}, "active")
    \/ Move(o, {"active", "blocked"}, "done")
    \/ Move(o, {"active", "blocked"}, "cancelled")

Spec == Init /\ [][Next]_lifecycle

\* An ended objective never comes back and never changes hands.
EndingsAreFinal ==
  [][\A o \in Ids : status[o] \in {"done", "cancelled"} =>
       status'[o] = status[o] /\ assignee'[o] = assignee[o]]_lifecycle
=============================================================================
