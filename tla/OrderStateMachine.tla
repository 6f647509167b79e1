------------------------- MODULE OrderStateMachine -------------------------
(***************************************************************************)
(* The order status state machine of execution/state_machine.rs: the only  *)
(* owner of lifecycle transitions.  It keeps one status per registered     *)
(* order and the list of the transition events it emitted.  An event's     *)
(* reason and timestamp are left out: nothing here depends on them.        *)
(***************************************************************************)
EXTENDS Orders, Sequences

VARIABLES
  statuses,   \* [ClientIds -> status, or "Unregistered" when the map has no entry]
  history     \* [ClientIds -> the transition events emitted, oldest first]

machineVars == <<statuses, history>>

\* A table in which an order fills only step by step (mutant).
TransitionsGradual(from) ==
  CASE from = "Pending" -> {"Submitted", "Rejected", "Cancelled", "Unknown"}
    [] from = "Submitted" -> {"PartiallyFilled", "Cancelled", "Rejected", "Unknown"}
    [] from = "PartiallyFilled" -> {"PartiallyFilled", "Filled", "Cancelled", "Unknown"}
    [] OTHER -> {}

\* The transition table: where a status may move to.
Transitions(from) ==
  CASE from = "Pending" -> {"Submitted", "Rejected", "Cancelled", "Unknown"}
    [] from = "Submitted" ->
         {"PartiallyFilled", "Filled", "Cancelled", "Rejected", "Unknown"}
    [] from = "PartiallyFilled" ->
         {"PartiallyFilled", "Filled", "Cancelled", "Unknown"}
    [] from = "Unknown" ->
         {"Submitted", "PartiallyFilled", "Filled", "Cancelled", "Rejected"}
    [] OTHER -> {}

UnknownEntryAllowedFrom(status) == status \in {"Pending", "Submitted"}

Registered(id) == statuses[id] # "Unregistered"

MachineInit ==
  /\ statuses = [id \in ClientIds |-> "Unregistered"]
  /\ history = [id \in ClientIds |-> <<>>]

\* register(): an id already known is refused (the caller's error path).
Register(id, status) ==
  /\ ~Registered(id)
  /\ statuses' = [statuses EXCEPT ![id] = status]
  /\ UNCHANGED history

\* A transition that forgets its audit event (mutant).
TransitionUnrecorded(id, to) ==
  /\ to \in Transitions(statuses[id])
  /\ statuses' = [statuses EXCEPT ![id] = to]
  /\ UNCHANGED history

\* transition(): exactly one event per legal move; an illegal one changes
\* nothing.  ReportsAreLegalSteps (TradingRuntime) shows that no caller
\* attempts an illegal one.
Transition(id, to) ==
  /\ to \in Transitions(statuses[id])
  /\ statuses' = [statuses EXCEPT ![id] = to]
  /\ history' = [history EXCEPT ![id] = Append(@, [from |-> statuses[id], to |-> to])]

\* mark_unknown(): the path of a timed-out or garbled submission answer.
MarkUnknown(id) ==
  /\ UnknownEntryAllowedFrom(statuses[id])
  /\ Transition(id, "Unknown")

-----------------------------------------------------------------------------
Events == [from : Statuses, to : Statuses]

MachineTypeOK ==
  /\ statuses \in [ClientIds -> Statuses \cup {"Unregistered"}]
  /\ history \in [ClientIds -> Seq(Events)]

\* The audit trail replays the order's life: every event is a row of the
\* transition table, each starts where the one before ended, and the last
\* one ends at the current status ("every legal transition emits exactly
\* one event", state_machine.rs:1-7).  A caller that moved a status without
\* its event, or emitted one twice, breaks the chain.
AuditTrail ==
  \A id \in ClientIds :
    /\ \A k \in 1 .. Len(history[id]) :
         history[id][k].to \in Transitions(history[id][k].from)
    /\ \A k \in 2 .. Len(history[id]) :
         history[id][k].from = history[id][k - 1].to
    /\ history[id] # <<>> => history[id][Len(history[id])].to = statuses[id]
    /\ history[id] = <<>> => statuses[id] \in {"Unregistered", "Pending", "Unknown"}
=============================================================================
