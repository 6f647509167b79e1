--------------------------- MODULE TradingRuntime ---------------------------
(***************************************************************************)
(* One process's trading runtime (runtime/mod.rs) with its gateway and     *)
(* reconciler (execution/gateway.rs), state machine, risk gate (risk.rs)   *)
(* and portfolio, against a venue that moves on its own.                   *)
(*                                                                         *)
(* The runtime is one task: a cycle decides, submits order by order, then  *)
(* synchronises every open order.  What interleaves with it, at each await *)
(* of a broker call, is the venue, and the operator's kill switch (another *)
(* task, runtime/server.rs).  A broker lookup is one step: between the     *)
(* venue's answer and its use only venue and kill switch can move, and     *)
(* neither reads or writes what the runtime does with the answer.          *)
(*                                                                         *)
(* Left out: prices (and with them notional, exposure and loss limits,     *)
(* whose rejections are SkipIntent), quotes and history (MarketData).      *)
(***************************************************************************)
EXTENDS OrderStateMachine, BrokerVenue

CONSTANT MaxPosition    \* RiskLimits.max_position_quantity

ASSUME MaxPositionAssumption == MaxPosition \in Nat

VARIABLES
  pc,            \* where the task is in its cycle
  order,         \* the order being checked or submitted, or None
  orderSeq,      \* order_seq: the last id drawn
  brokerIds,     \* OrderGateway.broker_ids
  openLocal,     \* open_local: submitted and not yet settled orders
  syncTodo,      \* the ids sync_all still has to visit
  closing,       \* the ids whose terminal status sync_execution just learnt
  portfolio,     \* [Symbols -> shares held locally]
  killActive,    \* the kill switch
  life,          \* this process's incarnation (RuntimeRecovery changes it)
  sentUnderKill, \* history variable: orders sent since the switch went on
  booked         \* history variable: [BrokerIds -> shares of it in portfolio]

cycleVars == <<pc, order, orderSeq>>
idVars == <<brokerIds, openLocal>>
syncVars == <<syncTodo, closing>>
bookVars == <<portfolio, booked>>
killVars == <<killActive, sentUnderKill>>
vars == <<machineVars, venueVars, cycleVars, idVars, syncVars, bookVars, killVars, life>>

RuntimeInit ==
  /\ pc = "idle"
  /\ order = None
  /\ orderSeq = 0
  /\ brokerIds = [id \in ClientIds |-> None]
  /\ openLocal = [id \in ClientIds |-> None]
  /\ syncTodo = {}
  /\ closing = {}
  /\ portfolio = [s \in Symbols |-> 0]
  /\ life = 0
  /\ sentUnderKill = 0
  /\ booked = [b \in BrokerIds |-> 0]

Init == MachineInit /\ VenueInit /\ RuntimeInit /\ killActive = FALSE

Open(map) == {id \in ClientIds : map[id] # None}

-----------------------------------------------------------------------------
(* The decision pass: run_decision_cycle.                                  *)

\* A quote arrived and the loop starts a cycle.
Tick ==
  /\ pc = "idle"
  /\ pc' = "deciding"
  /\ UNCHANGED <<machineVars, venueVars, order, orderSeq, idVars, syncVars,
                 bookVars, killVars, life>>

\* check_order without the kill switch (mutant).
RiskAllowsUnswitched(o) ==
  o.side = "Buy" => portfolio[o.symbol] + o.qty <= MaxPosition

\* check_order: the kill switch first, then the per-symbol cap, for buys.
RiskAllows(o) ==
  /\ ~killActive
  /\ o.side = "Buy" => portfolio[o.symbol] + o.qty <= MaxPosition

\* An intent that is malformed or that a risk check refuses: its sequence
\* number is spent all the same.
SkipIntent ==
  /\ pc = "deciding"
  /\ orderSeq < MaxOrders
  /\ orderSeq' = orderSeq + 1
  /\ UNCHANGED <<machineVars, venueVars, pc, order, idVars, syncVars,
                 bookVars, killVars, life>>

\* The sequence is advanced only once the broker has acked (mutant).
PassRiskSameSeq(s, side, q) ==
  LET o == [client |-> orderSeq + 1, life |-> life, symbol |-> s, side |-> side, qty |-> q]
  IN
  /\ pc = "deciding"
  /\ orderSeq < MaxOrders
  /\ RiskAllows(o)
  /\ order' = o
  /\ pc' = "checked"
  /\ UNCHANGED <<machineVars, venueVars, orderSeq, idVars, syncVars, bookVars,
                 killVars, life>>

\* The strategy wants a trade, new_order gives it the next id, and it passes
\* the risk check.
PassRisk(s, side, q) ==
  LET o == [client |-> orderSeq + 1, life |-> life, symbol |-> s, side |-> side, qty |-> q]
  IN
  /\ pc = "deciding"
  /\ orderSeq < MaxOrders
  /\ orderSeq' = orderSeq + 1
  /\ RiskAllows(o)
  /\ order' = o
  /\ pc' = "checked"
  /\ UNCHANGED <<machineVars, venueVars, idVars, syncVars, bookVars, killVars,
                 life>>

\* submit() checks both the gateway's map and the state machine.
AlreadyUsed(id) == brokerIds[id] # None \/ Registered(id)

\* submit(), up to the await: the order is registered at Pending and the
\* request leaves.
Submit ==
  /\ pc = "checked"
  /\ ~AlreadyUsed(order.client)
  /\ Register(order.client, "Pending")
  /\ wire' = wire \cup {order}
  /\ pc' = "awaiting"
  /\ sentUnderKill' = IF killActive THEN sentUnderKill + 1 ELSE sentUnderKill
  /\ UNCHANGED <<venue, replies, holding, order, orderSeq, idVars, syncVars,
                 bookVars, killActive, life>>

\* submit() refuses an id the gateway or the machine has seen.  A process that
\* has recovered nothing never draws such an id (IdsAreFresh, proved in
\* TradingRuntimeProofs), so this is a step of RuntimeRecovery only.
RefuseDuplicate ==
  /\ pc = "checked"
  /\ AlreadyUsed(order.client)
  /\ pc' = "deciding"
  /\ order' = None
  /\ UNCHANGED <<machineVars, venueVars, orderSeq, idVars, syncVars, bookVars,
                 killVars, life>>

\* An acked order that the runtime forgets to track (mutant).
ReceiveAckUntracked(b) ==
  /\ pc = "awaiting"
  /\ b # None
  /\ Reply(order, b) \in replies
  /\ Transition(order.client, "Submitted")
  /\ brokerIds' = [brokerIds EXCEPT ![order.client] = b]
  /\ pc' = "deciding"
  /\ order' = None
  /\ UNCHANGED <<venueVars, orderSeq, openLocal, syncVars, bookVars, killVars, life>>

\* submit() resumes with an ack: Submitted, and the pair enters both the
\* gateway's map and the runtime's open set.
ReceiveAck(b) ==
  /\ pc = "awaiting"
  /\ b # None
  /\ Reply(order, b) \in replies
  /\ Transition(order.client, "Submitted")
  /\ brokerIds' = [brokerIds EXCEPT ![order.client] = b]
  /\ openLocal' = [openLocal EXCEPT ![order.client] = b]
  /\ pc' = "deciding"
  /\ order' = None
  /\ UNCHANGED <<venueVars, orderSeq, syncVars, bookVars, killVars, life>>

\* submit() resumes with BrokerError::Rejected.
ReceiveRejection ==
  /\ pc = "awaiting"
  /\ Reply(order, None) \in replies
  /\ Transition(order.client, "Rejected")
  /\ pc' = "deciding"
  /\ order' = None
  /\ UNCHANGED <<venueVars, orderSeq, idVars, syncVars, bookVars, killVars,
                 life>>

\* Every failure treated as a rejection (mutant).
AnswerLostAsRejection ==
  /\ pc = "awaiting"
  /\ Transition(order.client, "Rejected")
  /\ pc' = "deciding"
  /\ order' = None
  /\ UNCHANGED <<venueVars, orderSeq, idVars, syncVars, bookVars, killVars,
                 life>>

\* A lost answer retried by sending the request again (mutant).
AnswerLostResent ==
  /\ pc = "awaiting"
  /\ wire' = wire \cup {order}
  /\ UNCHANGED <<machineVars, venue, replies, holding, cycleVars, idVars, syncVars,
                 bookVars, killVars, life>>

\* submit() resumes with any other error (timeout, transport, garbled): the
\* order may or may not be at the venue.
AnswerLost ==
  /\ pc = "awaiting"
  /\ MarkUnknown(order.client)
  /\ pc' = "deciding"
  /\ order' = None
  /\ UNCHANGED <<venueVars, orderSeq, idVars, syncVars, bookVars, killVars,
                 life>>

-----------------------------------------------------------------------------
(* The synchronisation pass: sync_all, sync_execution, apply_fills.        *)

\* The intents are done; sync_all takes the keys of the open set.
BeginSync ==
  /\ pc = "deciding"
  /\ pc' = "syncing"
  /\ syncTodo' = Open(openLocal)
  /\ UNCHANGED <<machineVars, venueVars, order, orderSeq, idVars, closing,
                 bookVars, killVars, life>>

\* A storage error of the loop between the two passes ends the cycle.
AbortCycle ==
  /\ pc = "deciding"
  /\ pc' = "idle"
  /\ UNCHANGED <<machineVars, venueVars, order, orderSeq, idVars, syncVars,
                 bookVars, killVars, life>>

\* target_status with the test of "open" forgotten (mutant).
TargetStatusUnclosed(v) ==
  IF v.filled > 0 THEN "Filled" ELSE IF v.open THEN "Submitted" ELSE "Cancelled"

\* target_status: the status the venue's report stands for.
TargetStatus(v) ==
  IF ~v.open /\ v.filled >= v.qty THEN "Filled"
  ELSE IF ~v.open THEN "Cancelled"
  ELSE IF v.filled > 0 THEN "PartiallyFilled" ELSE "Submitted"

\* sync_execution up to its second await: the report's status is taken over,
\* and a terminal one is about to be closed.
SyncReport(id) ==
  LET target == TargetStatus(venue[openLocal[id]])
  IN
  /\ pc = "syncing" /\ closing = {} /\ id \in syncTodo
  /\ IF target = statuses[id] THEN UNCHANGED machineVars ELSE Transition(id, target)
  /\ syncTodo' = syncTodo \ {id}
  /\ closing' = IF target \in Terminal THEN {id} ELSE {}
  /\ UNCHANGED <<venueVars, cycleVars, idVars, bookVars, killVars, life>>

\* The lookup failed: the order keeps its status until the next cycle.
SyncLookupFails(id) ==
  /\ pc = "syncing" /\ closing = {} /\ id \in syncTodo
  /\ syncTodo' = syncTodo \ {id}
  /\ UNCHANGED <<machineVars, venueVars, cycleVars, idVars, closing, bookVars,
                 killVars, life>>

\* Portfolio::apply_fill without its check of the shares held (mutant).
CanApplyUnchecked(v) == v.filled > 0

\* Portfolio::apply_fill: a sell of more than is held is refused.
CanApply(v) == v.side = "Sell" => portfolio[v.symbol] >= v.filled

Applied(v) ==
  [portfolio EXCEPT ![v.symbol] = IF v.side = "Buy" THEN @ + v.filled ELSE @ - v.filled]

\* The order stays in the open set after its fills are applied (mutant).
ApplyFillsKeepOpen(id) ==
  LET b == openLocal[id] v == venue[openLocal[id]]
  IN
  /\ id \in closing
  /\ IF statuses[id] = "Filled" /\ v.filled > 0 /\ CanApply(v)
       THEN /\ portfolio' = Applied(v)
            /\ booked' = [booked EXCEPT ![b] = @ + v.filled]
       ELSE UNCHANGED bookVars
  /\ closing' = {}
  /\ UNCHANGED <<machineVars, venueVars, cycleVars, idVars, syncTodo,
                 killVars, life>>

\* apply_fills with a second lookup, then open_local.remove: only a Filled
\* order's shares reach the portfolio.
ApplyFills(id) ==
  LET b == openLocal[id] v == venue[openLocal[id]]
  IN
  /\ id \in closing
  /\ IF statuses[id] = "Filled" /\ v.filled > 0 /\ CanApply(v)
       THEN /\ portfolio' = Applied(v)
            /\ booked' = [booked EXCEPT ![b] = @ + v.filled]
       ELSE UNCHANGED bookVars
  /\ openLocal' = [openLocal EXCEPT ![id] = None]
  /\ closing' = {}
  /\ UNCHANGED <<machineVars, venueVars, cycleVars, brokerIds, syncTodo,
                 killVars, life>>

\* The second lookup failed, or its report names no price: apply_fills returns
\* early, and the order leaves the open set all the same.
ApplyFillsLookupFails(id) ==
  /\ id \in closing
  /\ openLocal' = [openLocal EXCEPT ![id] = None]
  /\ closing' = {}
  /\ UNCHANGED <<machineVars, venueVars, cycleVars, brokerIds, syncTodo,
                 bookVars, killVars, life>>

EndSync ==
  /\ pc = "syncing" /\ closing = {} /\ syncTodo = {}
  /\ pc' = "idle"
  /\ UNCHANGED <<machineVars, venueVars, order, orderSeq, idVars, syncVars,
                 bookVars, killVars, life>>

-----------------------------------------------------------------------------
(* The other actors.                                                       *)

\* control_kill_switch, from the web server's task, at any time.
ActivateKillSwitch ==
  /\ ~killActive
  /\ killActive' = TRUE
  /\ sentUnderKill' = 0
  /\ UNCHANGED <<machineVars, venueVars, cycleVars, idVars, syncVars,
                 bookVars, life>>

DeactivateKillSwitch ==
  /\ killActive
  /\ killActive' = FALSE
  /\ sentUnderKill' = 0
  /\ UNCHANGED <<machineVars, venueVars, cycleVars, idVars, syncVars,
                 bookVars, life>>

Venue ==
  /\ VenueStep
  /\ UNCHANGED <<machineVars, cycleVars, idVars, syncVars, bookVars, killVars, life>>

Decide ==
  \/ Tick \/ SkipIntent \/ Submit
  \/ \E s \in Symbols, side \in Sides, q \in Quantities : PassRisk(s, side, q)
  \/ \E b \in BrokerIds : ReceiveAck(b)
  \/ ReceiveRejection \/ AnswerLost

Sync ==
  \/ BeginSync \/ AbortCycle \/ EndSync
  \/ \E id \in ClientIds :
       \/ SyncReport(id) \/ SyncLookupFails(id)
       \/ ApplyFills(id) \/ ApplyFillsLookupFails(id)

Next == Decide \/ Sync \/ ActivateKillSwitch \/ DeactivateKillSwitch \/ Venue

Spec == Init /\ [][Next]_vars

\* Ticks keep coming and every broker call returns (MockBroker's do at once;
\* of the KIS client, which sets no timeout, it is an assumption).  A cycle is
\* not always cut short by a storage error, and an order's lookup does not fail
\* for ever.  Nothing is asked of the venue.
Fairness ==
  /\ WF_vars(Tick)
  /\ WF_vars(Submit)
  /\ WF_vars(AnswerLost \/ ReceiveRejection \/ \E b \in BrokerIds : ReceiveAck(b))
  /\ SF_vars(BeginSync)
  /\ WF_vars(EndSync)
  /\ \A id \in ClientIds :
       /\ SF_vars(SyncReport(id))
       /\ WF_vars(SyncReport(id) \/ SyncLookupFails(id))
       /\ WF_vars(ApplyFills(id) \/ ApplyFillsLookupFails(id))

FairSpec == Spec /\ Fairness

-----------------------------------------------------------------------------
(* Properties.                                                             *)

RuntimeTypeOK ==
  /\ pc \in {"idle", "deciding", "checked", "awaiting", "syncing"}
  /\ order \in Requests \cup {None}
  /\ orderSeq \in 0 .. MaxOrders
  /\ brokerIds \in [ClientIds -> BrokerIds \cup {None}]
  /\ openLocal \in [ClientIds -> BrokerIds \cup {None}]
  /\ syncTodo \subseteq ClientIds
  /\ closing \subseteq ClientIds
  /\ portfolio \in [Symbols -> Nat]
  /\ killActive \in BOOLEAN
  /\ life \in Lives
  /\ sentUnderKill \in Nat
  /\ booked \in [BrokerIds -> Nat]

TypeOK == MachineTypeOK /\ VenueTypeOK /\ RuntimeTypeOK

\* What the status of order id claims about the venue.
SettledAt(id) ==
  LET b == brokerIds[id]
  IN
  /\ b # None => OrderOf(b, id)
  /\ statuses[id] \in Live \cup {"Filled", "Cancelled"} => b # None
  /\ statuses[id] = "PartiallyFilled" => venue[b].filled > 0
  /\ statuses[id] = "Filled" => ~venue[b].open /\ venue[b].filled = venue[b].qty
  /\ statuses[id] = "Cancelled" => ~venue[b].open /\ venue[b].filled < venue[b].qty
  /\ statuses[id] = "Rejected" =>
       /\ \A r \in wire : r.client # id
       /\ \A c \in BrokerIds : ~OrderOf(c, id)

\* A status that claims something about the venue is true there: an acked
\* order is the venue's order of that id, a Filled or Cancelled one is closed
\* there with that outcome, a Rejected one does not exist there and never
\* will.  Broken by a status taken from the wrong report, by a timeout read
\* as a failure, or by a late acceptance of an order already given up.
SettledByVenue == \A id \in ClientIds : SettledAt(id)

\* Ids not yet drawn are unused, and so is the id of an order about to be
\* submitted: within one process submit() refuses nothing.
IdsAreFresh ==
  /\ \A id \in ClientIds : id > orderSeq => ~AlreadyUsed(id)
  /\ order # None => order.client <= orderSeq
  /\ pc = "checked" => ~AlreadyUsed(order.client)

\* No order is submitted twice in one process: the venue holds at most one
\* order per client id, also when the first answer was lost or late, and none
\* whose id the state machine does not know (gateway.rs:3-6).
NoDoubleOrder ==
  /\ \A b, c \in BrokerIds :
       venue[b] # None /\ venue[c] # None /\ venue[b].client = venue[c].client => b = c
  /\ \A b \in BrokerIds : venue[b] # None => Registered(venue[b].client)

\* open_local holds exactly the orders the venue may still be working, with
\* the id the venue gave them: an order is neither forgotten while it lives
\* nor polled after it has settled, and an Unknown order is never in it.
OpenSetExact ==
  /\ Open(openLocal) = {id \in ClientIds : statuses[id] \in Live} \cup closing
  /\ \A id \in Open(openLocal) : openLocal[id] = brokerIds[id]
  /\ \A id \in closing : statuses[id] \in Terminal

\* The shares of an order enter the portfolio at most once, only in full and
\* only after the venue has closed the order filled: whatever the number of
\* reports read, and whenever they were read.
BookedOnce ==
  \A b \in BrokerIds :
    booked[b] # 0 => /\ venue[b] # None
                     /\ booked[b] = venue[b].filled
                     /\ statuses[venue[b].client] = "Filled"

\* Whatever the venue does between two lookups, the status a report stands
\* for is the present one or a legal next one, so sync_execution never
\* leaves through its transition error and strands the order.
ReportsAreLegalSteps ==
  \A id \in Open(openLocal) \ closing :
    LET target == TargetStatus(venue[openLocal[id]])
    IN target = statuses[id] \/ target \in Transitions(statuses[id])

\* The check of the kill switch and the submission it guards are not one
\* step: at most one order, checked before, leaves after the switch went on.
KillSwitchBound == killActive => sentUnderKill <= 1

\* "Terminal statuses apply discovered fills and clear the open set"
\* (runtime/mod.rs:187): once an order that the venue cancelled has left the
\* open set, the portfolio holds what it had traded.  Not so, with every lookup
\* answered: apply_fills passes over every terminal status but Filled.
TerminalFillsApplied ==
  \A id \in ClientIds :
    brokerIds[id] # None /\ statuses[id] = "Cancelled" /\ id \notin closing =>
      booked[brokerIds[id]] = venue[brokerIds[id]].filled

\* "the order sits in Unknown; reconciliation is the only way out"
\* (runtime/mod.rs:155-156): the running process finds out in the end.  Not so:
\* nothing reconciles an order that is in no open set and has no broker id.
UnknownResolved ==
  \A id \in ClientIds : statuses[id] = "Unknown" ~> statuses[id] # "Unknown"

-----------------------------------------------------------------------------
(* The contract of OrderLifecycle, through a refinement mapping.           *)

\* What has become of order id at the venue.
VenueTruth(id) ==
  IF \E b \in BrokerIds : OrderOf(b, id) /\ venue[b].open THEN "working"
  ELSE IF \E b \in BrokerIds : OrderOf(b, id) /\ venue[b].filled = venue[b].qty THEN "filled"
  ELSE IF \E b \in BrokerIds : OrderOf(b, id) THEN "cancelled"
  ELSE IF \E a \in replies : a.client = id /\ a.broker = None THEN "refused"
  ELSE "absent"

BeliefOf(status) ==
  CASE status = "Unregistered" -> "none"
    [] status = "Pending" -> "pending"
    [] status = "Unknown" -> "unknown"
    [] status = "Filled" -> "filled"
    [] status = "Cancelled" -> "cancelled"
    [] status = "Rejected" -> "rejected"
    [] OTHER -> "working"

Truth == [id \in ClientIds |-> VenueTruth(id)]
Belief == [id \in ClientIds |-> BeliefOf(statuses[id])]

Lifecycle == INSTANCE OrderLifecycle WITH
  Orders <- ClientIds, truth <- Truth, belief <- Belief

\* The runtime implements the lifecycle contract: every step of runtime or
\* venue is a step of the contract or invisible to it, and an acknowledged
\* order the venue has closed is eventually settled locally.
ImplementsLifecycle == Lifecycle!LifecycleSpec
=============================================================================
