------------------------ MODULE TradingRuntimeProofs ------------------------
(***************************************************************************)
(* Proofs about TradingRuntime, for every number of orders, symbols and    *)
(* broker ids, for an idempotent venue and for one that is not: its types  *)
(* and safety invariants from one inductive invariant (IInv), and that it  *)
(* implements the contract of OrderLifecycle, each step being one of the   *)
(* contract's or a stutter.                                                *)
(***************************************************************************)
EXTENDS TradingRuntime, TLAPS

USE DEF machineVars, venueVars, cycleVars, idVars, syncVars, bookVars, killVars

-----------------------------------------------------------------------------
(* Type correctness.                                                       *)

\* There is an order in hand exactly while one is being checked or submitted.
OrderInHand == order # None <=> pc \in {"checked", "awaiting"}

TypeInv == TypeOK /\ OrderInHand

\* A transition keeps the state machine well typed, and its source is a
\* status: an unregistered order has no row in the table.
LEMMA TransitionTypes ==
  ASSUME MachineTypeOK, NEW id \in ClientIds, NEW to \in Statuses, Transition(id, to)
  PROVE  MachineTypeOK' /\ statuses[id] \in Statuses \ Terminal
<1>1. statuses[id] \in Statuses \ Terminal
  BY DEF MachineTypeOK, Transition, Transitions, Statuses, Terminal
<1>2. [from |-> statuses[id], to |-> to] \in Events
  BY <1>1 DEF Events
<1>3. statuses' \in [ClientIds -> Statuses \cup {"Unregistered"}]
  BY DEF MachineTypeOK, Transition
<1>4. history' \in [ClientIds -> Seq(Events)]
  BY <1>2 DEF MachineTypeOK, Transition
<1> QED BY <1>1, <1>3, <1>4 DEF MachineTypeOK

LEMMA RegisterTypes ==
  ASSUME MachineTypeOK, NEW id \in ClientIds, Register(id, "Pending")
  PROVE  MachineTypeOK'
BY DEF MachineTypeOK, Register, Statuses

\* A venue order with another filled quantity is a venue order.
LEMMA UpdatedOrder ==
  ASSUME NEW v \in VenueOrders, NEW n \in Nat, NEW o \in BOOLEAN
  PROVE  [v EXCEPT !.filled = n, !.open = o] \in VenueOrders
BY DEF VenueOrders

\* The venue's steps keep its records well typed; a sell takes only shares
\* that are held.
LEMMA VenueTypes ==
  ASSUME VenueTypeOK, VenueStep
  PROVE  VenueTypeOK'
<1>1. CASE \E r \in wire, b \in BrokerIds : Accept(r, b)
  <2>1. PICK r \in wire, b \in BrokerIds : Accept(r, b) BY <1>1
  <2>2. r \in Requests BY DEF VenueTypeOK
  <2>3. [client |-> r.client, life |-> r.life, symbol |-> r.symbol,
         side |-> r.side, qty |-> r.qty, filled |-> 0, open |-> TRUE] \in VenueOrders
    BY <2>2 DEF Requests, VenueOrders
  <2>4. Reply(r, b) \in Replies BY <2>2 DEF Requests, Replies, Reply
  <2> QED BY <2>1, <2>3, <2>4 DEF VenueTypeOK, Accept
<1>2. CASE \E r \in wire, b \in BrokerIds : AcceptAgain(r, b)
  <2>1. PICK r \in wire, b \in BrokerIds : AcceptAgain(r, b) BY <1>2
  <2>2. Reply(r, b) \in Replies BY DEF VenueTypeOK, Requests, Replies, Reply
  <2> QED BY <2>1, <2>2 DEF VenueTypeOK, AcceptAgain
<1>3. CASE \E r \in wire : Refuse(r) \/ Lose(r)
  <2>1. PICK r \in wire : Refuse(r) \/ Lose(r) BY <1>3
  <2>2. Reply(r, None) \in Replies BY DEF VenueTypeOK, Requests, Replies, Reply
  <2> QED BY <2>1, <2>2 DEF VenueTypeOK, Refuse, Lose
<1>4. CASE \E b \in BrokerIds : Fill(b)
  <2>1. PICK b \in BrokerIds : Fill(b) BY <1>4
  <2>2. venue[b] \in VenueOrders BY <2>1 DEF VenueTypeOK, Fill
  <2>3. [venue[b] EXCEPT !.filled = @ + 1, !.open = venue[b].filled + 1 < venue[b].qty]
          \in VenueOrders
    <3>1. venue[b].filled + 1 \in Nat BY <2>2 DEF VenueOrders
    <3>2. (venue[b].filled + 1 < venue[b].qty) \in BOOLEAN OBVIOUS
    <3> QED BY <2>2, <3>1, <3>2, UpdatedOrder
  <2>4. venue[b].symbol \in Symbols /\ venue[b].side \in Sides
    BY <2>2 DEF VenueOrders
  <2>5. holding' \in [Symbols -> Nat]
    BY <2>1, <2>4 DEF VenueTypeOK, Fill, Sides
  <2> QED BY <2>1, <2>3, <2>5 DEF VenueTypeOK, Fill
<1>5. CASE \E b \in BrokerIds : Cancel(b)
  <2>1. PICK b \in BrokerIds : Cancel(b) BY <1>5
  <2>2. venue[b] \in VenueOrders BY <2>1 DEF VenueTypeOK, Cancel
  <2>3. [venue[b] EXCEPT !.open = FALSE] \in VenueOrders
    BY <2>2 DEF VenueOrders
  <2> QED BY <2>1, <2>3 DEF VenueTypeOK, Cancel
<1> QED BY <1>1, <1>2, <1>3, <1>4, <1>5 DEF VenueStep

LEMMA DecideTypes ==
  ASSUME TypeInv, Decide
  PROVE  TypeInv'
<1> USE DEF TypeInv, TypeOK, OrderInHand, RuntimeTypeOK
<1>1. CASE Tick
  BY <1>1 DEF Tick, MachineTypeOK, VenueTypeOK
<1>2. CASE SkipIntent
  BY <1>2, MaxOrdersAssumption DEF SkipIntent, MachineTypeOK, VenueTypeOK
<1>3. CASE \E s \in Symbols, side \in Sides, q \in Quantities : PassRisk(s, side, q)
  <2>1. PICK s \in Symbols, side \in Sides, q \in Quantities : PassRisk(s, side, q)
    BY <1>3
  <2>2. orderSeq + 1 \in ClientIds
    BY <2>1, MaxOrdersAssumption DEF PassRisk, ClientIds
  <2>3. order' \in Requests
    BY <2>1, <2>2 DEF PassRisk, Requests
  <2> QED
    BY <2>1, <2>2, <2>3, MaxOrdersAssumption, NoneAssumption
       DEF PassRisk, ClientIds, MachineTypeOK, VenueTypeOK
<1>4. CASE Submit
  <2>1. order \in Requests /\ order.client \in ClientIds
    BY <1>4 DEF Submit, Requests
  <2>2. MachineTypeOK' BY <1>4, <2>1, RegisterTypes DEF Submit
  <2> QED BY <1>4, <2>1, <2>2 DEF Submit, VenueTypeOK
<1>5. CASE \E b \in BrokerIds : ReceiveAck(b)
  <2>1. PICK b \in BrokerIds : ReceiveAck(b) BY <1>5
  <2>2. order.client \in ClientIds BY <2>1 DEF ReceiveAck, Requests
  <2>3. MachineTypeOK' BY <2>1, <2>2, TransitionTypes DEF ReceiveAck, Statuses
  <2> QED BY <2>1, <2>3 DEF ReceiveAck, VenueTypeOK
<1>6. CASE ReceiveRejection
  <2>1. order.client \in ClientIds BY <1>6 DEF ReceiveRejection, Requests
  <2>2. MachineTypeOK' BY <1>6, <2>1, TransitionTypes DEF ReceiveRejection, Statuses
  <2> QED BY <1>6, <2>2 DEF ReceiveRejection, VenueTypeOK
<1>7. CASE AnswerLost
  <2>1. order.client \in ClientIds BY <1>7 DEF AnswerLost, Requests
  <2>2. MachineTypeOK'
    BY <1>7, <2>1, TransitionTypes DEF AnswerLost, MarkUnknown, Statuses
  <2> QED BY <1>7, <2>2 DEF AnswerLost, VenueTypeOK
<1> QED BY <1>1, <1>2, <1>3, <1>4, <1>5, <1>6, <1>7 DEF Decide

LEMMA TargetIsStatus == \A v : TargetStatus(v) \in Statuses
BY DEF TargetStatus, Statuses

\* Every id that is tracked is the venue's order of that id, and what
\* sync_all still has to visit or to close is in the open set.
Tracking ==
  /\ \A id \in ClientIds :
       /\ brokerIds[id] # None => OrderOf(brokerIds[id], id)
       /\ openLocal[id] # None => openLocal[id] = brokerIds[id]
  /\ syncTodo \subseteq Open(openLocal) \ closing
  /\ closing \subseteq Open(openLocal)
  /\ \A x, y \in closing : x = y

\* An order about to be closed is one of the venue's.
LEMMA ClosingAtVenue ==
  ASSUME TypeInv, Tracking, NEW id \in closing
  PROVE  /\ id \in ClientIds
         /\ openLocal[id] \in BrokerIds
         /\ openLocal[id] = brokerIds[id]
         /\ OrderOf(openLocal[id], id)
         /\ venue[openLocal[id]] \in VenueOrders
<1>1. id \in ClientIds /\ openLocal[id] # None /\ openLocal[id] \in BrokerIds
  BY DEF TypeInv, TypeOK, RuntimeTypeOK, Tracking, Open
<1>2. openLocal[id] = brokerIds[id] /\ OrderOf(openLocal[id], id)
  BY <1>1 DEF Tracking
<1> QED BY <1>1, <1>2 DEF TypeInv, TypeOK, VenueTypeOK, OrderOf

\* The portfolio never goes negative: apply_fill refuses to sell more than is
\* held.
LEMMA AppliedTypes ==
  ASSUME portfolio \in [Symbols -> Nat], NEW v \in VenueOrders, CanApply(v)
  PROVE  Applied(v) \in [Symbols -> Nat]
<1>1. v.symbol \in Symbols /\ v.side \in Sides /\ v.filled \in Nat
  BY DEF VenueOrders
<1>2. CASE v.side = "Buy"
  BY <1>1, <1>2 DEF Applied
<1>3. CASE v.side = "Sell"
  BY <1>1, <1>3 DEF Applied, CanApply
<1> QED BY <1>1, <1>2, <1>3 DEF Sides

LEMMA SyncTypes ==
  ASSUME TypeInv, Tracking, Sync
  PROVE  TypeInv'
<1> USE DEF TypeInv, TypeOK, OrderInHand, RuntimeTypeOK
<1>1. CASE BeginSync
  BY <1>1 DEF BeginSync, Open, MachineTypeOK, VenueTypeOK
<1>2. CASE AbortCycle
  BY <1>2 DEF AbortCycle, MachineTypeOK, VenueTypeOK
<1>3. CASE EndSync
  BY <1>3 DEF EndSync, MachineTypeOK, VenueTypeOK
<1>4. ASSUME NEW id \in ClientIds, SyncReport(id)
      PROVE  TypeInv'
  <2>1. MachineTypeOK'
    BY <1>4, TransitionTypes, TargetIsStatus DEF SyncReport, MachineTypeOK
  <2>2. closing' \in {{id}, {}} BY <1>4 DEF SyncReport
  <2> QED BY <1>4, <2>1, <2>2 DEF SyncReport, VenueTypeOK
<1>5. ASSUME NEW id \in ClientIds, SyncLookupFails(id)
      PROVE  TypeInv'
  BY <1>5 DEF SyncLookupFails, MachineTypeOK, VenueTypeOK
<1>6. ASSUME NEW id \in ClientIds, ApplyFills(id)
      PROVE  TypeInv'
  <2> DEFINE b == openLocal[id]  v == venue[openLocal[id]]
  <2>1. b \in BrokerIds /\ v \in VenueOrders
    BY <1>6, ClosingAtVenue DEF ApplyFills
  <2>2. portfolio' \in [Symbols -> Nat] /\ booked' \in [BrokerIds -> Nat]
    <3>1. CASE statuses[id] = "Filled" /\ v.filled > 0 /\ CanApply(v)
      <4>1. portfolio' = Applied(v) /\ booked' = [booked EXCEPT ![b] = @ + v.filled]
        BY <1>6, <3>1 DEF ApplyFills
      <4>2. v.filled \in Nat BY <2>1 DEF VenueOrders
      <4> QED BY <2>1, <3>1, <4>1, <4>2, AppliedTypes
    <3>2. CASE ~(statuses[id] = "Filled" /\ v.filled > 0 /\ CanApply(v))
      BY <1>6, <3>2 DEF ApplyFills
    <3> QED BY <3>1, <3>2
  <2> QED BY <1>6, <2>2 DEF ApplyFills, MachineTypeOK, VenueTypeOK
<1>7. ASSUME NEW id \in ClientIds, ApplyFillsLookupFails(id)
      PROVE  TypeInv'
  BY <1>7 DEF ApplyFillsLookupFails, MachineTypeOK, VenueTypeOK
<1> QED BY <1>1, <1>2, <1>3, <1>4, <1>5, <1>6, <1>7 DEF Sync

LEMMA TypeStep ==
  ASSUME TypeInv, Tracking, [Next]_vars
  PROVE  TypeInv'
<1> USE DEF TypeInv, TypeOK, OrderInHand, RuntimeTypeOK
<1>1. CASE ActivateKillSwitch
  BY <1>1 DEF ActivateKillSwitch, MachineTypeOK, VenueTypeOK
<1>4. CASE DeactivateKillSwitch
  BY <1>4 DEF DeactivateKillSwitch, MachineTypeOK, VenueTypeOK
<1>2. CASE Venue
  BY <1>2, VenueTypes DEF Venue, MachineTypeOK
<1>3. CASE UNCHANGED vars
  BY <1>3 DEF vars, MachineTypeOK, VenueTypeOK
<1> QED BY <1>1, <1>2, <1>3, <1>4, DecideTypes, SyncTypes DEF Next
-----------------------------------------------------------------------------
(* The inductive invariant.                                                *)

\* Nothing travels, and nothing is at the venue, that was not registered.
SentRegistered ==
  /\ \A r \in wire : Registered(r.client)
  /\ \A a \in replies : Registered(a.client)
  /\ \A b \in BrokerIds : venue[b] # None => Registered(venue[b].client)

\* One request per client id, and one outcome of it: still on the wire,
\* answered by an order, or answered by a refusal.
OneFate ==
  /\ \A r1, r2 \in wire : r1.client = r2.client => r1 = r2
  /\ \A r \in wire, a \in replies : r.client # a.client
  /\ \A a1, a2 \in replies : a1.client = a2.client => a1 = a2
  /\ \A b \in BrokerIds : venue[b] # None =>
       \E a \in replies : a.client = venue[b].client /\ a.broker = b
  /\ \A a \in replies : a.broker # None => OrderOf(a.broker, a.client)

\* An open order has something left to fill, and none is filled beyond its
\* quantity.
VenueSane ==
  \A b \in BrokerIds : venue[b] # None =>
    /\ venue[b].filled <= venue[b].qty
    /\ venue[b].open => venue[b].filled < venue[b].qty

\* Nothing of an order still in the open set is in the portfolio.
OpenUnbooked == \A id \in Open(openLocal) : booked[openLocal[id]] = 0

\* While submit() waits, its order has no status but Pending; an order is
\* closed only inside sync_all.
ControlState ==
  /\ pc = "awaiting" => statuses[order.client] = "Pending"
  /\ closing # {} => pc = "syncing"

IInv ==
  /\ TypeInv /\ Tracking /\ ControlState
  /\ SentRegistered /\ OneFate /\ VenueSane
  /\ SettledByVenue /\ OpenSetExact
  /\ BookedOnce /\ OpenUnbooked

\* The conjuncts of IInv that a step can only disturb by changing the state
\* machine, the venue, the ids or the books.
Settled ==
  /\ SentRegistered /\ OneFate /\ VenueSane
  /\ SettledByVenue /\ OpenSetExact
  /\ BookedOnce /\ OpenUnbooked

LEMMA QuietStep ==
  ASSUME IInv, UNCHANGED <<machineVars, venueVars, idVars, bookVars, closing>>
  PROVE  Settled'
BY DEF IInv, Settled, SentRegistered, OneFate, VenueSane, SettledByVenue, SettledAt, OpenSetExact,
       BookedOnce, OpenUnbooked, Registered, OrderOf, Open

\* The venue holds at most one order of a client id, and none of a client id
\* that is still on the wire or that it refused.
LEMMA UniqueOrder ==
  ASSUME OneFate, NEW b \in BrokerIds, venue[b] # None
  PROVE  /\ \A c \in BrokerIds :
              venue[c] # None /\ venue[c].client = venue[b].client => b = c
         /\ \A r \in wire : r.client # venue[b].client
         /\ \A a \in replies : a.client = venue[b].client => a.broker = b
BY DEF OneFate

LEMMA SubmitKeeps ==
  ASSUME IInv, Submit
  PROVE  Settled' /\ Tracking'
<1> DEFINE id == order.client
<1>1. /\ id \in ClientIds /\ order \in Requests
      /\ statuses[id] = "Unregistered" /\ brokerIds[id] = None
  BY DEF IInv, TypeInv, TypeOK, RuntimeTypeOK, OrderInHand, Submit, AlreadyUsed,
         Registered, Requests
<1>2. statuses' = [statuses EXCEPT ![id] = "Pending"]
  BY DEF Submit, Register
<1>3. \A c \in ClientIds : c # id => statuses'[c] = statuses[c]
  BY <1>2 DEF IInv, TypeInv, TypeOK, MachineTypeOK
<1>4. statuses'[id] = "Pending"
  BY <1>1, <1>2 DEF IInv, TypeInv, TypeOK, MachineTypeOK
<1>5. UNCHANGED <<venue, replies, holding, idVars, syncVars, bookVars>> /\ wire' = wire \cup {order}
  BY DEF Submit
<1>6. /\ \A r \in wire : r.client # id /\ r.client \in ClientIds
      /\ \A a \in replies : a.client # id /\ a.client \in ClientIds
      /\ \A b \in BrokerIds : venue[b] # None => venue[b].client # id /\ venue[b].client \in ClientIds
  BY <1>1 DEF IInv, SentRegistered, Registered, TypeInv, TypeOK, VenueTypeOK, Requests,
              Replies, VenueOrders
<1>7. SentRegistered'
  BY <1>1, <1>3, <1>4, <1>5, <1>6 DEF IInv, SentRegistered, Registered
<1>8. OneFate'
  BY <1>5, <1>6 DEF IInv, OneFate, OrderOf
<1>9. VenueSane' /\ OpenUnbooked'
  BY <1>5 DEF IInv, VenueSane, OpenUnbooked, Open
<1>10. SettledByVenue'
  BY <1>1, <1>3, <1>4, <1>5, <1>6 DEF IInv, SettledByVenue, SettledAt, OrderOf, Live
<1>11. OpenSetExact'
  <2>1. id \notin closing BY <1>1 DEF IInv, OpenSetExact, Terminal
  <2> QED BY <2>1, <1>1, <1>3, <1>4, <1>5 DEF IInv, OpenSetExact, Open, Live, Terminal
<1>12. BookedOnce'
  BY <1>3, <1>5, <1>6 DEF IInv, BookedOnce
<1>13. Tracking'
  BY <1>5 DEF IInv, Tracking, OrderOf, Open
<1> QED BY <1>7, <1>8, <1>9, <1>10, <1>11, <1>12, <1>13 DEF Settled

\* What a transition does to the statuses, and where it can start.
LEMMA TransitionMoves ==
  ASSUME IInv, NEW id \in ClientIds, NEW to \in Statuses, Transition(id, to)
  PROVE  /\ statuses[id] \in {"Pending", "Submitted", "PartiallyFilled", "Unknown"}
         /\ statuses'[id] = to
         /\ \A c \in ClientIds : c # id => statuses'[c] = statuses[c]
         /\ \A c \in ClientIds : Registered(c) => Registered(c)'
<1>1. statuses[id] \in Statuses \ Terminal
  BY TransitionTypes DEF IInv, TypeInv, TypeOK
<1>2. statuses' = [statuses EXCEPT ![id] = to] /\ statuses \in [ClientIds -> Statuses \cup {"Unregistered"}]
  BY DEF Transition, IInv, TypeInv, TypeOK, MachineTypeOK
<1> QED BY <1>1, <1>2 DEF Statuses, Terminal, Registered

LEMMA ClientTypes ==
  ASSUME TypeInv
  PROVE  /\ \A r \in wire : r.client \in ClientIds
         /\ \A a \in replies : a.client \in ClientIds
         /\ \A b \in BrokerIds : venue[b] # None =>
              /\ venue[b].client \in ClientIds
              /\ venue[b].qty \in Nat \ {0} /\ venue[b].filled \in Nat
              /\ venue[b].open \in BOOLEAN
BY QuantitiesAssumption DEF TypeInv, TypeOK, VenueTypeOK, Requests, Replies, VenueOrders

\* A transition that leaves everything else alone keeps what does not depend
\* on the new status.
LEMMA TransitionKeeps ==
  ASSUME IInv, NEW id \in ClientIds, NEW to \in Statuses, Transition(id, to),
         UNCHANGED <<venueVars, booked>>
  PROVE  SentRegistered' /\ OneFate' /\ VenueSane' /\ BookedOnce'
<1>1. SentRegistered'
  BY TransitionMoves, ClientTypes DEF IInv, SentRegistered
<1>2. OneFate' /\ VenueSane'
  BY DEF IInv, OneFate, VenueSane, OrderOf
<1>3. BookedOnce'
  BY TransitionMoves, ClientTypes DEF IInv, BookedOnce
<1> QED BY <1>1, <1>2, <1>3

LEMMA ReceiveAckKeeps ==
  ASSUME IInv, NEW b \in BrokerIds, ReceiveAck(b)
  PROVE  Settled' /\ Tracking'
<1> DEFINE id == order.client
<1>1. id \in ClientIds
  BY DEF IInv, TypeInv, TypeOK, RuntimeTypeOK, OrderInHand, ReceiveAck, Requests
<1>2. Transition(id, "Submitted") /\ UNCHANGED <<venueVars, syncVars, bookVars>>
  BY DEF ReceiveAck
<1>3. /\ statuses[id] \notin Terminal /\ statuses'[id] = "Submitted"
      /\ \A c \in ClientIds : c # id => statuses'[c] = statuses[c]
  BY <1>1, <1>2, TransitionMoves DEF Statuses, Terminal
<1>4. /\ brokerIds'[id] = b /\ openLocal'[id] = b
      /\ \A c \in ClientIds : c # id => brokerIds'[c] = brokerIds[c] /\ openLocal'[c] = openLocal[c]
      /\ b # None
  BY <1>1 DEF ReceiveAck, IInv, TypeInv, TypeOK, RuntimeTypeOK
<1>5. Reply(order, b) \in replies /\ Reply(order, b).client = id /\ Reply(order, b).broker = b
  BY DEF ReceiveAck, Reply
<1>6. OrderOf(b, id)
  BY <1>4, <1>5 DEF IInv, OneFate
<1>7. booked[b] = 0
  BY <1>3, <1>6 DEF IInv, BookedOnce, OrderOf, Terminal
<1>8. SentRegistered' /\ OneFate' /\ VenueSane' /\ BookedOnce'
  BY <1>1, <1>2, TransitionKeeps DEF Statuses
<1>9. SettledByVenue'
  BY <1>1, <1>2, <1>3, <1>4, <1>6 DEF IInv, SettledByVenue, SettledAt, OrderOf
<1>10. id \notin closing
  BY <1>3 DEF IInv, OpenSetExact
<1>11. OpenSetExact'
  BY <1>1, <1>2, <1>3, <1>4, <1>10 DEF IInv, OpenSetExact, Open, Live, Terminal
<1>12. OpenUnbooked'
  BY <1>1, <1>2, <1>4, <1>7 DEF IInv, OpenUnbooked, Open
<1>13. Tracking'
  BY <1>1, <1>2, <1>4, <1>6 DEF IInv, Tracking, Open, OrderOf
<1> QED BY <1>8, <1>9, <1>11, <1>12, <1>13 DEF Settled

LEMMA ReceiveRejectionKeeps ==
  ASSUME IInv, ReceiveRejection
  PROVE  Settled' /\ Tracking'
<1> DEFINE id == order.client
<1>1. id \in ClientIds
  BY DEF IInv, TypeInv, TypeOK, RuntimeTypeOK, OrderInHand, ReceiveRejection, Requests
<1>2. pc = "awaiting" /\ Transition(id, "Rejected") /\ UNCHANGED <<venueVars, idVars, syncVars, bookVars>>
  BY DEF ReceiveRejection
<1>3. /\ statuses[id] \notin Terminal /\ statuses'[id] = "Rejected"
      /\ \A c \in ClientIds : c # id => statuses'[c] = statuses[c]
  BY <1>1, <1>2, TransitionMoves DEF Statuses, Terminal
<1>4. Reply(order, None) \in replies /\ Reply(order, None).client = id /\ Reply(order, None).broker = None
  BY DEF ReceiveRejection, Reply
<1>5. /\ \A r \in wire : r.client # id
      /\ \A c \in BrokerIds : ~OrderOf(c, id)
  BY <1>4, NoOrderAssumption DEF IInv, OneFate, OrderOf
<1>6. brokerIds[id] = None /\ openLocal[id] = None
  BY <1>1, <1>5, NoOrderAssumption DEF IInv, Tracking, TypeInv, TypeOK, RuntimeTypeOK
<1>7. SentRegistered' /\ OneFate' /\ VenueSane' /\ BookedOnce'
  BY <1>1, <1>2, TransitionKeeps DEF Statuses
<1>8. SettledByVenue'
  BY <1>1, <1>2, <1>3, <1>5, <1>6 DEF IInv, SettledByVenue, SettledAt, OrderOf, Live
<1>9. OpenSetExact'
  BY <1>1, <1>2, <1>3, <1>6 DEF IInv, OpenSetExact, Open, Live, Terminal
<1>10. OpenUnbooked' /\ Tracking'
  BY <1>2 DEF IInv, OpenUnbooked, Tracking, Open, OrderOf
<1> QED BY <1>7, <1>8, <1>9, <1>10 DEF Settled

LEMMA AnswerLostKeeps ==
  ASSUME IInv, AnswerLost
  PROVE  Settled' /\ Tracking'
<1> DEFINE id == order.client
<1>1. id \in ClientIds
  BY DEF IInv, TypeInv, TypeOK, RuntimeTypeOK, OrderInHand, AnswerLost, Requests
<1>2. Transition(id, "Unknown") /\ UNCHANGED <<venueVars, idVars, syncVars, bookVars>>
  BY DEF AnswerLost, MarkUnknown
<1>3. /\ statuses[id] = "Pending" /\ statuses'[id] = "Unknown"
      /\ \A c \in ClientIds : c # id => statuses'[c] = statuses[c]
  BY <1>1, <1>2, TransitionMoves DEF Statuses, IInv, ControlState, AnswerLost
<1>4. SentRegistered' /\ OneFate' /\ VenueSane' /\ BookedOnce'
  BY <1>1, <1>2, TransitionKeeps DEF Statuses
<1>5. SettledByVenue'
  BY <1>2, <1>3 DEF IInv, SettledByVenue, SettledAt, OrderOf, Live
<1>6. id \notin closing
  BY <1>3 DEF IInv, OpenSetExact, Terminal
<1>7. OpenSetExact'
  BY <1>1, <1>2, <1>3, <1>6 DEF IInv, OpenSetExact, Open, Live, Terminal
<1>8. OpenUnbooked' /\ Tracking'
  BY <1>2 DEF IInv, OpenUnbooked, Tracking, Open, OrderOf
<1> QED BY <1>4, <1>5, <1>7, <1>8 DEF Settled

\* What a tracked order looks like when it is polled.
LEMMA PolledOrder ==
  ASSUME IInv, NEW id \in syncTodo
  PROVE  /\ id \in ClientIds /\ statuses[id] \in Live /\ id \notin closing
         /\ openLocal[id] \in BrokerIds /\ openLocal[id] = brokerIds[id]
         /\ OrderOf(openLocal[id], id)
<1>1. id \in ClientIds /\ id \in Open(openLocal) /\ id \notin closing
  BY DEF IInv, Tracking, Open
<1>2. openLocal[id] \in BrokerIds /\ openLocal[id] = brokerIds[id] /\ OrderOf(openLocal[id], id)
  BY <1>1 DEF IInv, Tracking, Open, TypeInv, TypeOK, RuntimeTypeOK
<1>3. statuses[id] \in Live
  BY <1>1 DEF IInv, OpenSetExact
<1> QED BY <1>1, <1>2, <1>3

LEMMA SyncReportKeeps ==
  ASSUME IInv, NEW id \in ClientIds, SyncReport(id)
  PROVE  Settled' /\ Tracking'
<1> DEFINE v == venue[openLocal[id]]
           target == TargetStatus(v)
<1>1. /\ closing = {} /\ id \in syncTodo /\ syncTodo' = syncTodo \ {id}
      /\ closing' = IF target \in Terminal THEN {id} ELSE {}
      /\ UNCHANGED <<venueVars, idVars, bookVars>>
  BY DEF SyncReport
<1>2. /\ statuses[id] \in Live /\ openLocal[id] \in BrokerIds
      /\ openLocal[id] = brokerIds[id] /\ OrderOf(openLocal[id], id)
      /\ id \in Open(openLocal) /\ v # None
  BY <1>1, PolledOrder, NoOrderAssumption DEF Open, OrderOf
<1>3. syncTodo' \subseteq Open(openLocal) \ closing'
  BY <1>1 DEF IInv, Tracking
<1>4. Tracking'
  BY <1>1, <1>2, <1>3 DEF IInv, Tracking, Open, OrderOf
<1>5. OpenUnbooked'
  BY <1>1 DEF IInv, OpenUnbooked, Open
<1>6. CASE target = statuses[id]
  <2>1. UNCHANGED machineVars BY <1>6 DEF SyncReport
  <2>2. closing' = closing BY <1>1, <1>2, <1>6 DEF Live, Terminal
  <2> QED BY <1>1, <1>4, <2>1, <2>2, QuietStep
<1>7. CASE target # statuses[id]
  <2>1. Transition(id, target) BY <1>7 DEF SyncReport
  <2>2. /\ target \in Statuses /\ statuses'[id] = target
        /\ \A c \in ClientIds : c # id => statuses'[c] = statuses[c]
    BY <2>1, TransitionMoves, TargetIsStatus
  <2>3. SentRegistered' /\ OneFate' /\ VenueSane' /\ BookedOnce'
    BY <1>1, <2>1, <2>2, TransitionKeeps
  <2>4. v.qty \in Nat /\ v.filled \in Nat /\ v.filled <= v.qty
    BY <1>2, ClientTypes DEF IInv, VenueSane
  <2>5. SettledByVenue'
    BY <1>1, <1>2, <2>2, <2>4
       DEF IInv, SettledByVenue, SettledAt, TargetStatus, OrderOf, Live
  <2>6. target \in Live \cup Terminal
    BY DEF TargetStatus, Live, Terminal
  <2>7. OpenSetExact'
    BY <1>1, <1>2, <2>2, <2>6 DEF IInv, OpenSetExact, Open, Live, Terminal
  <2> QED BY <1>4, <1>5, <2>3, <2>5, <2>7 DEF Settled
<1> QED BY <1>6, <1>7

LEMMA ApplyFillsKeeps ==
  ASSUME IInv, NEW id \in ClientIds, ApplyFills(id) \/ ApplyFillsLookupFails(id)
  PROVE  Settled' /\ Tracking'
<1> DEFINE b == openLocal[id]
           v == venue[b]
<1>1. /\ id \in closing /\ closing' = {} /\ openLocal' = [openLocal EXCEPT ![id] = None]
      /\ UNCHANGED <<machineVars, venueVars, brokerIds, syncTodo>>
  BY DEF ApplyFills, ApplyFillsLookupFails
<1>2. /\ b \in BrokerIds /\ b = brokerIds[id] /\ OrderOf(b, id)
      /\ closing = {id} /\ statuses[id] \in Terminal /\ id \in Open(openLocal)
  BY <1>1, ClosingAtVenue DEF IInv, Tracking, OpenSetExact
<1>3. \/ UNCHANGED booked
      \/ statuses[id] = "Filled" /\ booked' = [booked EXCEPT ![b] = @ + v.filled]
  BY DEF ApplyFills, ApplyFillsLookupFails
<1>4. openLocal'[id] = None /\ \A c \in ClientIds : c # id => openLocal'[c] = openLocal[c]
  BY <1>1 DEF IInv, TypeInv, TypeOK, RuntimeTypeOK
<1>5. Open(openLocal)' = Open(openLocal) \ {id}
  BY <1>4 DEF Open
<1>6. SentRegistered' /\ OneFate' /\ VenueSane' /\ SettledByVenue'
  BY <1>1 DEF IInv, SentRegistered, OneFate, VenueSane, SettledByVenue, SettledAt, Registered, OrderOf
<1>7. OpenSetExact'
  BY <1>1, <1>2, <1>4, <1>5 DEF IInv, OpenSetExact, Live, Terminal, Open
<1>8. Tracking'
  BY <1>1, <1>2, <1>4, <1>5 DEF IInv, Tracking, OrderOf, Open
<1>9. \A c \in BrokerIds : c # b => booked'[c] = booked[c]
  BY <1>3 DEF IInv, TypeInv, TypeOK, RuntimeTypeOK
<1>10. \A c \in Open(openLocal)' : openLocal'[c] # b
  BY <1>2, <1>4, <1>5 DEF IInv, Tracking, OrderOf, Open
<1>11. OpenUnbooked'
  BY <1>4, <1>5, <1>9, <1>10 DEF IInv, OpenUnbooked, Open, TypeInv, TypeOK, RuntimeTypeOK
<1>12. BookedOnce'
  <2>1. booked[b] = 0 BY <1>2 DEF IInv, OpenUnbooked
  <2>2. v.filled \in Nat BY <1>2, ClientTypes DEF IInv, OrderOf
  <2>3. booked'[b] # 0 => /\ statuses[venue[b].client] = "Filled" /\ venue[b] # None
                          /\ booked'[b] = venue[b].filled
    BY <1>2, <1>3, <2>1, <2>2 DEF OrderOf, IInv, TypeInv, TypeOK, RuntimeTypeOK
  <2> QED BY <1>1, <1>9, <2>3 DEF IInv, BookedOnce
<1> QED BY <1>6, <1>7, <1>8, <1>11, <1>12 DEF Settled

LEMMA AcceptKeeps ==
  ASSUME IInv, NEW r \in wire, NEW b \in BrokerIds, Accept(r, b),
         UNCHANGED <<machineVars, idVars, syncVars, bookVars>>
  PROVE  Settled' /\ Tracking'
<1> DEFINE new == [client |-> r.client, life |-> r.life, symbol |-> r.symbol,
                   side |-> r.side, qty |-> r.qty, filled |-> 0, open |-> TRUE]
<1>1. /\ venue[b] = None /\ wire' = wire \ {r} /\ replies' = replies \cup {Reply(r, b)}
      /\ venue' = [venue EXCEPT ![b] = new]
  BY DEF Accept
<1>2. r \in Requests /\ r.client \in ClientIds /\ r.qty \in Nat \ {0}
  BY QuantitiesAssumption DEF IInv, TypeInv, TypeOK, VenueTypeOK, Requests
<1>3. new \in VenueOrders
  BY <1>2 DEF Requests, VenueOrders
<1>4. venue'[b] = new /\ new # None /\ \A c \in BrokerIds : c # b => venue'[c] = venue[c]
  BY <1>1, <1>3, NoOrderAssumption DEF IInv, TypeInv, TypeOK, VenueTypeOK
<1>5. Reply(r, b).client = r.client /\ Reply(r, b).broker = b BY DEF Reply
<1>6. /\ \A c \in BrokerIds : ~OrderOf(c, r.client)
      /\ \A a \in replies : a.client # r.client
      /\ \A q \in wire : q # r => q.client # r.client
  BY DEF IInv, OneFate, OrderOf
<1>7. SentRegistered'
  BY <1>1, <1>4, <1>5 DEF IInv, SentRegistered, Registered
<1>8. OneFate'
  <2>1. \A r1, r2 \in wire' : r1.client = r2.client => r1 = r2
    BY <1>1 DEF IInv, OneFate
  <2>2. \A q \in wire', a \in replies' : q.client # a.client
    BY <1>1, <1>5, <1>6 DEF IInv, OneFate
  <2>3. \A a1, a2 \in replies' : a1.client = a2.client => a1 = a2
    BY <1>1, <1>5, <1>6 DEF IInv, OneFate
  <2>4. \A c \in BrokerIds : venue'[c] # None =>
          \E a \in replies' : a.client = venue'[c].client /\ a.broker = c
    BY <1>1, <1>4, <1>5 DEF IInv, OneFate
  <2>5. \A a \in replies' : a.broker # None => OrderOf(a.broker, a.client)'
    <3>1. OrderOf(b, r.client)' BY <1>4 DEF OrderOf
    <3>2. \A a \in replies : a.broker # None => a.broker # b /\ a.broker \in BrokerIds
      BY <1>1 DEF IInv, OneFate, OrderOf, TypeInv, TypeOK, VenueTypeOK, Replies
    <3> QED BY <1>1, <1>4, <1>5, <3>1, <3>2 DEF IInv, OneFate, OrderOf
  <2> QED BY <2>1, <2>2, <2>3, <2>4, <2>5 DEF OneFate
<1>9. VenueSane'
  BY <1>2, <1>4 DEF IInv, VenueSane
<1>10. \A c \in ClientIds : brokerIds[c] # None => brokerIds[c] # b /\ brokerIds[c] \in BrokerIds
  BY <1>1 DEF IInv, Tracking, OrderOf, TypeInv, TypeOK, RuntimeTypeOK
<1>11. statuses[r.client] # "Rejected"
  BY <1>2 DEF IInv, SettledByVenue, SettledAt
<1>16. \A id \in ClientIds, c \in BrokerIds :
         /\ OrderOf(c, id) => c # b
         /\ id # r.client => (OrderOf(c, id)' <=> OrderOf(c, id))
  BY <1>1, <1>4 DEF OrderOf
<1>12. SettledByVenue'
  <2> SUFFICES ASSUME NEW id \in ClientIds PROVE SettledAt(id)'
    BY DEF SettledByVenue
  <2>1. SettledAt(id) BY DEF IInv, SettledByVenue
  <2>2. CASE id = r.client
    BY <1>1, <1>4, <1>6, <1>10, <1>11, <2>1, <2>2 DEF SettledAt, OrderOf, Live
  <2>3. CASE id # r.client
    BY <1>1, <1>4, <1>10, <1>16, <2>1, <2>3 DEF SettledAt, Live
  <2> QED BY <2>2, <2>3
<1>13. Tracking'
  BY <1>4, <1>10 DEF IInv, Tracking, OrderOf, Open
<1>14. OpenSetExact' /\ OpenUnbooked'
  BY DEF IInv, OpenSetExact, OpenUnbooked, Open
<1>15. BookedOnce'
  BY <1>1, <1>4 DEF IInv, BookedOnce
<1> QED BY <1>7, <1>8, <1>9, <1>12, <1>13, <1>14, <1>15 DEF Settled

\* The venue drops a request, with or without saying so.
LEMMA RefuseLoseKeeps ==
  ASSUME IInv, NEW r \in wire, Refuse(r) \/ Lose(r),
         UNCHANGED <<machineVars, idVars, syncVars, bookVars>>
  PROVE  Settled' /\ Tracking'
<1>1. /\ wire' = wire \ {r} /\ UNCHANGED venue
      /\ replies' = replies \/ replies' = replies \cup {Reply(r, None)}
  BY DEF Refuse, Lose
<1>2. Reply(r, None).client = r.client /\ Reply(r, None).broker = None BY DEF Reply
<1>3. /\ \A a \in replies : a.client # r.client
      /\ \A q \in wire : q # r => q.client # r.client
  BY DEF IInv, OneFate
<1>4. SentRegistered'
  BY <1>1, <1>2 DEF IInv, SentRegistered, Registered
<1>5. OneFate'
  BY <1>1, <1>2, <1>3 DEF IInv, OneFate, OrderOf
<1>6. VenueSane' /\ BookedOnce' /\ OpenSetExact' /\ OpenUnbooked' /\ Tracking'
  BY <1>1 DEF IInv, VenueSane, BookedOnce, OpenSetExact, OpenUnbooked, Tracking, Open, OrderOf
<1>7. SettledByVenue'
  BY <1>1 DEF IInv, SettledByVenue, SettledAt, OrderOf
<1> QED BY <1>4, <1>5, <1>6, <1>7 DEF Settled

\* An order changes at the venue: only while open, and only forwards.
LEMMA VenueOrderKeeps ==
  ASSUME IInv, NEW b \in BrokerIds, Fill(b) \/ Cancel(b),
         UNCHANGED <<machineVars, idVars, syncVars, bookVars>>
  PROVE  Settled' /\ Tracking'
<1>1. venue[b] # None /\ venue[b].open /\ UNCHANGED <<wire, replies>>
  BY DEF Fill, Cancel
<1>2. \A c \in BrokerIds : c # b => venue'[c] = venue[c]
  BY DEF Fill, Cancel, IInv, TypeInv, TypeOK, VenueTypeOK
<1>3. venue[b] \in VenueOrders
  BY <1>1 DEF IInv, TypeInv, TypeOK, VenueTypeOK
<1>4. /\ venue[b].client \in ClientIds /\ venue[b].qty \in Nat /\ venue[b].filled \in Nat
      /\ venue[b].filled < venue[b].qty
  BY <1>1, ClientTypes DEF IInv, VenueSane
<1>5. /\ venue'[b] \in VenueOrders
      /\ venue'[b].client = venue[b].client /\ venue'[b].qty = venue[b].qty
      /\ \/ venue'[b].filled = venue[b].filled /\ ~venue'[b].open
         \/ /\ venue'[b].filled = venue[b].filled + 1
            /\ venue'[b].open <=> venue[b].filled + 1 < venue[b].qty
  <2>1. CASE Fill(b)
    <3>1. venue'[b] = [venue[b] EXCEPT !.filled = @ + 1,
                                       !.open = venue[b].filled + 1 < venue[b].qty]
      BY <2>1 DEF Fill, IInv, TypeInv, TypeOK, VenueTypeOK
    <3>2. venue[b].filled + 1 \in Nat /\ (venue[b].filled + 1 < venue[b].qty) \in BOOLEAN
      BY <1>4
    <3>3. venue'[b] \in VenueOrders
      BY <1>3, <3>1, <3>2, UpdatedOrder
    <3> QED BY <1>3, <3>1, <3>3 DEF VenueOrders
  <2>2. CASE Cancel(b)
    <3>1. venue'[b] = [venue[b] EXCEPT !.open = FALSE]
      BY <2>2 DEF Cancel, IInv, TypeInv, TypeOK, VenueTypeOK
    <3> QED BY <1>3, <3>1 DEF VenueOrders
  <2> QED BY <2>1, <2>2
<1>6. venue'[b] # None BY <1>5, NoOrderAssumption
<1>15. \A c \in BrokerIds :
         /\ venue'[c] = None <=> venue[c] = None
         /\ venue'[c].client = venue[c].client
         /\ \A id \in ClientIds : OrderOf(c, id)' <=> OrderOf(c, id)
  BY <1>1, <1>2, <1>5, <1>6 DEF OrderOf
<1>7. SentRegistered'
  BY <1>1, <1>15 DEF IInv, SentRegistered, Registered
<1>16. OneFate'
  <2>1. \A c \in BrokerIds : venue'[c] # None =>
          \E a \in replies : a.client = venue'[c].client /\ a.broker = c
    BY <1>15 DEF IInv, OneFate
  <2>2. \A a \in replies : a.broker # None => a.broker \in BrokerIds /\ a.client \in ClientIds
    BY DEF IInv, TypeInv, TypeOK, VenueTypeOK, Replies
  <2>3. \A a \in replies : a.broker # None => OrderOf(a.broker, a.client)'
    BY <1>15, <2>2 DEF IInv, OneFate
  <2> QED BY <1>1, <2>1, <2>3 DEF IInv, OneFate
<1>8. VenueSane'
  BY <1>2, <1>4, <1>5 DEF IInv, VenueSane
<1>9. OpenSetExact' /\ OpenUnbooked'
  BY DEF IInv, OpenSetExact, OpenUnbooked, Open
<1>17. \A id \in ClientIds : brokerIds[id] # None => brokerIds[id] \in BrokerIds
  BY DEF IInv, TypeInv, TypeOK, RuntimeTypeOK
<1>10. Tracking'
  BY <1>15, <1>17 DEF IInv, Tracking, Open
<1>11. \A id \in ClientIds : brokerIds[id] = b => statuses[id] \notin {"Filled", "Cancelled"}
  BY <1>1 DEF IInv, SettledByVenue, SettledAt
<1>12. SettledByVenue'
  <2> SUFFICES ASSUME NEW id \in ClientIds PROVE SettledAt(id)'
    BY DEF SettledByVenue
  <2>1. SettledAt(id) BY DEF IInv, SettledByVenue
  <2>2. CASE brokerIds[id] = b
    BY <1>1, <1>4, <1>5, <1>11, <1>15, <2>1, <2>2 DEF SettledAt
  <2>3. CASE brokerIds[id] # b
    <3>1. brokerIds[id] # None => venue'[brokerIds[id]] = venue[brokerIds[id]]
      BY <1>2, <1>17, <2>3
    <3> QED BY <1>1, <1>15, <1>17, <2>1, <3>1 DEF SettledAt, Live
  <2> QED BY <2>2, <2>3
<1>13. statuses[venue[b].client] # "Filled"
  <2> SUFFICES ASSUME statuses[venue[b].client] = "Filled" PROVE FALSE OBVIOUS
  <2>1. OrderOf(brokerIds[venue[b].client], venue[b].client)
    BY <1>4 DEF IInv, SettledByVenue, SettledAt
  <2>2. brokerIds[venue[b].client] \in BrokerIds
    BY <1>4 DEF IInv, SettledByVenue, SettledAt, TypeInv, TypeOK, RuntimeTypeOK
  <2>3. brokerIds[venue[b].client] = b
    BY <1>1, <2>1, <2>2, UniqueOrder DEF IInv, OrderOf
  <2> QED BY <1>4, <1>11, <2>3
<1>14. BookedOnce'
  BY <1>2, <1>13 DEF IInv, BookedOnce
<1> QED BY <1>7, <1>8, <1>9, <1>10, <1>12, <1>14, <1>16 DEF Settled

LEMMA VenueKeeps ==
  ASSUME IInv, Venue
  PROVE  Settled' /\ Tracking'
<1>1. UNCHANGED <<machineVars, idVars, syncVars, bookVars>> BY DEF Venue
<1>2. ASSUME NEW r \in wire, NEW b \in BrokerIds, AcceptAgain(r, b)
      PROVE  FALSE
  BY <1>2 DEF AcceptAgain, IInv, OneFate, OrderOf
<1> QED BY <1>1, <1>2, AcceptKeeps, RefuseLoseKeeps, VenueOrderKeeps DEF Venue, VenueStep

\* Only the decision pass changes what submit() waits for, and only the
\* synchronisation pass what is being closed.
LEMMA ControlStep ==
  ASSUME IInv, [Next]_vars
  PROVE  ControlState'
<1>1. CASE Submit
  <2>1. order.client \in ClientIds /\ statuses' = [statuses EXCEPT ![order.client] = "Pending"]
    BY <1>1 DEF Submit, Register, IInv, TypeInv, TypeOK, RuntimeTypeOK, OrderInHand, Requests
  <2> QED BY <1>1, <2>1 DEF Submit, ControlState, IInv, TypeInv, TypeOK, MachineTypeOK
<1>2. CASE Decide /\ ~Submit
  BY <1>2 DEF Decide, ControlState, Tick, SkipIntent, PassRisk, ReceiveAck,
              ReceiveRejection, AnswerLost, IInv
<1>3. CASE Sync
  BY <1>3 DEF Sync, ControlState, BeginSync, AbortCycle, EndSync, SyncReport,
              SyncLookupFails, ApplyFills, ApplyFillsLookupFails, IInv
<1>4. CASE ActivateKillSwitch \/ DeactivateKillSwitch \/ Venue \/ UNCHANGED vars
  BY <1>4 DEF ActivateKillSwitch, DeactivateKillSwitch, Venue, vars, ControlState, IInv
<1> QED BY <1>1, <1>2, <1>3, <1>4 DEF Next

\* A step that changes no status, venue, id or book keeps Tracking when it
\* leaves what is to be visited alone, takes it anew, or shortens it.
LEMMA QuietKeeps ==
  ASSUME IInv, UNCHANGED <<machineVars, venueVars, idVars, bookVars, closing>>,
         syncTodo' \subseteq syncTodo \/ (syncTodo' = Open(openLocal) /\ closing = {})
  PROVE  Settled' /\ Tracking'
<1>1. Tracking' BY DEF IInv, Tracking, Open, OrderOf
<1> QED BY <1>1, QuietStep

LEMMA InvInit == Init => IInv
<1> SUFFICES ASSUME Init PROVE IInv OBVIOUS
<1> USE DEF Init, MachineInit, VenueInit, RuntimeInit
<1>1. TypeInv
  <2>1. MachineTypeOK BY DEF MachineTypeOK
  <2>2. VenueTypeOK BY DEF VenueTypeOK
  <2>3. orderSeq \in 0 .. MaxOrders /\ life \in Lives BY MaxOrdersAssumption, LivesAssumption
  <2>4. RuntimeTypeOK BY <2>3 DEF RuntimeTypeOK
  <2> QED BY <2>1, <2>2, <2>4 DEF TypeInv, TypeOK, OrderInHand
<1>2. Tracking /\ ControlState
  BY DEF Tracking, ControlState, Open
<1>3. SentRegistered /\ OneFate /\ VenueSane
  BY DEF SentRegistered, OneFate, VenueSane
<1>4. SettledByVenue /\ OpenSetExact
  BY DEF SettledByVenue, SettledAt, OpenSetExact, Open, Live
<1>5. BookedOnce /\ OpenUnbooked
  BY DEF BookedOnce, OpenUnbooked, Open
<1> QED BY <1>1, <1>2, <1>3, <1>4, <1>5 DEF IInv

LEMMA InvStep == IInv /\ [Next]_vars => IInv'
<1> SUFFICES ASSUME IInv, [Next]_vars PROVE IInv' OBVIOUS
<1>1. TypeInv' BY TypeStep DEF IInv
<1>2. ControlState' BY ControlStep
<1>3. Settled' /\ Tracking'
  <2>1. CASE Tick \/ SkipIntent
    BY <2>1, QuietKeeps DEF Tick, SkipIntent
  <2>2. CASE \E s \in Symbols, side \in Sides, q \in Quantities : PassRisk(s, side, q)
    BY <2>2, QuietKeeps DEF PassRisk
  <2>3. CASE AbortCycle \/ EndSync \/ \E id \in ClientIds : SyncLookupFails(id)
    BY <2>3, QuietKeeps DEF AbortCycle, EndSync, SyncLookupFails
  <2>4. CASE BeginSync
    BY <2>4, QuietKeeps DEF BeginSync, IInv, ControlState
  <2>5. CASE ActivateKillSwitch \/ DeactivateKillSwitch \/ UNCHANGED vars
    BY <2>5, QuietKeeps DEF ActivateKillSwitch, DeactivateKillSwitch, vars
  <2>6. CASE Submit \/ ReceiveRejection \/ AnswerLost \/ \E b \in BrokerIds : ReceiveAck(b)
    BY <2>6, SubmitKeeps, ReceiveRejectionKeeps, AnswerLostKeeps, ReceiveAckKeeps
  <2>7. CASE \E id \in ClientIds :
               SyncReport(id) \/ ApplyFills(id) \/ ApplyFillsLookupFails(id)
    BY <2>7, SyncReportKeeps, ApplyFillsKeeps
  <2>8. CASE Venue
    BY <2>8, VenueKeeps
  <2> QED BY <2>1, <2>2, <2>3, <2>4, <2>5, <2>6, <2>7, <2>8 DEF Next, Decide, Sync
<1> QED BY <1>1, <1>2, <1>3 DEF IInv, Settled

\* The inductive invariant holds in every reachable state of the runtime.
THEOREM InvariantHolds == Spec => []IInv
BY InvInit, InvStep, PTL DEF Spec

\* Every variable keeps its type; in particular the portfolio and the venue's
\* holdings never go negative (Portfolio::apply_fill's check of a sell).
THEOREM TypeCorrect == Spec => []TypeOK
<1>1. IInv => TypeOK BY DEF IInv, TypeInv
<1> QED BY <1>1, InvariantHolds, PTL

\* A local status that claims something about the venue is true there
\* (gateway submit and reconcile, sync_execution).
THEOREM StatusesAreTrue == Spec => []SettledByVenue
<1>1. IInv => SettledByVenue BY DEF IInv
<1> QED BY <1>1, InvariantHolds, PTL

\* The gateway never lets one client id become two orders, whether or not the
\* venue recognises an id it has seen.
THEOREM OneOrderPerId == Spec => []NoDoubleOrder
<1>1. IInv => NoDoubleOrder
  BY UniqueOrder DEF IInv, NoDoubleOrder, SentRegistered
<1> QED BY <1>1, InvariantHolds, PTL

\* open_local is exactly the set of orders that may still trade.
THEOREM OpenSetIsExact == Spec => []OpenSetExact
<1>1. IInv => OpenSetExact BY DEF IInv
<1> QED BY <1>1, InvariantHolds, PTL

\* Fills reach the portfolio at most once (apply_fills).
THEOREM FillsBookedOnce == Spec => []BookedOnce
<1>1. IInv => BookedOnce BY DEF IInv
<1> QED BY <1>1, InvariantHolds, PTL

\* sync_execution never attempts an illegal transition.
THEOREM ReportsLegal == Spec => []ReportsAreLegalSteps
<1>1. ASSUME IInv PROVE ReportsAreLegalSteps
  <2> SUFFICES ASSUME NEW id \in Open(openLocal) \ closing
               PROVE  LET target == TargetStatus(venue[openLocal[id]])
                      IN target = statuses[id] \/ target \in Transitions(statuses[id])
    BY DEF ReportsAreLegalSteps
  <2>1. id \in ClientIds /\ statuses[id] \in Live
    BY <1>1 DEF IInv, OpenSetExact, Open
  <2>2. statuses[id] = "PartiallyFilled" => venue[openLocal[id]].filled > 0
    BY <1>1, <2>1 DEF IInv, Tracking, SettledByVenue, SettledAt, Open
  <2> QED BY <2>1, <2>2 DEF TargetStatus, Transitions, Live
<1> QED BY <1>1, InvariantHolds, PTL

-----------------------------------------------------------------------------
(* Order ids.                                                              *)

\* Within one process no id is drawn that the gateway or the state machine has
\* seen: submit() never refuses a duplicate (runtime/mod.rs:164-166).
THEOREM IdsStayFresh == Spec => []IdsAreFresh
<1>1. Init => IdsAreFresh
  BY DEF Init, MachineInit, RuntimeInit, IdsAreFresh, AlreadyUsed, Registered
<1>2. ASSUME IInv, IdsAreFresh, [Next]_vars PROVE IdsAreFresh'
  <2> USE DEF IdsAreFresh, AlreadyUsed, Registered
  <2>1. /\ orderSeq \in Nat /\ \A id \in ClientIds : id \in Nat
        /\ order # None => order.client \in ClientIds
        /\ order # None <=> pc \in {"checked", "awaiting"}
    BY <1>2, MaxOrdersAssumption
       DEF IInv, TypeInv, TypeOK, RuntimeTypeOK, OrderInHand, Requests, ClientIds
  <2>2. CASE SkipIntent
    BY <1>2, <2>1, <2>2 DEF SkipIntent
  <2>3. CASE \E s \in Symbols, side \in Sides, q \in Quantities : PassRisk(s, side, q)
    <3>1. /\ orderSeq' = orderSeq + 1 /\ order'.client = orderSeq + 1
          /\ UNCHANGED <<statuses, brokerIds>>
      BY <2>3 DEF PassRisk
    <3>2. orderSeq + 1 \in ClientIds
      BY <2>1, <2>3, MaxOrdersAssumption DEF PassRisk, ClientIds
    <3> QED BY <1>2, <2>1, <3>1, <3>2
  <2>4. CASE Submit
    <3>1. /\ UNCHANGED <<orderSeq, order, brokerIds>> /\ pc' = "awaiting"
          /\ \A id \in ClientIds : id # order.client => statuses'[id] = statuses[id]
      BY <1>2, <2>4 DEF Submit, Register, IInv, TypeInv, TypeOK, MachineTypeOK
    <3> QED BY <1>2, <2>1, <2>4, <3>1 DEF Submit
  <2>5. CASE ReceiveRejection \/ AnswerLost \/ \E b \in BrokerIds : ReceiveAck(b)
    <3>1. /\ pc = "awaiting" /\ order' = None /\ pc' = "deciding" /\ orderSeq' = orderSeq
          /\ \A id \in ClientIds : id # order.client =>
                brokerIds'[id] = brokerIds[id] /\ statuses'[id] = statuses[id]
      BY <1>2, <2>5 DEF ReceiveRejection, AnswerLost, MarkUnknown, ReceiveAck, Transition,
                        IInv, TypeInv, TypeOK, MachineTypeOK, RuntimeTypeOK
    <3> QED BY <1>2, <2>1, <3>1
  <2>6. CASE \E id \in ClientIds : SyncReport(id)
    <3>1. PICK id \in ClientIds : SyncReport(id) BY <2>6
    <3>2. /\ UNCHANGED <<orderSeq, order, brokerIds, pc>> /\ pc = "syncing"
          /\ UNCHANGED statuses \/ Transition(id, TargetStatus(venue[openLocal[id]]))
      BY <3>1 DEF SyncReport
    <3>3. CASE UNCHANGED statuses BY <1>2, <2>1, <3>2, <3>3
    <3>4. CASE Transition(id, TargetStatus(venue[openLocal[id]]))
      <4>1. /\ statuses[id] # "Unregistered"
            /\ \A c \in ClientIds : c # id => statuses'[c] = statuses[c]
        BY <1>2, <3>4, TransitionMoves, TargetIsStatus
      <4> QED BY <1>2, <2>1, <3>2, <4>1
    <3> QED BY <3>2, <3>3, <3>4
  <2>7. CASE UNCHANGED <<statuses, brokerIds, orderSeq, order>>
             /\ (pc' = pc \/ pc' # "checked")
    BY <1>2, <2>7
  <2>8. CASE Tick \/ BeginSync \/ AbortCycle \/ EndSync \/ Venue
             \/ ActivateKillSwitch \/ DeactivateKillSwitch \/ UNCHANGED vars
    BY <2>7, <2>8 DEF Tick, BeginSync, AbortCycle, EndSync, Venue,
                      ActivateKillSwitch, DeactivateKillSwitch, vars
  <2>9. CASE \E id \in ClientIds :
               SyncLookupFails(id) \/ ApplyFills(id) \/ ApplyFillsLookupFails(id)
    BY <2>7, <2>9 DEF SyncLookupFails, ApplyFills, ApplyFillsLookupFails
  <2> QED
    BY <1>2, <2>2, <2>3, <2>4, <2>5, <2>6, <2>8, <2>9 DEF Next, Decide, Sync
<1> QED BY <1>1, <1>2, InvariantHolds, PTL DEF Spec

-----------------------------------------------------------------------------
(* The kill switch.                                                        *)

\* An order checked before the switch went on is the only one that can still
\* leave.
KillInv ==
  /\ sentUnderKill \in Nat
  /\ killActive => sentUnderKill <= 1
  /\ killActive /\ pc = "checked" => sentUnderKill = 0

\* Once the kill switch is on, at most one more order leaves: the one that had
\* passed check_order before.
THEOREM KillSwitchStops == Spec => []KillSwitchBound
<1>1. Init => KillInv
  BY DEF Init, RuntimeInit, KillInv
<1>2. ASSUME KillInv, [Next]_vars PROVE KillInv'
  <2> USE DEF KillInv
  <2>1. CASE Submit BY <1>2, <2>1 DEF Submit
  <2>2. CASE \E s \in Symbols, side \in Sides, q \in Quantities : PassRisk(s, side, q)
    BY <1>2, <2>2 DEF PassRisk, RiskAllows
  <2>3. CASE Decide /\ ~Submit /\
             ~\E s \in Symbols, side \in Sides, q \in Quantities : PassRisk(s, side, q)
    BY <1>2, <2>3 DEF Decide, Tick, SkipIntent, ReceiveAck,
                      ReceiveRejection, AnswerLost
  <2>4. CASE Sync
    BY <1>2, <2>4 DEF Sync, BeginSync, AbortCycle, EndSync, SyncReport, SyncLookupFails,
                      ApplyFills, ApplyFillsLookupFails
  <2>5. CASE ActivateKillSwitch BY <1>2, <2>5 DEF ActivateKillSwitch
  <2>6. CASE DeactivateKillSwitch BY <1>2, <2>6 DEF DeactivateKillSwitch
  <2>7. CASE Venue BY <1>2, <2>7 DEF Venue
  <2>8. CASE UNCHANGED vars BY <1>2, <2>8 DEF vars
  <2> QED BY <1>2, <2>1, <2>2, <2>3, <2>4, <2>5, <2>6, <2>7, <2>8 DEF Next
<1>3. KillInv => KillSwitchBound BY DEF KillInv, KillSwitchBound
<1> QED BY <1>1, <1>2, <1>3, PTL DEF Spec

-----------------------------------------------------------------------------
(* The state machine.                                                      *)

\* All a step of the runtime does to the state machine is to register one
\* order at Pending or to take one transition.
LEMMA MachineSteps ==
  ASSUME IInv, [Next]_vars
  PROVE  \/ UNCHANGED machineVars
         \/ \E id \in ClientIds : Register(id, "Pending")
         \/ \E id \in ClientIds, to \in Statuses : Transition(id, to)
<1>1. pc \in {"checked", "awaiting"} => order.client \in ClientIds
  BY DEF IInv, TypeInv, TypeOK, RuntimeTypeOK, OrderInHand, Requests
<1>2. CASE Submit
  BY <1>1, <1>2 DEF Submit
<1>3. CASE ReceiveRejection \/ AnswerLost \/ \E b \in BrokerIds : ReceiveAck(b)
  BY <1>1, <1>3 DEF ReceiveRejection, AnswerLost, MarkUnknown, ReceiveAck, Statuses
<1>4. CASE \E id \in ClientIds : SyncReport(id)
  BY <1>4, TargetIsStatus DEF SyncReport
<1>5. CASE UNCHANGED machineVars
  BY <1>5
<1>6. CASE Decide
  BY <1>2, <1>3, <1>5, <1>6 DEF Decide, Tick, SkipIntent, PassRisk
<1>7. CASE Sync
  BY <1>4, <1>5, <1>7 DEF Sync, BeginSync, AbortCycle, EndSync, SyncLookupFails,
                          ApplyFills, ApplyFillsLookupFails
<1> QED
  BY <1>5, <1>6, <1>7 DEF Next, Venue, ActivateKillSwitch, DeactivateKillSwitch, vars

\* The audit trail of every order is an unbroken chain of rows of the table
\* ending at the order's status (StateMachine::transition).
THEOREM AuditTrailUnbroken == Spec => []AuditTrail
<1>1. Init => AuditTrail
  BY DEF Init, MachineInit, AuditTrail
<1>2. ASSUME IInv, AuditTrail, [Next]_vars PROVE AuditTrail'
  <2>1. CASE UNCHANGED machineVars
    BY <1>2, <2>1 DEF AuditTrail
  <2>2. ASSUME NEW id \in ClientIds, Register(id, "Pending") PROVE AuditTrail'
    <3>1. statuses[id] = "Unregistered" /\ UNCHANGED history
      BY <2>2 DEF Register, Registered
    <3>2. statuses'[id] = "Pending" /\ \A c \in ClientIds : c # id => statuses'[c] = statuses[c]
      BY <1>2, <2>2 DEF Register, IInv, TypeInv, TypeOK, MachineTypeOK
    <3>3. history[id] = <<>>
      <4> SUFFICES ASSUME history[id] # <<>> PROVE FALSE OBVIOUS
      <4>1. history[id] \in Seq(Events)
        BY <1>2 DEF IInv, TypeInv, TypeOK, MachineTypeOK
      <4>2. history[id][Len(history[id])] \in Events
        BY <4>1
      <4>3. history[id][Len(history[id])].to = "Unregistered"
        BY <1>2, <3>1 DEF AuditTrail
      <4> QED BY <4>2, <4>3 DEF Events, Statuses
    <3> QED BY <1>2, <3>1, <3>2, <3>3 DEF AuditTrail
  <2>3. ASSUME NEW id \in ClientIds, NEW to \in Statuses, Transition(id, to)
        PROVE AuditTrail'
    <3> DEFINE e == [from |-> statuses[id], to |-> to]
               h == history[id]
               n == Len(history[id])
    <3>1. /\ history[id] \in Seq(Events) /\ n \in Nat
          /\ e \in Events /\ to \in Transitions(statuses[id])
      <4>1. statuses[id] \in Statuses
        BY <1>2, <2>3, TransitionMoves DEF Statuses
      <4>2. history[id] \in Seq(Events)
        BY <1>2 DEF IInv, TypeInv, TypeOK, MachineTypeOK
      <4>3. n \in Nat BY <4>2
      <4>4. e \in Events BY <4>1 DEF Events
      <4>5. to \in Transitions(statuses[id]) BY <2>3 DEF Transition
      <4> QED BY <4>2, <4>3, <4>4, <4>5
    <3>2. /\ history'[id] = Append(h, e) /\ statuses'[id] = to
          /\ \A c \in ClientIds : c # id => history'[c] = history[c] /\ statuses'[c] = statuses[c]
      BY <1>2, <2>3 DEF Transition, IInv, TypeInv, TypeOK, MachineTypeOK
    <3>3. /\ Len(history'[id]) = n + 1 /\ history'[id][n + 1] = e /\ history'[id] # <<>>
          /\ \A k \in 1 .. n : history'[id][k] = h[k]
      BY <3>1, <3>2
    <3>4. h # <<>> => h[n].to = statuses[id] /\ n >= 1
      BY <1>2, <3>1 DEF AuditTrail
    <3> SUFFICES ASSUME NEW c \in ClientIds
                 PROVE  /\ \A k \in 1 .. Len(history'[c]) :
                             history'[c][k].to \in Transitions(history'[c][k].from)
                        /\ \A k \in 2 .. Len(history'[c]) :
                             history'[c][k].from = history'[c][k - 1].to
                        /\ history'[c] # <<>> => history'[c][Len(history'[c])].to = statuses'[c]
                        /\ history'[c] = <<>> => statuses'[c] \in {"Unregistered", "Pending", "Unknown"}
      BY DEF AuditTrail
    <3>5. CASE c # id
      BY <1>2, <3>2, <3>5 DEF AuditTrail
    <3>6. CASE c = id
      <4>1. ASSUME NEW k \in 1 .. n + 1
            PROVE  history'[id][k].to \in Transitions(history'[id][k].from)
        <5>1. CASE k = n + 1 BY <3>1, <3>3, <5>1
        <5>2. CASE k # n + 1
          <6>1. k \in 1 .. n BY <3>1, <5>2
          <6> QED BY <1>2, <3>3, <6>1 DEF AuditTrail
        <5> QED BY <5>1, <5>2
      <4>2. ASSUME NEW k \in 2 .. n + 1
            PROVE  history'[id][k].from = history'[id][k - 1].to
        <5>1. CASE k = n + 1
          <6>1. n \in 1 .. n /\ h # <<>> /\ k - 1 = n BY <3>1, <5>1
          <6> QED BY <3>3, <3>4, <5>1, <6>1
        <5>2. CASE k # n + 1
          <6>1. k \in 2 .. n /\ k \in 1 .. n /\ k - 1 \in 1 .. n BY <3>1, <5>2
          <6> QED BY <1>2, <3>3, <6>1 DEF AuditTrail
        <5> QED BY <5>1, <5>2
      <4>3. history'[id][n + 1].to = statuses'[id] BY <3>2, <3>3
      <4> HIDE DEF n, h, e
      <4> QED BY <3>3, <3>6, <4>1, <4>2, <4>3
    <3> QED BY <3>5, <3>6
  <2> QED BY <1>2, <2>1, <2>2, <2>3, MachineSteps
<1> QED BY <1>1, <1>2, InvariantHolds, PTL DEF Spec

-----------------------------------------------------------------------------
(* The refinement: the trading runtime implements the safety part of       *)
(* OrderLifecycle.  Each of its steps and each of the venue's is a step of *)
(* the contract or leaves truth and belief alone.  First, how a change of  *)
(* truth or belief of one order maps.                                      *)

LEMMA StutterMaps ==
  ASSUME \A id \in ClientIds : VenueTruth(id)' = VenueTruth(id),
         \A id \in ClientIds : BeliefOf(statuses'[id]) = BeliefOf(statuses[id])
  PROVE  UNCHANGED Lifecycle!lifecycleVars
BY DEF Lifecycle!lifecycleVars, Truth, Belief

LEMMA BelieveMaps ==
  ASSUME NEW id \in ClientIds, NEW b, BeliefOf(statuses'[id]) = b,
         \A c \in ClientIds : VenueTruth(c)' = VenueTruth(c),
         \A c \in ClientIds : c # id => statuses'[c] = statuses[c]
  PROVE  Lifecycle!Believe(id, b)
<1>1. UNCHANGED Truth BY DEF Truth
<1>2. Belief' = [Belief EXCEPT ![id] = b] BY DEF Belief
<1> QED BY <1>1, <1>2 DEF Lifecycle!Believe

LEMMA HappenMaps ==
  ASSUME NEW id \in ClientIds, NEW t, VenueTruth(id)' = t, UNCHANGED statuses,
         \A c \in ClientIds : c # id => VenueTruth(c)' = VenueTruth(c)
  PROVE  Lifecycle!Happen(id, t)
<1>1. UNCHANGED Belief BY DEF Belief
<1>2. Truth' = [Truth EXCEPT ![id] = t] BY DEF Truth
<1> QED BY <1>1, <1>2 DEF Lifecycle!Happen

LEMMA Values ==
  ASSUME NEW id \in ClientIds
  PROVE  Truth[id] = VenueTruth(id) /\ Belief[id] = BeliefOf(statuses[id])
BY DEF Truth, Belief

\* What the venue's record of an order says is its truth: there is one record
\* per client id.
LEMMA TruthOfOrder ==
  ASSUME OneFate, NEW b \in BrokerIds, NEW id \in ClientIds, OrderOf(b, id)
  PROVE  VenueTruth(id) = IF venue[b].open THEN "working"
                          ELSE IF venue[b].filled = venue[b].qty THEN "filled"
                          ELSE "cancelled"
<1>1. \A c \in BrokerIds : OrderOf(c, id) => c = b
  BY UniqueOrder DEF OrderOf
<1> QED BY <1>1 DEF VenueTruth

\* The steps of the runtime itself leave the venue's truth alone.
LEMMA TruthKept ==
  ASSUME UNCHANGED <<venue, replies>>, NEW id \in ClientIds
  PROVE  VenueTruth(id)' = VenueTruth(id)
BY DEF VenueTruth, OrderOf

\* An order's truth depends on its own record and on a refusal of it only.
LEMMA TruthLocal ==
  ASSUME NEW c \in ClientIds,
         \A d \in BrokerIds : /\ OrderOf(d, c)' <=> OrderOf(d, c)
                              /\ OrderOf(d, c) => venue'[d] = venue[d],
         (\E a \in replies' : a.client = c /\ a.broker = None)
           <=> \E a \in replies : a.client = c /\ a.broker = None
  PROVE  VenueTruth(c)' = VenueTruth(c)
<1>1. (\E d \in BrokerIds : OrderOf(d, c) /\ venue[d].open)'
        <=> \E d \in BrokerIds : OrderOf(d, c) /\ venue[d].open
  BY DEF OrderOf
<1>2. (\E d \in BrokerIds : OrderOf(d, c) /\ venue[d].filled = venue[d].qty)'
        <=> \E d \in BrokerIds : OrderOf(d, c) /\ venue[d].filled = venue[d].qty
  BY DEF OrderOf
<1>3. (\E d \in BrokerIds : OrderOf(d, c))' <=> \E d \in BrokerIds : OrderOf(d, c)
  BY DEF OrderOf
<1> QED BY <1>1, <1>2, <1>3 DEF VenueTruth

LEMMA SubmitMaps ==
  ASSUME IInv, Submit
  PROVE  Lifecycle!LifecycleNext
<1> DEFINE id == order.client
<1>1. id \in ClientIds
  BY DEF IInv, TypeInv, TypeOK, RuntimeTypeOK, OrderInHand, Submit, Requests
<1>2. /\ statuses[id] = "Unregistered" /\ statuses'[id] = "Pending"
      /\ \A c \in ClientIds : c # id => statuses'[c] = statuses[c]
  BY <1>1 DEF Submit, Register, Registered, IInv, TypeInv, TypeOK, MachineTypeOK
<1>3. \A c \in ClientIds : VenueTruth(c)' = VenueTruth(c)
  BY TruthKept DEF Submit
<1>4. Lifecycle!Believe(id, "pending")
  BY <1>1, <1>2, <1>3, BelieveMaps DEF BeliefOf
<1>5. Belief[id] = "none" BY <1>1, <1>2, Values DEF BeliefOf
<1>6. Lifecycle!Submit(id) BY <1>4, <1>5 DEF Lifecycle!Submit
<1> QED BY <1>1, <1>6 DEF Lifecycle!LifecycleNext

LEMMA AnswerMaps ==
  ASSUME IInv, ReceiveRejection \/ AnswerLost \/ \E b \in BrokerIds : ReceiveAck(b)
  PROVE  Lifecycle!LifecycleNext
<1> DEFINE id == order.client
<1>1. id \in ClientIds /\ statuses[id] = "Pending"
  BY DEF IInv, TypeInv, TypeOK, RuntimeTypeOK, OrderInHand, ReceiveRejection, AnswerLost,
         ReceiveAck, Requests, ControlState
<1>2. \A c \in ClientIds : VenueTruth(c)' = VenueTruth(c)
  BY TruthKept DEF ReceiveRejection, AnswerLost, ReceiveAck
<1>3. Belief[id] = "pending" /\ Truth[id] = VenueTruth(id)
  BY <1>1, Values DEF BeliefOf
<1>4. CASE AnswerLost
  <2>1. statuses'[id] = "Unknown" /\ \A c \in ClientIds : c # id => statuses'[c] = statuses[c]
    BY <1>1, <1>4, TransitionMoves DEF AnswerLost, MarkUnknown, Statuses
  <2>2. Lifecycle!Believe(id, "unknown")
    BY <1>1, <1>2, <2>1, BelieveMaps DEF BeliefOf
  <2> QED BY <1>1, <1>3, <2>2 DEF Lifecycle!LoseTrack, Lifecycle!LifecycleNext
<1>5. CASE ReceiveRejection
  <2>1. statuses'[id] = "Rejected" /\ \A c \in ClientIds : c # id => statuses'[c] = statuses[c]
    BY <1>1, <1>5, TransitionMoves DEF ReceiveRejection, Statuses
  <2>2. Lifecycle!Believe(id, "rejected")
    BY <1>1, <1>2, <2>1, BelieveMaps DEF BeliefOf
  <2>3. Reply(order, None) \in replies /\ Reply(order, None).client = id /\ Reply(order, None).broker = None
    BY <1>5 DEF ReceiveRejection, Reply
  <2>4. \A c \in BrokerIds : ~OrderOf(c, id)
    BY <2>3, NoOrderAssumption DEF IInv, OneFate, OrderOf
  <2>5. Truth[id] = "refused"
    BY <1>3, <2>3, <2>4 DEF VenueTruth
  <2> QED BY <1>1, <1>3, <2>2, <2>5 DEF Lifecycle!Reject, Lifecycle!LifecycleNext
<1>6. CASE \E b \in BrokerIds : ReceiveAck(b)
  <2>1. PICK b \in BrokerIds : ReceiveAck(b) BY <1>6
  <2>2. statuses'[id] = "Submitted" /\ \A c \in ClientIds : c # id => statuses'[c] = statuses[c]
    BY <1>1, <2>1, TransitionMoves DEF ReceiveAck, Statuses
  <2>3. Lifecycle!Believe(id, "working")
    BY <1>1, <1>2, <2>2, BelieveMaps DEF BeliefOf
  <2>4. Reply(order, b) \in replies /\ Reply(order, b).client = id /\ Reply(order, b).broker = b
    BY <2>1 DEF ReceiveAck, Reply
  <2>5. OrderOf(b, id)
    BY <2>1, <2>4, NoOrderAssumption DEF IInv, OneFate
  <2>6. Truth[id] \in {"working"} \cup Lifecycle!Closed
    BY <1>1, <1>3, <2>5, TruthOfOrder DEF IInv, Lifecycle!Closed
  <2> QED BY <1>1, <1>3, <2>3, <2>6 DEF Lifecycle!Acknowledge, Lifecycle!LifecycleNext
<1> QED BY <1>4, <1>5, <1>6

LEMMA ReportMaps ==
  ASSUME IInv, NEW id \in ClientIds, SyncReport(id)
  PROVE  Lifecycle!LifecycleNext \/ UNCHANGED Lifecycle!lifecycleVars
<1> DEFINE v == venue[openLocal[id]]
           target == TargetStatus(v)
<1>1. /\ statuses[id] \in Live /\ openLocal[id] \in BrokerIds /\ OrderOf(openLocal[id], id)
      /\ UNCHANGED <<venue, replies>>
  BY PolledOrder DEF SyncReport
<1>2. \A c \in ClientIds : VenueTruth(c)' = VenueTruth(c)
  BY <1>1, TruthKept
<1>3. CASE target = statuses[id]
  <2>1. UNCHANGED statuses BY <1>3 DEF SyncReport
  <2> QED BY <1>2, <2>1, StutterMaps
<1>4. CASE target # statuses[id]
  <2>1. Transition(id, target) BY <1>4 DEF SyncReport
  <2>2. statuses'[id] = target /\ \A c \in ClientIds : c # id => statuses'[c] = statuses[c]
    BY <2>1, TransitionMoves, TargetIsStatus
  <2>3. CASE v.open
    <3>1. target \in Live BY <2>3 DEF TargetStatus, Live
    <3>2. BeliefOf(target) = "working" /\ BeliefOf(statuses[id]) = "working"
      BY <1>1, <3>1 DEF BeliefOf, Live
    <3> QED BY <1>2, <2>2, <3>2, StutterMaps
  <2>4. CASE ~v.open
    <3>1. v.qty \in Nat /\ v.filled \in Nat /\ v.filled <= v.qty
      BY <1>1, ClientTypes DEF IInv, VenueSane, OrderOf
    <3>2. VenueTruth(id) = IF v.filled = v.qty THEN "filled" ELSE "cancelled"
      BY <1>1, <2>4, TruthOfOrder DEF IInv
    <3>3. target = IF v.filled = v.qty THEN "Filled" ELSE "Cancelled"
      BY <2>4, <3>1 DEF TargetStatus
    <3>4. BeliefOf(target) = VenueTruth(id)
      BY <3>2, <3>3 DEF BeliefOf
    <3>5. Lifecycle!Believe(id, VenueTruth(id))
      BY <1>2, <2>2, <3>4, BelieveMaps
    <3>6. Belief[id] = "working" /\ Truth[id] = VenueTruth(id) /\ Truth[id] \in Lifecycle!Closed
      BY <1>1, <3>2, Values DEF BeliefOf, Live, Lifecycle!Closed
    <3> QED BY <3>5, <3>6 DEF Lifecycle!Settle, Lifecycle!LifecycleNext
  <2>5. v.open \in BOOLEAN BY <1>1, ClientTypes DEF IInv, OrderOf
  <2> QED BY <2>3, <2>4, <2>5
<1> QED BY <1>3, <1>4

\* The venue decides a request: its order's truth leaves "absent".
LEMMA DecisionMaps ==
  ASSUME IInv, NEW r \in wire, UNCHANGED statuses,
         Refuse(r) \/ \E b \in BrokerIds : Accept(r, b)
  PROVE  Lifecycle!LifecycleNext
<1> DEFINE id == r.client
<1>1. id \in ClientIds /\ r \in Requests /\ Registered(id)
  BY ClientTypes DEF IInv, SentRegistered, TypeInv, TypeOK, VenueTypeOK
<1>2. /\ \A c \in BrokerIds : ~OrderOf(c, id)
      /\ \A a \in replies : a.client # id
  BY DEF IInv, OneFate, OrderOf
<1>3. Truth[id] = "absent" BY <1>1, <1>2, Values DEF VenueTruth
<1>4. Belief[id] # "none"
  BY <1>1, Values DEF Registered, BeliefOf, IInv, TypeInv, TypeOK, MachineTypeOK, Statuses
<1>5. CASE Refuse(r)
  <2>1. /\ UNCHANGED venue /\ replies' = replies \cup {Reply(r, None)}
        /\ Reply(r, None).client = id /\ Reply(r, None).broker = None
    BY <1>5 DEF Refuse, Reply
  <2>2. VenueTruth(id)' = "refused" BY <1>2, <2>1 DEF VenueTruth, OrderOf
  <2>3. ASSUME NEW c \in ClientIds, c # id PROVE VenueTruth(c)' = VenueTruth(c)
    BY <2>1, <2>3 DEF VenueTruth, OrderOf
  <2>4. Lifecycle!Happen(id, "refused") BY <1>1, <2>2, <2>3, HappenMaps
  <2> QED BY <1>1, <1>3, <1>4, <2>4 DEF Lifecycle!TakeOrder, Lifecycle!LifecycleNext
<1>6. CASE \E b \in BrokerIds : Accept(r, b)
  <2> PICK b \in BrokerIds : Accept(r, b) BY <1>6
  <2> DEFINE new == [client |-> r.client, life |-> r.life, symbol |-> r.symbol,
                     side |-> r.side, qty |-> r.qty, filled |-> 0, open |-> TRUE]
  <2>1. /\ venue[b] = None /\ venue' = [venue EXCEPT ![b] = new]
        /\ replies' = replies \cup {Reply(r, b)} /\ Reply(r, b).client = id
        /\ Reply(r, b).broker = b /\ b # None
    BY NoOrderAssumption DEF Accept, Reply
  <2>2. new \in VenueOrders
    BY <1>1 DEF Requests, VenueOrders
  <2>3. venue'[b] = new /\ new # None /\ \A c \in BrokerIds : c # b => venue'[c] = venue[c]
    BY <2>1, <2>2, NoOrderAssumption DEF IInv, TypeInv, TypeOK, VenueTypeOK
  <2>4. OrderOf(b, id)' /\ venue'[b].open BY <2>3 DEF OrderOf
  <2>5. VenueTruth(id)' = "working" BY <2>4 DEF VenueTruth
  <2>6. ASSUME NEW c \in ClientIds, c # id PROVE VenueTruth(c)' = VenueTruth(c)
    <3>1. \A d \in BrokerIds : /\ OrderOf(d, c)' <=> OrderOf(d, c)
                               /\ OrderOf(d, c) => venue'[d] = venue[d]
      BY <2>1, <2>3, <2>6 DEF OrderOf
    <3>2. (\E a \in replies' : a.client = c /\ a.broker = None)
            <=> \E a \in replies : a.client = c /\ a.broker = None
      BY <2>1, <2>6
    <3> QED BY <3>1, <3>2, TruthLocal
  <2>7. Lifecycle!Happen(id, "working") BY <1>1, <2>5, <2>6, HappenMaps
  <2> QED BY <1>1, <1>3, <1>4, <2>7 DEF Lifecycle!TakeOrder, Lifecycle!LifecycleNext
<1> QED BY <1>5, <1>6

\* An open order fills or is cancelled: its truth stays "working" or becomes
\* final.
LEMMA TradeMaps ==
  ASSUME IInv, IInv', NEW b \in BrokerIds, UNCHANGED statuses, Fill(b) \/ Cancel(b)
  PROVE  Lifecycle!LifecycleNext \/ UNCHANGED Lifecycle!lifecycleVars
<1>1. /\ venue[b] # None /\ venue[b].open /\ UNCHANGED replies
      /\ \A c \in BrokerIds : c # b => venue'[c] = venue[c]
  BY DEF Fill, Cancel, IInv, TypeInv, TypeOK, VenueTypeOK
<1> PICK id \in ClientIds : id = venue[b].client
  BY <1>1, ClientTypes DEF IInv
<1>2. venue[b] \in VenueOrders /\ OrderOf(b, id)
  BY <1>1 DEF IInv, TypeInv, TypeOK, VenueTypeOK, OrderOf
<1>3. venue'[b].client = id /\ venue'[b] # None /\ venue'[b].open \in BOOLEAN
  <2>1. venue'[b].client = id BY <1>1, <1>2 DEF Fill, Cancel, IInv, TypeInv, TypeOK, VenueTypeOK, VenueOrders
  <2>2. \E a \in replies : a.client = id /\ a.broker = b BY <1>1 DEF IInv, OneFate
  <2>3. b # None BY NoOrderAssumption
  <2>4. venue'[b] # None BY <1>1, <2>2, <2>3 DEF IInv, OneFate, OrderOf
  <2> QED BY <2>1, <2>4 DEF IInv, TypeInv, TypeOK, VenueTypeOK, VenueOrders
<1>4. \A c \in BrokerIds : OrderOf(c, id)' => c = b
  BY <1>1, <1>3, UniqueOrder DEF OrderOf, IInv
<1>5. VenueTruth(id)' = IF venue'[b].open THEN "working"
                        ELSE IF venue'[b].filled = venue'[b].qty THEN "filled" ELSE "cancelled"
  BY <1>3, <1>4 DEF VenueTruth, OrderOf
<1>6. VenueTruth(id) = "working" BY <1>1, <1>2 DEF VenueTruth
<1>7. ASSUME NEW c \in ClientIds, c # id PROVE VenueTruth(c)' = VenueTruth(c)
  <2>1. \A d \in BrokerIds : /\ OrderOf(d, c)' <=> OrderOf(d, c)
                             /\ OrderOf(d, c) => venue'[d] = venue[d]
    BY <1>1, <1>3, <1>7 DEF OrderOf
  <2> QED BY <1>1, <2>1, TruthLocal
<1>8. CASE venue'[b].open
  <2>1. \A c \in ClientIds : VenueTruth(c)' = VenueTruth(c)
    BY <1>5, <1>6, <1>7, <1>8
  <2> QED BY <2>1, StutterMaps
<1>9. CASE ~venue'[b].open
  <2> DEFINE t == IF venue'[b].filled = venue'[b].qty THEN "filled" ELSE "cancelled"
  <2>1. Lifecycle!Happen(id, t)
    BY <1>2, <1>5, <1>7, <1>9, HappenMaps
  <2>2. Truth[id] = "working" /\ t \in Lifecycle!Closed
    BY <1>2, <1>6, Values DEF Lifecycle!Closed
  <2>3. Lifecycle!CloseOrder(id)
    BY <2>1, <2>2 DEF Lifecycle!CloseOrder
  <2> QED BY <1>2, <2>3 DEF Lifecycle!LifecycleNext
<1> QED BY <1>3, <1>8, <1>9

LEMMA InitMaps == Init => Lifecycle!LifecycleInit
<1> SUFFICES ASSUME Init PROVE Lifecycle!LifecycleInit OBVIOUS
<1>1. \A id \in ClientIds : VenueTruth(id) = "absent" /\ BeliefOf(statuses[id]) = "none"
  BY DEF Init, MachineInit, VenueInit, VenueTruth, OrderOf, BeliefOf
<1> QED BY <1>1 DEF Lifecycle!LifecycleInit, Truth, Belief

LEMMA StepMaps ==
  ASSUME IInv, IInv', [Next]_vars
  PROVE  Lifecycle!LifecycleNext \/ UNCHANGED Lifecycle!lifecycleVars
<1>1. CASE UNCHANGED <<statuses, venue, replies>>
  BY <1>1, StutterMaps, TruthKept
<1>2. CASE Tick \/ SkipIntent
           \/ \E s \in Symbols, side \in Sides, q \in Quantities : PassRisk(s, side, q)
  BY <1>1, <1>2 DEF Tick, SkipIntent, PassRisk
<1>3. CASE Decide
  BY <1>2, <1>3, SubmitMaps, AnswerMaps DEF Decide
<1>4. CASE BeginSync \/ AbortCycle \/ EndSync
  BY <1>1, <1>4 DEF BeginSync, AbortCycle, EndSync
<1>5. ASSUME NEW id \in ClientIds,
             SyncLookupFails(id) \/ ApplyFills(id) \/ ApplyFillsLookupFails(id)
      PROVE  UNCHANGED <<statuses, venue, replies>>
  BY <1>5 DEF SyncLookupFails, ApplyFills, ApplyFillsLookupFails
<1>6. CASE Sync
  BY <1>1, <1>4, <1>5, <1>6, ReportMaps DEF Sync
<1>7. CASE ActivateKillSwitch \/ DeactivateKillSwitch \/ UNCHANGED vars
  BY <1>1, <1>7 DEF ActivateKillSwitch, DeactivateKillSwitch, vars
<1>8. CASE Venue
  <2>1. UNCHANGED statuses BY <1>8 DEF Venue
  <2>2. ASSUME NEW r \in wire, NEW b \in BrokerIds, AcceptAgain(r, b) PROVE FALSE
    BY <2>2 DEF AcceptAgain, IInv, OneFate, OrderOf
  <2>3. ASSUME NEW r \in wire, Lose(r) PROVE UNCHANGED <<venue, replies>>
    BY <2>3 DEF Lose
  <2> QED BY <1>1, <1>8, <2>1, <2>2, <2>3, DecisionMaps, TradeMaps DEF Venue, VenueStep
<1> QED BY <1>3, <1>6, <1>7, <1>8 DEF Next

\* TradingRuntime implements OrderLifecycle: the local status of an order is
\* never ahead of the venue, never contradicts a final outcome, and never
\* leaves one.
THEOREM RuntimeImplementsLifecycle == Spec => Lifecycle!LifecycleSafety
<1>1. IInv /\ IInv' /\ [Next]_vars => [Lifecycle!LifecycleNext]_(Lifecycle!lifecycleVars)
  BY StepMaps
<1> QED BY <1>1, InitMaps, InvariantHolds, PTL DEF Spec, Lifecycle!LifecycleSafety
-----------------------------------------------------------------------------
(* What the contract guarantees.                                           *)

LifecycleInv == Lifecycle!LifecycleTypeOK /\ Lifecycle!BeliefIsTrue

LEMMA LifecycleInvStep ==
  LifecycleInv /\ [Lifecycle!LifecycleNext]_(Lifecycle!lifecycleVars) => LifecycleInv'
<1> SUFFICES ASSUME LifecycleInv, [Lifecycle!LifecycleNext]_(Lifecycle!lifecycleVars)
             PROVE  LifecycleInv'
  OBVIOUS
<1> USE DEF LifecycleInv, Lifecycle!LifecycleTypeOK, Lifecycle!BeliefIsTrue,
            Lifecycle!Truths, Lifecycle!Beliefs, Lifecycle!Closed
<1>1. CASE UNCHANGED Lifecycle!lifecycleVars
  BY <1>1 DEF Lifecycle!lifecycleVars
<1>2. ASSUME NEW o \in ClientIds, Lifecycle!Submit(o) \/ Lifecycle!LoseTrack(o)
      PROVE  LifecycleInv'
  BY <1>2 DEF Lifecycle!Submit, Lifecycle!LoseTrack, Lifecycle!Believe
<1>3. ASSUME NEW o \in ClientIds,
             Lifecycle!Acknowledge(o) \/ Lifecycle!Reject(o) \/ Lifecycle!Settle(o)
      PROVE  LifecycleInv'
  BY <1>3 DEF Lifecycle!Acknowledge, Lifecycle!Reject, Lifecycle!Settle, Lifecycle!Believe
<1>4. ASSUME NEW o \in ClientIds, Lifecycle!TakeOrder(o) \/ Lifecycle!CloseOrder(o)
      PROVE  LifecycleInv'
  BY <1>4 DEF Lifecycle!TakeOrder, Lifecycle!CloseOrder, Lifecycle!Happen
<1> QED BY <1>1, <1>2, <1>3, <1>4 DEF Lifecycle!LifecycleNext

\* A final status is the venue's outcome, and no order is at the venue that was
\* not submitted: what the architecture document asks of the execution layer
\* follows from the contract alone.
THEOREM ContractGivesTruth == Lifecycle!LifecycleSafety => []Lifecycle!BeliefIsTrue
<1>1. Lifecycle!LifecycleInit => LifecycleInv
  BY DEF Lifecycle!LifecycleInit, LifecycleInv, Lifecycle!LifecycleTypeOK,
         Lifecycle!BeliefIsTrue, Lifecycle!Truths, Lifecycle!Beliefs, Lifecycle!Closed
<1>2. LifecycleInv => Lifecycle!BeliefIsTrue BY DEF LifecycleInv
<1> QED BY <1>1, <1>2, LifecycleInvStep, PTL DEF Lifecycle!LifecycleSafety

\* It therefore holds of the runtime, which implements the contract.
THEOREM BeliefsAreTrue == Spec => []Lifecycle!BeliefIsTrue
BY RuntimeImplementsLifecycle, ContractGivesTruth, PTL
=============================================================================
