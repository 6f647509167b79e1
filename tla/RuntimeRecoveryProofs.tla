----------------------- MODULE RuntimeRecoveryProofs -----------------------
(***************************************************************************)
(* Proofs about RuntimeRecovery, for any number of restarts, orders and    *)
(* broker ids, for a venue that survives a restart and for one that does   *)
(* not.                                                                    *)
(*                                                                         *)
(* That no order handed to recover() is sent again rests on three facts:   *)
(* what travels carries the life it was sent in, and a process that is not *)
(* up yet has sent nothing (SentBefore); the order in hand is of this life *)
(* (OrderOfThisLife); and recover() leaves no pending id unregistered once *)
(* it has ended without a failed lookup (PendingRegistered).               *)
(*                                                                         *)
(* That every order handed to recover() comes out settled or tracked rests *)
(* on the caller's copy: though out of date, it names orders that the      *)
(* venue has under these ids (CopyTrue), since the venue never gives a     *)
(* broker id away twice.  That fails of one that dies with the process     *)
(* while the copy of its orders lives on through a failed recovery into    *)
(* the next life; hence the hypothesis VenueOutlives, which one restart    *)
(* always meets.                                                           *)
(***************************************************************************)
EXTENDS RuntimeRecovery, TradingRuntimeProofs

USE DEF machineVars, venueVars, cycleVars, idVars, syncVars, bookVars, killVars

\* Every tracked id has a record at the venue, and sync_all visits tracked
\* ids only.
Tracked ==
  /\ \A id \in Open(openLocal) : venue[openLocal[id]] # None
  /\ syncTodo \subseteq Open(openLocal) \ closing
  /\ closing \subseteq Open(openLocal)
  /\ \A x, y \in closing : x = y
  /\ closing # {} => pc = "syncing"

\* The venue acknowledges an order by the id of its record.
AcksRecorded == \A a \in replies : a.broker # None => venue[a.broker] # None

\* What recover() has resolved as live is the venue's.
ResolvedAtVenue ==
  /\ phase = "down" => results = {}
  /\ phase = "reconciling" => pendingTodo \subseteq Open(pending)
  /\ phase # "up" => \A id \in results : statuses[id] \in Live =>
       pending[id] # None /\ venue[pending[id]] # None

RecoveryTypeInv ==
  /\ TypeInv /\ RecoveryTypeOK /\ Tracked /\ AcksRecorded /\ ResolvedAtVenue
  /\ life \in 0 .. MaxCrashes

SentBefore ==
  \A r \in wire \cup replies :
    /\ r.life \in 0 .. life
    /\ phase # "up" => r.life # life

OrderOfThisLife == order # None => order.life = life

PendingRegistered ==
  ~lookupFailed =>
    /\ phase \in {"rebuilding", "up"} => \A id \in Open(pending) : Registered(id)
    /\ phase = "reconciling" => \A id \in Open(pending) \ pendingTodo : Registered(id)

ResendInv ==
  SentBefore /\ OrderOfThisLife /\ PendingRegistered /\ ReconciledNeverResubmitted

RecoveryInv == RecoveryTypeInv /\ ResendInv

-----------------------------------------------------------------------------
(* Type correctness.                                                       *)

LEMMA RecoveryInitTypes == RecoveryInit => RecoveryTypeInv
<1> SUFFICES ASSUME RecoveryInit PROVE RecoveryTypeInv
  OBVIOUS
<1> USE DEF RecoveryInit
<1>1. TypeInv
  <2>1. Init BY DEF RecoveryInit
  <2>2. IInv BY <2>1, InvInit
  <2> QED BY <2>2 DEF IInv
<1>2. RecoveryTypeOK BY <1>1 DEF RecoveryTypeOK, TypeInv
<1>3. Tracked BY DEF Tracked, Open, Init, RuntimeInit
<1>4. AcksRecorded /\ ResolvedAtVenue
  BY DEF AcksRecorded, ResolvedAtVenue, Init, VenueInit
<1>5. life \in 0 .. MaxCrashes BY MaxCrashesAssumption DEF Init, RuntimeInit
<1> QED BY <1>1, <1>2, <1>3, <1>4, <1>5 DEF RecoveryTypeInv

\* A tracked order has a record there.
LEMMA TrackedRecord ==
  ASSUME TypeInv, Tracked, NEW id \in closing
  PROVE  /\ id \in ClientIds
         /\ openLocal[id] \in BrokerIds
         /\ venue[openLocal[id]] \in VenueOrders
<1>1. id \in ClientIds /\ openLocal[id] # None /\ openLocal[id] \in BrokerIds
  BY DEF TypeInv, TypeOK, RuntimeTypeOK, Tracked, Open
<1> QED BY <1>1 DEF Tracked, Open, TypeInv, TypeOK, VenueTypeOK

\* SyncTypes of TradingRuntimeProofs, for a process whose gateway does not
\* know the broker ids of the orders it recovered.
LEMMA RecoveredSyncTypes ==
  ASSUME TypeInv, Tracked, Sync
  PROVE  TypeInv'
<1> USE DEF TypeInv, TypeOK, OrderInHand, RuntimeTypeOK
<1>1. CASE BeginSync
  BY <1>1 DEF BeginSync, Open, MachineTypeOK, VenueTypeOK
<1>2. CASE AbortCycle
  BY <1>2 DEF AbortCycle, MachineTypeOK, VenueTypeOK
<1>3. CASE EndSync
  BY <1>3 DEF EndSync, MachineTypeOK, VenueTypeOK
<1>4. ASSUME NEW id \in ClientIds, SyncReport(id)
      PROVE  TypeInv'
  <2>1. MachineTypeOK'
    BY <1>4, TransitionTypes, TargetIsStatus DEF SyncReport, MachineTypeOK
  <2>2. closing' \in {{id}, {}} BY <1>4 DEF SyncReport
  <2> QED BY <1>4, <2>1, <2>2 DEF SyncReport, VenueTypeOK
<1>5. ASSUME NEW id \in ClientIds, SyncLookupFails(id)
      PROVE  TypeInv'
  BY <1>5 DEF SyncLookupFails, MachineTypeOK, VenueTypeOK
<1>6. ASSUME NEW id \in ClientIds, ApplyFills(id)
      PROVE  TypeInv'
  <2> DEFINE b == openLocal[id]  v == venue[openLocal[id]]
  <2>1. b \in BrokerIds /\ v \in VenueOrders
    BY <1>6, TrackedRecord DEF ApplyFills
  <2>2. portfolio' \in [Symbols -> Nat] /\ booked' \in [BrokerIds -> Nat]
    <3>1. CASE statuses[id] = "Filled" /\ v.filled > 0 /\ CanApply(v)
      <4>1. portfolio' = Applied(v) /\ booked' = [booked EXCEPT ![b] = @ + v.filled]
        BY <1>6, <3>1 DEF ApplyFills
      <4>2. v.filled \in Nat BY <2>1 DEF VenueOrders
      <4> QED BY <2>1, <3>1, <4>1, <4>2, AppliedTypes
    <3>2. CASE ~(statuses[id] = "Filled" /\ v.filled > 0 /\ CanApply(v))
      BY <1>6, <3>2 DEF ApplyFills
    <3> QED BY <3>1, <3>2
  <2> QED BY <1>6, <2>2 DEF ApplyFills, MachineTypeOK, VenueTypeOK
<1>7. ASSUME NEW id \in ClientIds, ApplyFillsLookupFails(id)
      PROVE  TypeInv'
  BY <1>7 DEF ApplyFillsLookupFails, MachineTypeOK, VenueTypeOK
<1> QED BY <1>1, <1>2, <1>3, <1>4, <1>5, <1>6, <1>7 DEF Sync

\* What the venue has recorded stays recorded.
LEMMA RecordsStay ==
  ASSUME VenueTypeOK, VenueStep, NEW b \in BrokerIds, venue[b] # None
  PROVE  venue'[b] # None
<1> USE NoOrderAssumption DEF VenueTypeOK
<1>1. ASSUME NEW r \in wire, NEW c \in BrokerIds, Accept(r, c) PROVE venue'[b] # None
  BY <1>1 DEF Accept
<1>2. ASSUME NEW r \in wire, NEW c \in BrokerIds, AcceptAgain(r, c) PROVE venue'[b] # None
  BY <1>2 DEF AcceptAgain
<1>3. ASSUME NEW r \in wire, Refuse(r) \/ Lose(r) PROVE venue'[b] # None
  BY <1>3 DEF Refuse, Lose
<1>4. ASSUME NEW c \in BrokerIds, Fill(c) \/ Cancel(c) PROVE venue'[b] # None
  <2>1. VenueTypeOK' BY VenueTypes
  <2>2. CASE b = c
    <3>1. venue[c] \in VenueOrders BY <2>2
    <3>2. venue[c].filled + 1 \in Nat /\ (venue[c].filled + 1 < venue[c].qty) \in BOOLEAN
      BY <3>1 DEF VenueOrders
    <3>3. [venue[c] EXCEPT !.filled = venue[c].filled + 1,
                           !.open = venue[c].filled + 1 < venue[c].qty] \in VenueOrders
      BY <3>1, <3>2, UpdatedOrder
    <3>4. [venue[c] EXCEPT !.open = FALSE] \in VenueOrders BY <3>1 DEF VenueOrders
    <3>5. CASE Fill(c) BY <2>2, <3>3, <3>5 DEF Fill
    <3>6. CASE Cancel(c) BY <2>2, <3>4, <3>6 DEF Cancel
    <3> QED BY <1>4, <3>5, <3>6
  <2>3. CASE b # c BY <1>4, <2>3 DEF Fill, Cancel
  <2> QED BY <2>2, <2>3
<1> QED BY <1>1, <1>2, <1>3, <1>4 DEF VenueStep

\* Nothing here looks at the kill switch, or at where the task is.
LEMMA RunTracks ==
  ASSUME TypeInv, Tracked, AcksRecorded, Decide \/ Sync \/ RefuseDuplicate
  PROVE  Tracked' /\ AcksRecorded' /\ replies' = replies /\ venue' = venue
<1> USE DEF Tracked, AcksRecorded
<1>1. CASE Tick \/ SkipIntent \/ Submit \/ ReceiveRejection \/ AnswerLost \/ RefuseDuplicate
  BY <1>1 DEF Tick, SkipIntent, Submit, ReceiveRejection, AnswerLost, RefuseDuplicate, Open
<1>2. ASSUME NEW s \in Symbols, NEW side \in Sides, NEW q \in Quantities, PassRisk(s, side, q)
      PROVE  Tracked' /\ AcksRecorded' /\ replies' = replies /\ venue' = venue
  BY <1>2 DEF PassRisk, Open
<1>3. ASSUME NEW b \in BrokerIds, ReceiveAck(b)
      PROVE  Tracked' /\ AcksRecorded' /\ replies' = replies /\ venue' = venue
  <2>1. b # None /\ venue[b] # None BY <1>3 DEF ReceiveAck, Reply
  <2>2. Open(openLocal) \subseteq Open(openLocal')
    BY <1>3, <2>1 DEF ReceiveAck, Open, TypeInv, TypeOK, RuntimeTypeOK
  <2>3. \A id \in Open(openLocal') : venue[openLocal'[id]] # None
    BY <1>3, <2>1 DEF ReceiveAck, Open, TypeInv, TypeOK, RuntimeTypeOK
  <2> QED BY <1>3, <2>2, <2>3 DEF ReceiveAck
<1>4. CASE BeginSync
  BY <1>4 DEF BeginSync, Open
<1>5. CASE AbortCycle \/ EndSync
  BY <1>5 DEF AbortCycle, EndSync, Open
<1>6. ASSUME NEW id \in ClientIds, SyncReport(id) \/ SyncLookupFails(id)
      PROVE  Tracked' /\ AcksRecorded' /\ replies' = replies /\ venue' = venue
  <2>1. closing' \in {{id}, {}} /\ closing = {} /\ id \in syncTodo /\ syncTodo' = syncTodo \ {id}
    BY <1>6 DEF SyncReport, SyncLookupFails
  <2>2. pc = "syncing" /\ UNCHANGED <<venue, replies, openLocal, pc>>
    BY <1>6 DEF SyncReport, SyncLookupFails
  <2> QED BY <2>1, <2>2 DEF Open
<1>7. ASSUME NEW id \in ClientIds, ApplyFills(id) \/ ApplyFillsLookupFails(id)
      PROVE  Tracked' /\ AcksRecorded' /\ replies' = replies /\ venue' = venue
  <2>1. /\ openLocal' = [openLocal EXCEPT ![id] = None] /\ closing' = {} /\ id \in closing
        /\ UNCHANGED <<venue, replies, syncTodo>>
    BY <1>7 DEF ApplyFills, ApplyFillsLookupFails
  <2>2. Open(openLocal') = Open(openLocal) \ {id}
    BY <2>1 DEF Open, TypeInv, TypeOK, RuntimeTypeOK
  <2>3. \A x \in Open(openLocal') : openLocal'[x] = openLocal[x]
    BY <2>1, <2>2 DEF TypeInv, TypeOK, RuntimeTypeOK, Open
  <2> QED BY <2>1, <2>2, <2>3
<1> QED BY <1>1, <1>2, <1>3, <1>4, <1>5, <1>6, <1>7 DEF Decide, Sync

LEMMA VenueTracks ==
  ASSUME TypeInv, Tracked, AcksRecorded, Venue
  PROVE  Tracked' /\ AcksRecorded'
<1>1. VenueStep /\ UNCHANGED <<openLocal, syncTodo, closing, pc>> BY DEF Venue
<1>2. \A b \in BrokerIds : venue[b] # None => venue'[b] # None
  BY <1>1, RecordsStay DEF TypeInv, TypeOK
<1>3. Tracked'
  BY <1>1, <1>2 DEF Tracked, Open, TypeInv, TypeOK, RuntimeTypeOK
<1>4. AcksRecorded'
  <2> SUFFICES ASSUME NEW a \in replies', a.broker # None PROVE venue'[a.broker] # None
    BY DEF AcksRecorded
  <2>1. VenueTypeOK' BY <1>1, VenueTypes DEF TypeInv, TypeOK
  <2>2. a.broker \in BrokerIds BY <2>1 DEF VenueTypeOK, Replies
  <2>3. CASE a \in replies BY <1>2, <2>2, <2>3 DEF AcksRecorded
  <2>4. CASE a \notin replies
    <3>1. ASSUME NEW r \in wire, NEW c \in BrokerIds, Accept(r, c) PROVE venue'[a.broker] # None
      <4>1. a.broker = c BY <2>4, <3>1 DEF Accept, Reply
      <4>2. r \in Requests BY DEF TypeInv, TypeOK, VenueTypeOK
      <4>3. venue'[c] = [client |-> r.client, life |-> r.life, symbol |-> r.symbol,
                         side |-> r.side, qty |-> r.qty, filled |-> 0, open |-> TRUE]
        BY <3>1 DEF Accept, TypeInv, TypeOK, VenueTypeOK
      <4>4. venue'[c] \in VenueOrders BY <4>2, <4>3 DEF Requests, VenueOrders
      <4> QED BY <4>1, <4>4, NoOrderAssumption
    <3>2. ASSUME NEW r \in wire, NEW c \in BrokerIds, AcceptAgain(r, c) PROVE venue'[a.broker] # None
      BY <1>2, <2>4, <3>2 DEF AcceptAgain, Reply, OrderOf
    <3>3. ASSUME NEW r \in wire, Refuse(r) \/ Lose(r) PROVE venue'[a.broker] # None
      BY <2>4, <3>3 DEF Refuse, Lose, Reply
    <3>4. ASSUME NEW c \in BrokerIds, Fill(c) \/ Cancel(c) PROVE venue'[a.broker] # None
      BY <2>4, <3>4 DEF Fill, Cancel
    <3> QED BY <1>1, <3>1, <3>2, <3>3, <3>4 DEF VenueStep
  <2> QED BY <2>3, <2>4
<1> QED BY <1>3, <1>4

\* A new process holds nothing, and is one life further.
LEMMA CrashTypes ==
  ASSUME RecoveryTypeInv, life < MaxCrashes, FreshProcess,
         UNCHANGED venueVars \/ (venue' = [b \in BrokerIds |-> None] /\ wire' = {} /\ replies' = {}
                                 /\ holding' = [s \in Symbols |-> 0])
  PROVE  RecoveryTypeInv'
<1> USE MaxOrdersAssumption DEF RecoveryTypeInv, TypeInv, TypeOK, FreshProcess
<1>1. life' \in 0 .. MaxCrashes /\ life' \in Lives
  BY MaxCrashesAssumption
<1>2. VenueTypeOK' BY DEF VenueTypeOK
<1>3. MachineTypeOK' BY DEF MachineTypeOK
<1>4. RuntimeTypeOK'
  <2>1. pc' \in {"idle", "deciding", "checked", "awaiting", "syncing"} /\ order' \in Requests \cup {None}
    OBVIOUS
  <2>2. orderSeq' \in 0 .. MaxOrders OBVIOUS
  <2>3. /\ brokerIds' \in [ClientIds -> BrokerIds \cup {None}]
        /\ openLocal' \in [ClientIds -> BrokerIds \cup {None}]
    OBVIOUS
  <2>4. portfolio' \in [Symbols -> Nat] /\ booked' \in [BrokerIds -> Nat] /\ sentUnderKill' \in Nat
    OBVIOUS
  <2>5. killActive' \in BOOLEAN /\ syncTodo' \subseteq ClientIds /\ closing' \subseteq ClientIds
    OBVIOUS
  <2> QED BY <1>1, <2>1, <2>2, <2>3, <2>4, <2>5 DEF RuntimeTypeOK
<1>5. OrderInHand' BY DEF OrderInHand
<1>6. RecoveryTypeOK' BY <1>2, <1>3, <1>4 DEF RecoveryTypeOK
<1>7. Tracked' BY DEF Tracked, Open
<1>8. AcksRecorded' BY DEF AcksRecorded
<1>9. ResolvedAtVenue' BY DEF ResolvedAtVenue
<1> QED BY <1>1, <1>2, <1>3, <1>4, <1>5, <1>6, <1>7, <1>8, <1>9

\* The tracked ids are those before and the ones recovered as live.
LEMMA RetrackedTypes ==
  ASSUME RecoveryTypeInv, TrackLive, phase = "rebuilding", UNCHANGED <<venue, syncVars, pc>>
  PROVE  Tracked' /\ openLocal' \in [ClientIds -> BrokerIds \cup {None}]
<1> USE DEF RecoveryTypeInv, TypeInv, TypeOK, RuntimeTypeOK, RecoveryTypeOK
<1>1. \A id \in Retracked : pending[id] # None /\ venue[pending[id]] # None
  BY DEF ResolvedAtVenue, Retracked
<1>2. openLocal' \in [ClientIds -> BrokerIds \cup {None}]
  BY DEF TrackLive
<1>3. Open(openLocal) \subseteq Open(openLocal')
  BY <1>1 DEF TrackLive, Open
<1>4. \A id \in Open(openLocal') : venue[openLocal'[id]] # None
  BY <1>1 DEF TrackLive, Open, Tracked
<1> QED BY <1>2, <1>3, <1>4 DEF Tracked

LEMMA RecoverTypes ==
  ASSUME RecoveryTypeInv, Recover
  PROVE  RecoveryTypeInv'
<1> USE DEF RecoveryTypeInv
<1>1. CASE BeginRecover
  <2>1. TypeInv'
    BY <1>1 DEF BeginRecover, vars, TypeInv, TypeOK, MachineTypeOK, VenueTypeOK, RuntimeTypeOK,
                OrderInHand
  <2>2. Tracked' /\ AcksRecorded'
    BY <1>1 DEF BeginRecover, vars, Tracked, AcksRecorded, Open
  <2>3. results' = {} BY <1>1 DEF BeginRecover, ResolvedAtVenue
  <2>4. ResolvedAtVenue'
    BY <1>1, <2>3 DEF BeginRecover, vars, ResolvedAtVenue, Open
  <2> QED BY <1>1, <2>1, <2>2, <2>4 DEF BeginRecover, vars, RecoveryTypeOK, TypeInv, Open
<1>2. CASE EndReconcile
  BY <1>2 DEF EndReconcile, vars, TypeInv, TypeOK, MachineTypeOK, VenueTypeOK, RuntimeTypeOK,
              OrderInHand, RecoveryTypeOK, Tracked, AcksRecorded, ResolvedAtVenue, Open
<1>3. ASSUME NEW id \in ClientIds, Reconcile(id) PROVE RecoveryTypeInv'
  <2> DEFINE target == IF venue[pending[id]] = None THEN "Rejected" ELSE TargetStatus(venue[pending[id]])
  <2>1. target \in Statuses BY TargetIsStatus DEF Statuses
  <2>2. /\ statuses' = [statuses EXCEPT ![id] = target]
        /\ history' = [history EXCEPT ![id] = Append(@, [from |-> "Unknown", to |-> target])]
    BY <1>3 DEF Reconcile
  <2>3. [from |-> "Unknown", to |-> target] \in Events BY <2>1 DEF Events, Statuses
  <2> HIDE DEF target
  <2>4. MachineTypeOK'
    BY <2>1, <2>2, <2>3 DEF TypeInv, TypeOK, MachineTypeOK
  <2>5. TypeInv'
    BY <1>3, <2>4 DEF Reconcile, TypeInv, TypeOK, VenueTypeOK, RuntimeTypeOK, OrderInHand
  <2>6. target \in Live => venue[pending[id]] # None
    BY DEF target, Live
  <2>7. id \in Open(pending) BY <1>3 DEF Reconcile, ResolvedAtVenue
  <2>8. ResolvedAtVenue'
    BY <1>3, <2>2, <2>6, <2>7 DEF Reconcile, ResolvedAtVenue, Open, TypeInv, TypeOK, MachineTypeOK
  <2> QED
    BY <1>3, <2>5, <2>8 DEF Reconcile, RecoveryTypeOK, Tracked, AcksRecorded, Open, TypeInv
<1>4. ASSUME NEW id \in ClientIds, ReconcileLookupFails(id) PROVE RecoveryTypeInv'
  <2>1. MachineTypeOK'
    BY <1>4 DEF ReconcileLookupFails, Register, TypeInv, TypeOK, MachineTypeOK, Statuses
  <2>2. TypeInv'
    BY <1>4, <2>1 DEF ReconcileLookupFails, TypeInv, TypeOK, VenueTypeOK, RuntimeTypeOK, OrderInHand
  <2> QED
    BY <1>4, <2>2 DEF ReconcileLookupFails, RecoveryTypeOK, Tracked, AcksRecorded, ResolvedAtVenue,
                      Open, TypeInv
<1>5. CASE Rebuild
  <2>1. Tracked' /\ openLocal' \in [ClientIds -> BrokerIds \cup {None}]
    BY <1>5, RetrackedTypes DEF Rebuild
  <2>2. booked' \in [BrokerIds -> Nat]
    <3>1. \A b \in BrokerIds : venue[b] # None => venue[b].filled \in Nat
      BY DEF TypeInv, TypeOK, VenueTypeOK, VenueOrders
    <3> QED BY <1>5, <3>1 DEF Rebuild
  <2>3. portfolio' \in [Symbols -> Nat] BY <1>5 DEF Rebuild, TypeInv, TypeOK, VenueTypeOK
  <2>4. TypeInv'
    BY <1>5, <2>1, <2>2, <2>3
       DEF Rebuild, TypeInv, TypeOK, MachineTypeOK, VenueTypeOK, RuntimeTypeOK, OrderInHand
  <2> QED
    BY <1>5, <2>1, <2>4 DEF Rebuild, RecoveryTypeOK, AcksRecorded, ResolvedAtVenue, TypeInv
<1>6. CASE RebuildFails
  <2>1. Tracked' /\ openLocal' \in [ClientIds -> BrokerIds \cup {None}]
    BY <1>6, RetrackedTypes DEF RebuildFails
  <2>2. TypeInv'
    BY <1>6, <2>1
       DEF RebuildFails, TypeInv, TypeOK, MachineTypeOK, VenueTypeOK, RuntimeTypeOK, OrderInHand
  <2> QED
    BY <1>6, <2>1, <2>2 DEF RebuildFails, RecoveryTypeOK, AcksRecorded, ResolvedAtVenue, TypeInv
<1> QED BY <1>1, <1>2, <1>3, <1>4, <1>5, <1>6 DEF Recover

\* What a step of the running process does to the order in hand, the requests
\* and the life.
LEMMA RecoveryTypeStep ==
  ASSUME RecoveryTypeInv, [RecoveryNext]_allVars
  PROVE  RecoveryTypeInv'
<1> USE DEF RecoveryTypeInv
<1>1. CASE Run
  <2>1. TypeInv' BY <1>1, DecideTypes, RecoveredSyncTypes DEF Run
  <2>2. Tracked' /\ AcksRecorded' BY <1>1, RunTracks DEF Run
  <2>3. life' = life BY <1>1 DEF Run, Decide, Sync, Tick, SkipIntent, Submit, PassRisk, ReceiveAck,
          ReceiveRejection, AnswerLost, BeginSync, AbortCycle, EndSync, SyncReport,
          SyncLookupFails, ApplyFills, ApplyFillsLookupFails
  <2> QED BY <1>1, <2>1, <2>2, <2>3 DEF Run, recoveryVars, RecoveryTypeOK, ResolvedAtVenue, TypeInv
<1>2. CASE ReuseRefused
  <2>1. TypeInv'
    BY <1>2 DEF ReuseRefused, RefuseDuplicate, TypeInv, TypeOK, MachineTypeOK, VenueTypeOK,
                RuntimeTypeOK, OrderInHand
  <2>2. Tracked' /\ AcksRecorded' BY <1>2, RunTracks DEF ReuseRefused
  <2>3. life' = life BY <1>2 DEF ReuseRefused, RefuseDuplicate
  <2> QED
    BY <1>2, <2>1, <2>2, <2>3 DEF ReuseRefused, recoveryVars, RecoveryTypeOK, ResolvedAtVenue, TypeInv
<1>3. CASE VenueMoves
  <2>1. TypeInv'
    BY <1>3, VenueTypes DEF VenueMoves, Venue, TypeInv, TypeOK, MachineTypeOK, RuntimeTypeOK, OrderInHand
  <2>2. Tracked' /\ AcksRecorded' BY <1>3, VenueTracks DEF VenueMoves
  <2>3. \A b \in BrokerIds : venue[b] # None => venue'[b] # None
    BY <1>3, RecordsStay DEF VenueMoves, Venue, TypeInv, TypeOK
  <2>4. ResolvedAtVenue'
    BY <1>3, <2>3 DEF VenueMoves, Venue, recoveryVars, ResolvedAtVenue, RecoveryTypeOK, Open
  <2>5. life' = life BY <1>3 DEF VenueMoves, Venue
  <2> QED
    BY <1>3, <2>1, <2>2, <2>4, <2>5 DEF VenueMoves, recoveryVars, RecoveryTypeOK, TypeInv
<1>4. CASE SaveOpenOrders
  BY <1>4 DEF SaveOpenOrders, vars, TypeInv, TypeOK, MachineTypeOK, VenueTypeOK, RuntimeTypeOK,
              OrderInHand, RecoveryTypeOK, Tracked, AcksRecorded, ResolvedAtVenue, Open
<1>5. CASE Crash BY <1>5, CrashTypes DEF Crash
<1>6. CASE CrashWithVenue BY <1>6, CrashTypes DEF CrashWithVenue
<1>7. CASE Recover BY <1>7, RecoverTypes
<1>8. CASE UNCHANGED allVars
  BY <1>8 DEF allVars, recoveryVars, vars, TypeInv, TypeOK, MachineTypeOK, VenueTypeOK,
              RuntimeTypeOK, OrderInHand, RecoveryTypeOK, Tracked, AcksRecorded, ResolvedAtVenue, Open
<1> QED BY <1>1, <1>2, <1>3, <1>4, <1>5, <1>6, <1>7, <1>8 DEF RecoveryNext

-----------------------------------------------------------------------------
(* No order handed to recover() is sent again.                             *)

\* The requests of the step are those before, or, in a running process, the
\* order in hand, which is not registered yet.
LEMMA RunSends ==
  ASSUME RecoveryTypeInv, OrderOfThisLife, Decide \/ Sync \/ RefuseDuplicate
  PROVE  /\ OrderOfThisLife' /\ life' = life /\ replies' = replies
         /\ \A id \in ClientIds : Registered(id) => Registered(id)'
         /\ \/ wire' = wire
            \/ /\ wire' = wire \cup {order} /\ order.life = life
               /\ order.client \in ClientIds /\ ~Registered(order.client)
<1> USE DEF RecoveryTypeInv, TypeInv, TypeOK, OrderOfThisLife
<1> DEFINE Keeps == \A id \in ClientIds : Registered(id) => Registered(id)'
<1>0. ASSUME NEW id \in ClientIds, NEW to \in Statuses, Transition(id, to) PROVE Keeps
  BY <1>0 DEF Transition, Registered, Statuses, MachineTypeOK
<1>1. CASE Tick \/ SkipIntent \/ RefuseDuplicate
  BY <1>1 DEF Tick, SkipIntent, RefuseDuplicate, Registered
<1>2. CASE Submit
  <2>1. order # None /\ order \in Requests BY <1>2 DEF Submit, OrderInHand, RuntimeTypeOK
  <2>2. order.client \in ClientIds BY <2>1 DEF Requests
  <2>3. Keeps BY <1>2, <2>2 DEF Submit, Register, Registered, MachineTypeOK
  <2> QED BY <1>2, <2>1, <2>2, <2>3 DEF Submit, AlreadyUsed
<1>3. ASSUME NEW s \in Symbols, NEW side \in Sides, NEW q \in Quantities, PassRisk(s, side, q)
      PROVE  OrderOfThisLife' /\ life' = life /\ replies' = replies /\ Keeps /\ wire' = wire
  BY <1>3 DEF PassRisk, Registered
<1>4. CASE ReceiveRejection \/ AnswerLost \/ \E b \in BrokerIds : ReceiveAck(b)
  <2>1. order.client \in ClientIds
    BY <1>4, NoneAssumption DEF ReceiveRejection, AnswerLost, ReceiveAck, OrderInHand, RuntimeTypeOK, Requests
  <2>2. \E to \in Statuses : Transition(order.client, to)
    BY <1>4 DEF ReceiveRejection, AnswerLost, ReceiveAck, MarkUnknown, Statuses
  <2>3. Keeps BY <1>0, <2>1, <2>2
  <2> QED BY <1>4, <2>3 DEF ReceiveRejection, AnswerLost, ReceiveAck
<1>5. CASE BeginSync \/ AbortCycle \/ EndSync
  BY <1>5 DEF BeginSync, AbortCycle, EndSync, Registered
<1>6. ASSUME NEW id \in ClientIds, SyncReport(id)
      PROVE  OrderOfThisLife' /\ life' = life /\ replies' = replies /\ Keeps /\ wire' = wire
  <2>1. Keeps
    <3>1. CASE UNCHANGED machineVars BY <3>1 DEF Registered
    <3>2. CASE Transition(id, TargetStatus(venue[openLocal[id]]))
      BY <1>0, <3>2, TargetIsStatus
    <3> QED BY <1>6, <3>1, <3>2 DEF SyncReport
  <2> QED BY <1>6, <2>1 DEF SyncReport
<1>7. ASSUME NEW id \in ClientIds,
             SyncLookupFails(id) \/ ApplyFills(id) \/ ApplyFillsLookupFails(id)
      PROVE  OrderOfThisLife' /\ life' = life /\ replies' = replies /\ Keeps /\ wire' = wire
  BY <1>7 DEF SyncLookupFails, ApplyFills, ApplyFillsLookupFails, Registered
<1> QED BY <1>1, <1>2, <1>3, <1>4, <1>5, <1>6, <1>7 DEF Decide, Sync

\* What travels after a step of the venue carries an id and a life that
\* travelled before.
LEMMA VenueAnswers ==
  ASSUME VenueStep, NEW a \in wire' \cup replies'
  PROVE  \E r \in wire \cup replies : r.client = a.client /\ r.life = a.life
<1>1. ASSUME NEW r \in wire, NEW b \in BrokerIds, Accept(r, b) \/ AcceptAgain(r, b)
      PROVE  \E x \in wire \cup replies : x.client = a.client /\ x.life = a.life
  BY <1>1 DEF Accept, AcceptAgain, Reply
<1>2. ASSUME NEW r \in wire, Refuse(r) \/ Lose(r)
      PROVE  \E x \in wire \cup replies : x.client = a.client /\ x.life = a.life
  BY <1>2 DEF Refuse, Lose, Reply
<1>3. ASSUME NEW b \in BrokerIds, Fill(b) \/ Cancel(b)
      PROVE  \E x \in wire \cup replies : x.client = a.client /\ x.life = a.life
  BY <1>3 DEF Fill, Cancel
<1> QED BY <1>1, <1>2, <1>3 DEF VenueStep

LEMMA ResendInit == RecoveryInit => ResendInv
BY DEF RecoveryInit, Init, VenueInit, RuntimeInit, ResendInv, SentBefore, OrderOfThisLife,
       PendingRegistered, ReconciledNeverResubmitted, Open

LEMMA CrashForgets ==
  ASSUME RecoveryTypeInv, ResendInv, FreshProcess,
         wire' \subseteq wire, replies' \subseteq replies
  PROVE  ResendInv'
<1> USE DEF ResendInv, FreshProcess
<1>1. life \in Nat /\ life' = life + 1
  BY MaxCrashesAssumption DEF RecoveryTypeInv
<1>2. SentBefore'
  <2> SUFFICES ASSUME NEW r \in wire' \cup replies'
               PROVE  r.life \in 0 .. life' /\ r.life # life'
    BY DEF SentBefore
  <2>1. r.life \in 0 .. life BY DEF SentBefore
  <2> QED BY <1>1, <2>1
<1>3. OrderOfThisLife' BY DEF OrderOfThisLife
<1>4. PendingRegistered' BY DEF PendingRegistered
<1>5. ReconciledNeverResubmitted'
  <2> SUFFICES ASSUME NEW r \in wire' \cup replies', r.life = life' PROVE pending'[r.client] = None
    BY DEF ReconciledNeverResubmitted
  <2> QED BY <1>2 DEF SentBefore
<1> QED BY <1>2, <1>3, <1>4, <1>5

LEMMA RecoverKeepsSent ==
  ASSUME RecoveryTypeInv, ResendInv, Recover
  PROVE  ResendInv'
<1> USE DEF RecoveryTypeInv, TypeInv, TypeOK, MachineTypeOK, RecoveryTypeOK, ResendInv, Registered
<1>1. CASE BeginRecover
  <2>1. UNCHANGED <<wire, replies, life, order>> /\ phase = "down" /\ phase' = "reconciling"
    BY <1>1 DEF BeginRecover, vars
  <2>2. SentBefore' /\ OrderOfThisLife' BY <2>1 DEF SentBefore, OrderOfThisLife
  <2>3. PendingRegistered' BY <1>1 DEF BeginRecover, PendingRegistered, Open
  <2>4. ReconciledNeverResubmitted' BY <2>1, <2>2 DEF SentBefore, ReconciledNeverResubmitted
  <2> QED BY <2>2, <2>3, <2>4
<1>2. CASE EndReconcile
  BY <1>2 DEF EndReconcile, vars, SentBefore, OrderOfThisLife, PendingRegistered,
              ReconciledNeverResubmitted, Open
<1>3. ASSUME NEW id \in ClientIds, Reconcile(id) PROVE ResendInv'
  <2>1. /\ UNCHANGED <<wire, replies, life, order, pending, phase, lookupFailed>>
        /\ phase = "reconciling" /\ pendingTodo' = pendingTodo \ {id}
    BY <1>3 DEF Reconcile
  <2>2. SentBefore' /\ OrderOfThisLife' /\ ReconciledNeverResubmitted'
    BY <2>1 DEF SentBefore, OrderOfThisLife, ReconciledNeverResubmitted
  <2>3. statuses'[id] # "Unregistered" /\ \A x \in ClientIds \ {id} : statuses'[x] = statuses[x]
    BY <1>3, TargetIsStatus DEF Reconcile, Statuses
  <2>4. PendingRegistered' BY <2>1, <2>3 DEF PendingRegistered, Open
  <2> QED BY <2>2, <2>4
<1>4. ASSUME NEW id \in ClientIds, ReconcileLookupFails(id) PROVE ResendInv'
  BY <1>4 DEF ReconcileLookupFails, SentBefore, OrderOfThisLife, PendingRegistered,
              ReconciledNeverResubmitted
<1>5. CASE Rebuild \/ RebuildFails
  <2>1. /\ UNCHANGED <<wire, replies, life, order, pending, lookupFailed, statuses>>
        /\ phase = "rebuilding" /\ phase' = "up"
    BY <1>5 DEF Rebuild, RebuildFails
  <2> QED
    BY <2>1 DEF SentBefore, OrderOfThisLife, PendingRegistered, ReconciledNeverResubmitted, Open
<1> QED BY <1>1, <1>2, <1>3, <1>4, <1>5 DEF Recover

LEMMA ResendStep ==
  ASSUME RecoveryTypeInv, ResendInv, [RecoveryNext]_allVars
  PROVE  ResendInv'
<1>1. CASE Run \/ ReuseRefused
  <2>1. phase = "up" /\ UNCHANGED recoveryVars BY <1>1 DEF Run, ReuseRefused
  <2>2. /\ OrderOfThisLife' /\ life' = life /\ replies' = replies
        /\ \A id \in ClientIds : Registered(id) => Registered(id)'
        /\ \/ wire' = wire
           \/ /\ wire' = wire \cup {order} /\ order.life = life
              /\ order.client \in ClientIds /\ ~Registered(order.client)
    BY <1>1, RunSends DEF Run, ReuseRefused, ResendInv
  <2>3. life \in Nat BY MaxCrashesAssumption DEF RecoveryTypeInv
  <2>4. SentBefore' BY <2>1, <2>2, <2>3 DEF ResendInv, SentBefore, recoveryVars
  <2>5. PendingRegistered' BY <2>1, <2>2 DEF ResendInv, PendingRegistered, recoveryVars, Open
  <2>6. ReconciledNeverResubmitted'
    BY <2>1, <2>2 DEF ResendInv, PendingRegistered, ReconciledNeverResubmitted, recoveryVars, Open
  <2> QED BY <2>2, <2>4, <2>5, <2>6 DEF ResendInv
<1>2. CASE VenueMoves
  <2>1. VenueStep /\ UNCHANGED <<life, order, statuses, recoveryVars>>
    BY <1>2 DEF VenueMoves, Venue
  <2>2. SentBefore' BY <2>1, VenueAnswers DEF ResendInv, SentBefore, recoveryVars
  <2>3. ReconciledNeverResubmitted'
    BY <2>1, VenueAnswers DEF ResendInv, ReconciledNeverResubmitted, recoveryVars
  <2>4. OrderOfThisLife' /\ PendingRegistered'
    BY <2>1 DEF ResendInv, OrderOfThisLife, PendingRegistered, recoveryVars, Open, Registered
  <2> QED BY <2>2, <2>3, <2>4 DEF ResendInv
<1>3. CASE SaveOpenOrders \/ UNCHANGED allVars
  BY <1>3 DEF SaveOpenOrders, allVars, vars, recoveryVars, ResendInv, SentBefore, OrderOfThisLife,
              PendingRegistered, ReconciledNeverResubmitted, Open, Registered
<1>4. CASE Crash BY <1>4, CrashForgets DEF Crash
<1>5. CASE CrashWithVenue BY <1>5, CrashForgets DEF CrashWithVenue
<1>6. CASE Recover BY <1>6, RecoverKeepsSent
<1> QED BY <1>1, <1>2, <1>3, <1>4, <1>5, <1>6 DEF RecoveryNext

-----------------------------------------------------------------------------
\* The invariant of runtime and recovery, behind the two below.
THEOREM RecoveryInvariantHolds == RecoverySpec => []RecoveryInv
<1>1. RecoveryInit => RecoveryInv
  BY RecoveryInitTypes, ResendInit DEF RecoveryInv
<1>2. RecoveryInv /\ [RecoveryNext]_allVars => RecoveryInv'
  BY RecoveryTypeStep, ResendStep DEF RecoveryInv
<1> QED BY <1>1, <1>2, PTL DEF RecoverySpec

\* Whatever dies and is recovered, the state is well typed: no broker id is
\* tracked without a record of the venue (runtime/mod.rs:266-300).
THEOREM RecoveryTypeCorrect == RecoverySpec => []RecoveryTypeOK
<1>1. RecoveryInv => RecoveryTypeOK BY DEF RecoveryInv, RecoveryTypeInv
<1> QED BY <1>1, RecoveryInvariantHolds, PTL

\* After a recovery whose lookups succeed, no request carries the id of an
\* order that was handed to it, for any number of restarts, with requests of
\* former lives still on the wire (execution/gateway.rs, reconcile_pending).
THEOREM PendingNeverResent == RecoverySpec => []ReconciledNeverResubmitted
<1>1. RecoveryInv => ReconciledNeverResubmitted BY DEF RecoveryInv, ResendInv
<1> QED BY <1>1, RecoveryInvariantHolds, PTL

-----------------------------------------------------------------------------
(* What recovery resolves is true at the venue, and stays true.            *)

\* The in-process venue may die with the last process only.  After an earlier
\* such death a copy that was never renewed would name orders that are gone,
\* by ids which the next venue hands out again.
VenueOutlives == CrashWithVenue => life' = MaxCrashes

\* What is tracked or acknowledged is the venue's order of that client id.
OwnOrders ==
  /\ \A id \in Open(openLocal) : OrderOf(openLocal[id], id)
  /\ \A a \in replies : a.broker # None => OrderOf(a.broker, a.client)

VenueEmpty == wire = {} /\ replies = {} /\ \A b \in BrokerIds : venue[b] = None

\* The caller's copy names orders of the venue, or the venue has died.
CopyTrue ==
  \/ \A id \in Open(saved) : OrderOf(saved[id], id)
  \/ life = MaxCrashes /\ (phase # "up" => VenueEmpty)

\* How far the recovery has come.
Progress ==
  /\ phase # "up" => pc = "idle" /\ Open(openLocal) = {} /\ \A b \in BrokerIds : booked[b] = 0
  /\ phase \in {"reconciling", "rebuilding"} => pending = saved
  /\ phase \in {"down", "reconciling"} => ~lookupFailed
  /\ phase = "down" => Open(pending) = {}
  /\ IF lookupFailed THEN results = {} ELSE results = Open(pending) \ pendingTodo
  /\ ~lookupFailed /\ phase # "reconciling" => pendingTodo = {}

InHand == pc = "awaiting" /\ ~lookupFailed => pending[order.client] = None

ClosingSettled == \A id \in closing : statuses[id] \in Terminal

\* What the status of a recovered order claims about the venue.
TrueAtVenue(id) ==
  /\ statuses[id] \in Live \cup Terminal
  /\ IF statuses[id] = "Rejected"
       THEN (\A c \in BrokerIds : ~OrderOf(c, id)) /\ (\A r \in wire : r.client # id)
       ELSE OrderOf(pending[id], id)
  /\ statuses[id] \in {"Filled", "Cancelled"} =>
       /\ ~venue[pending[id]].open
       /\ statuses[id] = "Filled" <=> venue[pending[id]].filled = venue[pending[id]].qty

Recovered ==
  ~lookupFailed =>
    \A id \in Open(pending) \ pendingTodo :
      /\ TrueAtVenue(id)
      /\ phase = "up" =>
           /\ statuses[id] \in Live => openLocal[id] = pending[id]
           /\ openLocal[id] \in {None, pending[id]}

\* An order with no share booked when it was tracked again has none booked
\* until it is closed.
Counted ==
  phase = "up" /\ ~lookupFailed =>
    \A id \in Open(pending) :
      pending[id] \notin halfBooked /\ OrderOf(pending[id], id) =>
        /\ openLocal[id] # None => booked[pending[id]] = 0
        /\ booked[pending[id]] <= venue[pending[id]].filled

SettleInv ==
  /\ VenueSane /\ OwnOrders /\ CopyTrue /\ Progress /\ InHand /\ ClosingSettled
  /\ Recovered /\ Counted

LEMMA SettleInit == RecoveryInit => SettleInv
<1> SUFFICES ASSUME RecoveryInit PROVE SettleInv
  OBVIOUS
<1> USE DEF RecoveryInit, Init, VenueInit, RuntimeInit
<1>1. VenueSane /\ OwnOrders /\ CopyTrue BY DEF VenueSane, OwnOrders, CopyTrue, Open
<1>2. Progress /\ InHand /\ ClosingSettled BY DEF Progress, InHand, ClosingSettled, Open
<1>3. Recovered /\ Counted BY DEF Recovered, Counted, Open
<1> QED BY <1>1, <1>2, <1>3 DEF SettleInv

\* The report of an order at the venue stands for a true status of it.
LEMMA ReportTrue ==
  ASSUME NEW v \in VenueOrders, v.filled <= v.qty, NEW status, status = TargetStatus(v)
  PROVE  /\ status \in Live \cup Terminal /\ status # "Rejected"
         /\ status \in {"Filled", "Cancelled"} =>
              ~v.open /\ (status = "Filled" <=> v.filled = v.qty)
<1>1. v.filled \in Nat /\ v.qty \in Nat /\ v.open \in BOOLEAN
  BY QuantitiesAssumption DEF VenueOrders
<1> QED BY <1>1 DEF TargetStatus, Live, Terminal

\* The steps of the running process, by what they do to statuses, the open set
\* and the books.
Sends ==
  /\ order.client \in ClientIds /\ ~Registered(order.client) /\ order' = order
  /\ statuses' = [statuses EXCEPT ![order.client] = "Pending"]
  /\ wire' = wire \cup {order} /\ UNCHANGED <<openLocal, booked, closing>>

Answered ==
  /\ pc = "awaiting" /\ pc' = "deciding" /\ order.client \in ClientIds
  /\ \E to \in Statuses : Transition(order.client, to)
  /\ UNCHANGED <<wire, booked, closing>>
  /\ \/ openLocal' = openLocal
     \/ \E b \in BrokerIds : Reply(order, b) \in replies
                           /\ openLocal' = [openLocal EXCEPT ![order.client] = b]

Reported(id) ==
  /\ id \in syncTodo /\ UNCHANGED <<pc, order, wire, openLocal, booked>>
  /\ LET target == TargetStatus(venue[openLocal[id]])
     IN  /\ (target = statuses[id] /\ statuses' = statuses) \/ Transition(id, target)
         /\ closing' = IF target \in Terminal THEN {id} ELSE {}

Closed(id) ==
  /\ id \in closing /\ closing' = {} /\ UNCHANGED <<pc, order, wire, statuses>>
  /\ openLocal' = [openLocal EXCEPT ![id] = None]
  /\ booked' \in {booked, [booked EXCEPT ![openLocal[id]] = @ + venue[openLocal[id]].filled]}

Rests ==
  /\ UNCHANGED <<statuses, wire, openLocal, booked, closing>>
  /\ pc' = "awaiting" => pc = "awaiting" /\ order' = order

LEMMA RunEffects ==
  ASSUME RecoveryTypeInv, Decide \/ Sync \/ RefuseDuplicate
  PROVE  \/ Sends \/ Answered \/ Rests
         \/ \E id \in ClientIds : Reported(id) \/ Closed(id)
<1>a. /\ order # None => order \in Requests /\ order.client \in ClientIds
      /\ pc \in {"checked", "awaiting"} => order # None
      /\ MachineTypeOK
  BY DEF RecoveryTypeInv, TypeInv, TypeOK, RuntimeTypeOK, OrderInHand, Requests
<1>1. CASE Tick \/ SkipIntent \/ RefuseDuplicate \/ BeginSync \/ AbortCycle \/ EndSync
  BY <1>1 DEF Tick, SkipIntent, RefuseDuplicate, BeginSync, AbortCycle, EndSync, Rests
<1>2. ASSUME NEW s \in Symbols, NEW side \in Sides, NEW q \in Quantities, PassRisk(s, side, q)
      PROVE  Rests
  BY <1>2 DEF PassRisk, Rests
<1>3. CASE Submit BY <1>3, <1>a DEF Submit, Register, AlreadyUsed, Sends
<1>4. CASE ReceiveRejection \/ AnswerLost
  BY <1>4, <1>a DEF ReceiveRejection, AnswerLost, MarkUnknown, Answered, Statuses
<1>5. ASSUME NEW b \in BrokerIds, ReceiveAck(b) PROVE Answered
  BY <1>5, <1>a DEF ReceiveAck, Answered, Statuses
<1>6. ASSUME NEW id \in ClientIds, SyncReport(id) PROVE Reported(id)
  BY <1>6 DEF SyncReport, Reported
<1>7. ASSUME NEW id \in ClientIds, SyncLookupFails(id) PROVE Rests
  BY <1>7 DEF SyncLookupFails, Rests
<1>8. ASSUME NEW id \in ClientIds, ApplyFills(id) \/ ApplyFillsLookupFails(id) PROVE Closed(id)
  BY <1>8 DEF ApplyFills, ApplyFillsLookupFails, Closed
<1> QED BY <1>1, <1>2, <1>3, <1>4, <1>5, <1>6, <1>7, <1>8 DEF Decide, Sync

\* One recovered order through a step of the running process.
OrderKept(id) ==
  /\ TrueAtVenue(id)
  /\ statuses[id] \in Live => openLocal[id] = pending[id]
  /\ openLocal[id] \in {None, pending[id]}
  /\ pending[id] \notin halfBooked /\ OrderOf(pending[id], id) =>
       /\ openLocal[id] # None => booked[pending[id]] = 0
       /\ booked[pending[id]] <= venue[pending[id]].filled

LEMMA OrderRests ==
  ASSUME NEW id \in ClientIds, OrderKept(id), venue' = venue, UNCHANGED recoveryVars,
         statuses'[id] = statuses[id], openLocal'[id] = openLocal[id],
         OrderOf(pending[id], id) => booked'[pending[id]] = booked[pending[id]],
         \A r \in wire' : r \in wire \/ r.client # id
  PROVE  OrderKept(id)'
BY DEF OrderKept, TrueAtVenue, OrderOf, recoveryVars

LEMMA RunKeepsOrder ==
  ASSUME RecoveryTypeInv, SettleInv, PendingRegistered, phase = "up", ~lookupFailed,
         UNCHANGED recoveryVars, venue' = venue,
         Sends \/ Answered \/ Rests \/ \E i \in ClientIds : Reported(i) \/ Closed(i),
         NEW id \in Open(pending), OrderKept(id)
  PROVE  OrderKept(id)'
<1>a. /\ statuses \in [ClientIds -> Statuses \cup {"Unregistered"}] /\ MachineTypeOK
      /\ openLocal \in [ClientIds -> BrokerIds \cup {None}]
      /\ booked \in [BrokerIds -> Nat]
      /\ venue \in [BrokerIds -> VenueOrders \cup {None}]
      /\ id \in ClientIds /\ pending[id] \in BrokerIds /\ pending[id] # None
  BY DEF RecoveryTypeInv, TypeInv, TypeOK, MachineTypeOK, RuntimeTypeOK, VenueTypeOK,
         RecoveryTypeOK, Open
<1>1. CASE Rests BY <1>1, <1>a, OrderRests DEF Rests
<1>2. CASE Sends
  <2>1. Registered(id) BY DEF PendingRegistered
  <2>2. order.client # id BY <1>2, <2>1 DEF Sends
  <2>3. statuses'[id] = statuses[id] BY <1>2, <1>a, <2>2 DEF Sends
  <2> QED BY <1>2, <1>a, <2>2, <2>3, OrderRests DEF Sends
<1>3. CASE Answered
  <2>1. order.client # id BY <1>3, <1>a DEF Answered, SettleInv, InHand
  <2>2. statuses'[id] = statuses[id] BY <1>3, <1>a, <2>1 DEF Answered, Transition
  <2>3. openLocal'[id] = openLocal[id] BY <1>3, <1>a, <2>1 DEF Answered
  <2> QED BY <1>3, <1>a, <2>2, <2>3, OrderRests DEF Answered
<1>4. ASSUME NEW i \in ClientIds, Reported(i) PROVE OrderKept(id)'
  <2>1. CASE statuses'[id] = statuses[id] BY <1>4, <1>a, <2>1, OrderRests DEF Reported
  <2>2. CASE statuses'[id] # statuses[id]
    <3>1. i = id BY <1>4, <1>a, <2>2 DEF Reported, Transition
    <3>2. Transition(id, TargetStatus(venue[openLocal[id]])) BY <1>4, <2>2, <3>1 DEF Reported
    <3>3. statuses[id] \in Live
      BY <1>a, <3>2, TransitionTypes, TargetIsStatus DEF OrderKept, TrueAtVenue, Terminal
    <3>4. openLocal[id] = pending[id] BY <3>3 DEF OrderKept
    <3>5. OrderOf(pending[id], id) BY <3>3 DEF OrderKept, TrueAtVenue, Live
    <3>6. venue[pending[id]] \in VenueOrders /\ venue[pending[id]].filled <= venue[pending[id]].qty
      BY <1>a, <3>5 DEF OrderOf, SettleInv, VenueSane
    <3>7. statuses'[id] = TargetStatus(venue[pending[id]]) BY <1>a, <3>2, <3>4 DEF Transition
    <3>8. TrueAtVenue(id)'
      BY <3>5, <3>6, <3>7, ReportTrue DEF TrueAtVenue, OrderOf, recoveryVars
    <3>9. UNCHANGED <<openLocal, booked>> BY <1>4 DEF Reported
    <3> QED BY <3>4, <3>8, <3>9 DEF OrderKept, OrderOf, recoveryVars
  <2> QED BY <2>1, <2>2
<1>5. ASSUME NEW i \in ClientIds, Closed(i) PROVE OrderKept(id)'
  <2>1. i \in Open(openLocal) /\ openLocal[i] \in BrokerIds /\ OrderOf(openLocal[i], i)
    BY <1>5, <1>a DEF Closed, RecoveryTypeInv, Tracked, Open, SettleInv, OwnOrders
  <2>2. CASE i # id
    <3>1. openLocal'[id] = openLocal[id] BY <1>5, <1>a, <2>2 DEF Closed
    <3>2. OrderOf(pending[id], id) => openLocal[i] # pending[id] BY <2>1, <2>2 DEF OrderOf
    <3>3. OrderOf(pending[id], id) => booked'[pending[id]] = booked[pending[id]]
      BY <1>5, <1>a, <3>2 DEF Closed
    <3> QED BY <1>5, <3>1, <3>3, <1>a, OrderRests DEF Closed
  <2>3. CASE i = id
    <3>1. openLocal[id] = pending[id] /\ OrderOf(pending[id], id)
      BY <2>1, <2>3 DEF OrderKept, Open
    <3>2. statuses[id] \in Terminal /\ statuses'[id] = statuses[id] /\ wire' = wire
      BY <1>5, <2>3 DEF Closed, SettleInv, ClosingSettled
    <3>3. TrueAtVenue(id)' BY <3>2 DEF OrderKept, TrueAtVenue, OrderOf, recoveryVars
    <3>4. openLocal'[id] = None BY <1>5, <1>a, <2>3 DEF Closed
    <3>5. venue[pending[id]].filled \in Nat BY <1>a, <3>1 DEF OrderOf, VenueOrders
    <3>6. pending[id] \notin halfBooked => booked[pending[id]] = 0
      BY <1>a, <3>1 DEF OrderKept
    <3>7. pending[id] \notin halfBooked => booked'[pending[id]] <= venue[pending[id]].filled
      BY <1>5, <1>a, <2>3, <3>1, <3>5, <3>6 DEF Closed
    <3>8. statuses'[id] \notin Live BY <3>2 DEF Terminal, Live
    <3> QED BY <3>3, <3>4, <3>7, <3>8 DEF OrderKept, OrderOf, recoveryVars
  <2> QED BY <2>2, <2>3
<1> QED BY <1>1, <1>2, <1>3, <1>4, <1>5

LEMMA RunSettles ==
  ASSUME RecoveryTypeInv, SettleInv, PendingRegistered, Run \/ ReuseRefused
  PROVE  SettleInv'
<1>1. phase = "up" /\ UNCHANGED recoveryVars /\ (Decide \/ Sync \/ RefuseDuplicate)
  BY DEF Run, ReuseRefused
<1>2. Sends \/ Answered \/ Rests \/ \E id \in ClientIds : Reported(id) \/ Closed(id)
  BY <1>1, RunEffects
<1>3. venue' = venue /\ replies' = replies
  BY <1>1, RunTracks DEF RecoveryTypeInv
<1>a. /\ MachineTypeOK /\ openLocal \in [ClientIds -> BrokerIds \cup {None}]
      /\ closing \subseteq ClientIds
  BY DEF RecoveryTypeInv, TypeInv, TypeOK, RuntimeTypeOK
<1>4. VenueSane' BY <1>3 DEF SettleInv, VenueSane
<1>5. OwnOrders'
  <2>1. \A id \in Open(openLocal') : OrderOf(openLocal'[id], id)
    <3> SUFFICES ASSUME NEW id \in ClientIds, openLocal'[id] # None PROVE OrderOf(openLocal'[id], id)
      BY DEF Open
    <3>1. CASE openLocal'[id] = openLocal[id] BY <3>1 DEF SettleInv, OwnOrders, Open
    <3>2. CASE openLocal'[id] # openLocal[id]
      <4>1. CASE Answered
        <5>1. PICK b \in BrokerIds : Reply(order, b) \in replies
                /\ openLocal' = [openLocal EXCEPT ![order.client] = b]
          BY <3>2, <4>1 DEF Answered
        <5>2. id = order.client /\ openLocal'[id] = b BY <1>a, <3>2, <5>1
        <5>3. OrderOf(b, order.client)
          BY <5>1, NoOrderAssumption DEF SettleInv, OwnOrders, Reply
        <5> QED BY <5>2, <5>3
      <4>2. ASSUME NEW i \in ClientIds, Closed(i) PROVE FALSE
        BY <1>a, <3>2, <4>2 DEF Closed
      <4> QED BY <1>2, <3>2, <4>1, <4>2 DEF Sends, Rests, Reported
    <3> QED BY <3>1, <3>2
  <2> QED BY <1>3, <2>1 DEF SettleInv, OwnOrders, OrderOf
<1>6. life' = life BY <1>1, RunSends DEF RecoveryTypeInv, Run, Decide, Sync, RefuseDuplicate,
        Tick, SkipIntent, Submit, PassRisk, ReceiveAck, ReceiveRejection, AnswerLost, BeginSync,
        AbortCycle, EndSync, SyncReport, SyncLookupFails, ApplyFills, ApplyFillsLookupFails
<1>7. CopyTrue' BY <1>1, <1>3, <1>6 DEF SettleInv, CopyTrue, Open, OrderOf, recoveryVars
<1>8. Progress' BY <1>1 DEF SettleInv, Progress, Open, recoveryVars
<1>9. InHand'
  <2>1. CASE Rests BY <1>1, <2>1 DEF SettleInv, InHand, Rests, recoveryVars
  <2>2. CASE Sends
    BY <1>1, <2>2 DEF Sends, PendingRegistered, InHand, recoveryVars, Open
  <2>3. CASE Answered BY <2>3 DEF InHand, Answered
  <2>4. ASSUME NEW id \in ClientIds, Reported(id) \/ Closed(id) PROVE InHand'
    BY <1>1, <2>4 DEF SettleInv, InHand, Reported, Closed, recoveryVars
  <2> QED BY <1>2, <2>1, <2>2, <2>3, <2>4
<1>10. ClosingSettled'
  <2> USE DEF SettleInv, ClosingSettled, MachineTypeOK
  <2>0. ASSUME NEW id \in ClientIds, NEW to \in Statuses, Transition(id, to)
        PROVE  statuses[id] \notin Terminal /\ statuses' = [statuses EXCEPT ![id] = to]
    BY <1>a, <2>0, TransitionTypes DEF Transition
  <2>1. CASE Rests BY <2>1 DEF Rests
  <2>2. CASE Sends
    <3>1. order.client \notin closing BY <2>2 DEF Sends, Registered, Terminal
    <3> QED BY <1>a, <2>2, <3>1 DEF Sends
  <2>3. CASE Answered
    <3>1. PICK to \in Statuses : Transition(order.client, to) BY <2>3 DEF Answered
    <3>2. order.client \notin closing /\ statuses' = [statuses EXCEPT ![order.client] = to]
      BY <2>0, <2>3, <3>1 DEF Answered
    <3> QED BY <1>a, <2>3, <3>2 DEF Answered
  <2>4. ASSUME NEW id \in ClientIds, Reported(id) PROVE ClosingSettled'
    <3> DEFINE target == TargetStatus(venue[openLocal[id]])
    <3>1. statuses'[id] = target
      BY <1>a, <2>4 DEF Reported, Transition
    <3>2. closing' = IF target \in Terminal THEN {id} ELSE {} BY <2>4 DEF Reported
    <3> QED BY <3>1, <3>2
  <2>5. ASSUME NEW id \in ClientIds, Closed(id) PROVE ClosingSettled'
    BY <2>5 DEF Closed
  <2> QED BY <1>2, <2>1, <2>2, <2>3, <2>4, <2>5
<1>11. ASSUME ~lookupFailed', NEW id \in Open(pending') PROVE OrderKept(id)'
  <2>1. ~lookupFailed /\ id \in Open(pending) /\ id \notin pendingTodo
    BY <1>1, <1>11 DEF SettleInv, Progress, recoveryVars, Open
  <2>2. OrderKept(id) BY <1>1, <2>1 DEF SettleInv, Recovered, Counted, OrderKept
  <2> QED BY <1>1, <1>2, <1>3, <2>1, <2>2, RunKeepsOrder
<1>12. Recovered' /\ Counted'
  BY <1>11 DEF Recovered, Counted, OrderKept, Open
<1> QED BY <1>4, <1>5, <1>7, <1>8, <1>9, <1>10, <1>12 DEF SettleInv

\* What a step of the venue does to its records.
LEMMA VenueRecords ==
  ASSUME VenueTypeOK, VenueSane, VenueStep
  PROVE  /\ VenueSane' /\ wire' \subseteq wire
         /\ \A b \in BrokerIds : venue[b] # None =>
              /\ venue'[b] # None /\ venue'[b].client = venue[b].client
              /\ venue[b].filled <= venue'[b].filled
              /\ ~venue[b].open => venue'[b] = venue[b]
         /\ \A b \in BrokerIds : venue[b] = None /\ venue'[b] # None =>
              \E r \in wire : r.client = venue'[b].client
         /\ \A a \in replies' : a \in replies \/ a.broker = None \/ OrderOf(a.broker, a.client)'
<1> USE NoOrderAssumption, QuantitiesAssumption DEF VenueTypeOK
<1> DEFINE Kept(b) == /\ venue'[b] # None /\ venue'[b].client = venue[b].client
                      /\ venue[b].filled <= venue'[b].filled
                      /\ ~venue[b].open => venue'[b] = venue[b]
           Sane(b) == venue'[b] # None =>
                        /\ venue'[b].filled <= venue'[b].qty
                        /\ venue'[b].open => venue'[b].filled < venue'[b].qty
           Claim == /\ VenueSane' /\ wire' \subseteq wire
                    /\ \A b \in BrokerIds : venue[b] # None => Kept(b)
                    /\ \A b \in BrokerIds : venue[b] = None /\ venue'[b] # None =>
                         \E r \in wire : r.client = venue'[b].client
                    /\ \A a \in replies' :
                         a \in replies \/ a.broker = None \/ OrderOf(a.broker, a.client)'
<1>1. \A b \in BrokerIds : venue[b] # None => venue[b].filled \in Nat /\ venue[b].qty \in Nat
  BY DEF VenueOrders
<1>2. ASSUME venue' = venue PROVE VenueSane' /\ \A b \in BrokerIds : venue[b] # None => Kept(b)
  BY <1>1, <1>2 DEF VenueSane
<1>3. ASSUME NEW r \in wire, NEW b \in BrokerIds, Accept(r, b) PROVE Claim
  <2> DEFINE v == [client |-> r.client, life |-> r.life, symbol |-> r.symbol,
                   side |-> r.side, qty |-> r.qty, filled |-> 0, open |-> TRUE]
  <2>1. r \in Requests OBVIOUS
  <2>2. v \in VenueOrders /\ v.filled = 0 /\ v.qty = r.qty /\ v.client = r.client
    BY <2>1 DEF Requests, VenueOrders
  <2>3. r.qty \in Nat /\ r.qty > 0
    <3>1. r.qty \in Quantities BY <2>1 DEF Requests
    <3>2. r.qty \in Nat /\ r.qty # 0 BY <3>1
    <3> QED BY <3>2
  <2> HIDE DEF v
  <2>4. venue' = [venue EXCEPT ![b] = v] /\ venue[b] = None /\ wire' = wire \ {r}
        /\ replies' = replies \cup {Reply(r, b)}
    BY <1>3 DEF Accept, v
  <2>5. venue'[b] = v /\ \A c \in BrokerIds \ {b} : venue'[c] = venue[c] BY <2>4
  <2>6. v # None BY <2>2
  <2>7. VenueSane' BY <2>2, <2>3, <2>5 DEF VenueSane
  <2>8. \A c \in BrokerIds : venue[c] # None => Kept(c) BY <1>1, <2>4, <2>5
  <2>9. OrderOf(b, r.client)' BY <2>2, <2>5, <2>6 DEF OrderOf
  <2> QED BY <2>2, <2>4, <2>5, <2>7, <2>8, <2>9 DEF Reply
<1>4. ASSUME NEW r \in wire, NEW b \in BrokerIds, AcceptAgain(r, b) PROVE Claim
  <2>1. venue' = venue /\ wire' = wire \ {r} /\ replies' = replies \cup {Reply(r, b)}
        /\ OrderOf(b, r.client)
    BY <1>4 DEF AcceptAgain
  <2> QED BY <1>2, <2>1 DEF OrderOf, Reply
<1>5. ASSUME NEW r \in wire, Refuse(r) \/ Lose(r) PROVE Claim
  BY <1>2, <1>5 DEF Refuse, Lose, Reply
<1>6. ASSUME NEW b \in BrokerIds, Fill(b) \/ Cancel(b) PROVE Claim
  <2>1. venue[b] \in VenueOrders /\ venue[b] # None /\ venue[b].open
        /\ wire' = wire /\ replies' = replies
        /\ \A c \in BrokerIds \ {b} : venue'[c] = venue[c]
    BY <1>6 DEF Fill, Cancel
  <2>2. /\ venue'[b] \in VenueOrders /\ venue'[b].client = venue[b].client
        /\ venue'[b].qty = venue[b].qty
        /\ \/ venue'[b].filled = venue[b].filled + 1
              /\ (venue'[b].open <=> venue[b].filled + 1 < venue[b].qty)
           \/ venue'[b].filled = venue[b].filled /\ ~venue'[b].open
    <3>1. CASE Fill(b)
      <4>1. venue[b].filled + 1 \in Nat /\ (venue[b].filled + 1 < venue[b].qty) \in BOOLEAN
        BY <2>1 DEF VenueOrders
      <4>2. venue'[b] = [venue[b] EXCEPT !.filled = venue[b].filled + 1,
                                         !.open = venue[b].filled + 1 < venue[b].qty]
        BY <3>1 DEF Fill
      <4> QED BY <2>1, <4>1, <4>2 DEF VenueOrders
    <3>2. CASE Cancel(b)
      <4>1. venue'[b] = [venue[b] EXCEPT !.open = FALSE] BY <3>2 DEF Cancel
      <4> QED BY <2>1, <4>1 DEF VenueOrders
    <3> QED BY <1>6, <3>1, <3>2
  <2>3. venue'[b] # None BY <2>2
  <2>4. venue[b].filled < venue[b].qty /\ venue[b].filled \in Nat /\ venue[b].qty \in Nat
    BY <1>1, <2>1 DEF VenueSane
  <2>5. VenueSane'
    <3>1. /\ venue'[b].filled <= venue'[b].qty
          /\ venue'[b].open => venue'[b].filled < venue'[b].qty
      BY <2>2, <2>4
    <3>2. \A c \in BrokerIds \ {b} : Sane(c) BY <2>1 DEF VenueSane
    <3> QED BY <3>1, <3>2 DEF VenueSane
  <2>6. \A c \in BrokerIds : venue[c] # None => Kept(c) BY <1>1, <2>1, <2>2, <2>3, <2>4
  <2> QED BY <2>1, <2>5, <2>6
<1> QED BY <1>3, <1>4, <1>5, <1>6 DEF VenueStep

LEMMA VenueSettles ==
  ASSUME RecoveryTypeInv, SettleInv, VenueMoves
  PROVE  SettleInv'
<1>1. VenueStep /\ UNCHANGED <<recoveryVars, statuses, pc, order, openLocal, closing, booked, life>>
  BY DEF VenueMoves, Venue
<1>a. /\ VenueTypeOK /\ openLocal \in [ClientIds -> BrokerIds \cup {None}]
      /\ saved \in [ClientIds -> BrokerIds \cup {None}]
      /\ pending \in [ClientIds -> BrokerIds \cup {None}] /\ VenueSane
  BY DEF RecoveryTypeInv, TypeInv, TypeOK, RuntimeTypeOK, RecoveryTypeOK, SettleInv
<1>2. VenueSane' /\ wire' \subseteq wire BY <1>1, <1>a, VenueRecords
<1>3. ASSUME NEW b \in BrokerIds, venue[b] # None
      PROVE  /\ venue'[b] # None /\ venue'[b].client = venue[b].client
             /\ venue[b].filled <= venue'[b].filled
             /\ ~venue[b].open => venue'[b] = venue[b]
  BY <1>1, <1>3, <1>a, VenueRecords
<1>4. \A b \in BrokerIds : \A id : OrderOf(b, id) => OrderOf(b, id)' BY <1>3 DEF OrderOf
<1>5. \A b \in BrokerIds : \A id : OrderOf(b, id)' =>
        OrderOf(b, id) \/ \E r \in wire : r.client = id
  BY <1>1, <1>3, <1>a, VenueRecords DEF OrderOf
<1>6. OwnOrders'
  <2>1. \A a \in replies' : a \in replies \/ a.broker = None \/ OrderOf(a.broker, a.client)'
    BY <1>1, <1>a, VenueRecords
  <2>2. \A a \in replies : a.broker # None => a.broker \in BrokerIds
    BY <1>a DEF VenueTypeOK, Replies
  <2>3. \A id \in Open(openLocal)' : OrderOf(openLocal[id], id)'
    BY <1>1, <1>4, <1>a DEF SettleInv, OwnOrders, Open
  <2>4. \A a \in replies' : a.broker # None => OrderOf(a.broker, a.client)'
    BY <1>4, <2>1, <2>2 DEF SettleInv, OwnOrders
  <2> QED BY <1>1, <2>3, <2>4 DEF OwnOrders
<1>7. CopyTrue'
  <2>1. CASE \A id \in Open(saved) : OrderOf(saved[id], id)
    <3>1. \A id \in Open(saved) : OrderOf(saved[id], id)'
      BY <1>1, <1>4, <1>a, <2>1 DEF Open, recoveryVars
    <3> QED BY <1>1, <3>1 DEF CopyTrue, Open, recoveryVars
  <2>2. CASE life = MaxCrashes /\ (phase # "up" => VenueEmpty)
    <3>1. phase = "up"
      BY <1>1, <2>2 DEF VenueEmpty, VenueStep, Accept, AcceptAgain, Refuse, Lose, Fill, Cancel
    <3> QED BY <1>1, <2>2, <3>1 DEF CopyTrue, recoveryVars
  <2> QED BY <2>1, <2>2 DEF SettleInv, CopyTrue
<1>8. Progress' /\ InHand' /\ ClosingSettled'
  BY <1>1 DEF SettleInv, Progress, InHand, ClosingSettled, Open, recoveryVars
<1>9. ASSUME NEW id \in Open(pending), TrueAtVenue(id)
      PROVE  /\ TrueAtVenue(id)'
             /\ OrderOf(pending[id], id)' => OrderOf(pending[id], id)
  <2>1. id \in ClientIds /\ pending[id] \in BrokerIds BY <1>a DEF Open
  <2>2. OrderOf(pending[id], id)' => OrderOf(pending[id], id)
    BY <1>1, <1>5, <1>9, <2>1 DEF TrueAtVenue, recoveryVars
  <2>3. CASE statuses[id] = "Rejected"
    <3>1. \A c \in BrokerIds : ~OrderOf(c, id)' BY <1>5, <1>9, <2>3 DEF TrueAtVenue
    <3>2. \A q \in wire' : q.client # id BY <1>2, <1>9, <2>3 DEF TrueAtVenue
    <3>3. statuses'[id] = "Rejected" /\ pending' = pending BY <1>1, <2>3 DEF recoveryVars
    <3>4. TrueAtVenue(id)' BY <3>1, <3>2, <3>3 DEF TrueAtVenue, Terminal, OrderOf
    <3> QED BY <2>2, <3>4
  <2>4. CASE statuses[id] # "Rejected"
    <3>1. OrderOf(pending[id], id) BY <1>9, <2>4 DEF TrueAtVenue
    <3>2. OrderOf(pending[id], id)' BY <1>1, <1>4, <2>1, <3>1 DEF recoveryVars
    <3>3. ~venue[pending[id]].open => venue'[pending[id]] = venue[pending[id]]
      BY <1>3, <2>1, <3>1 DEF OrderOf
    <3> QED BY <1>1, <1>9, <2>4, <3>2, <3>3 DEF TrueAtVenue, recoveryVars
  <2> QED BY <2>2, <2>3, <2>4
<1>10. Recovered' BY <1>1, <1>9 DEF SettleInv, Recovered, recoveryVars, Open
<1>11. Counted'
  <2> SUFFICES ASSUME phase' = "up", ~lookupFailed', NEW id \in Open(pending'),
                      pending'[id] \notin halfBooked', OrderOf(pending[id], id)'
               PROVE  /\ openLocal'[id] # None => booked'[pending'[id]] = 0
                      /\ booked'[pending'[id]] <= venue'[pending'[id]].filled
    BY DEF Counted
  <2>1. /\ phase = "up" /\ ~lookupFailed /\ id \in Open(pending) /\ id \in ClientIds
        /\ pending' = pending /\ halfBooked' = halfBooked
    BY <1>1 DEF recoveryVars, Open
  <2>2. id \notin pendingTodo BY <2>1 DEF SettleInv, Progress
  <2>3. OrderOf(pending[id], id) BY <1>9, <2>1, <2>2 DEF SettleInv, Recovered
  <2>4. /\ openLocal[id] # None => booked[pending[id]] = 0
        /\ booked[pending[id]] <= venue[pending[id]].filled
    BY <2>1, <2>3 DEF SettleInv, Counted
  <2>5. pending[id] \in BrokerIds BY <1>a, <2>1 DEF Open
  <2>6. venue[pending[id]].filled <= venue'[pending[id]].filled
        /\ venue[pending[id]].filled \in Nat /\ venue'[pending[id]].filled \in Nat
        /\ booked[pending[id]] \in Nat
    <3>1. venue[pending[id]] \in VenueOrders BY <1>a, <2>3, <2>5 DEF OrderOf, VenueTypeOK
    <3>2. VenueTypeOK' BY <1>1, <1>a, VenueTypes
    <3>3. venue'[pending[id]] \in VenueOrders BY <1>3, <2>3, <2>5, <3>2 DEF OrderOf, VenueTypeOK
    <3> QED BY <1>3, <2>3, <2>5, <3>1, <3>3
            DEF OrderOf, VenueOrders, RecoveryTypeInv, TypeInv, TypeOK, RuntimeTypeOK
  <2> QED BY <1>1, <2>1, <2>4, <2>6
<1> QED BY <1>2, <1>6, <1>7, <1>8, <1>10, <1>11 DEF SettleInv

\* What dies with the process, and what the caller's copy is worth then.
LEMMA CrashSettles ==
  ASSUME RecoveryTypeInv, SettleInv, Crash \/ (CrashWithVenue /\ life' = MaxCrashes)
  PROVE  SettleInv'
<1>1. /\ life < MaxCrashes /\ FreshProcess
      /\ \/ UNCHANGED venueVars
         \/ VenueEmpty' /\ life' = MaxCrashes
  BY DEF Crash, CrashWithVenue, VenueEmpty
<1>2. Open(openLocal)' = {} /\ Open(pending)' = {} BY <1>1 DEF FreshProcess, Open
<1>3. VenueSane' BY <1>1 DEF SettleInv, VenueSane, VenueEmpty
<1>4. OwnOrders' BY <1>1, <1>2 DEF SettleInv, OwnOrders, OrderOf, VenueEmpty
<1>5. CopyTrue'
  <2>1. CASE UNCHANGED venueVars
    <3>1. \A id \in Open(saved) : OrderOf(saved[id], id)
      BY <1>1, MaxCrashesAssumption DEF SettleInv, CopyTrue, RecoveryTypeInv
    <3> QED BY <1>1, <2>1, <3>1 DEF CopyTrue, FreshProcess, OrderOf, Open
  <2> QED BY <1>1, <2>1 DEF CopyTrue
<1>6. Progress' BY <1>1, <1>2 DEF FreshProcess, Progress
<1>7. InHand' /\ ClosingSettled' BY <1>1 DEF FreshProcess, InHand, ClosingSettled
<1>8. Recovered' /\ Counted' BY <1>2 DEF Recovered, Counted
<1> QED BY <1>3, <1>4, <1>5, <1>6, <1>7, <1>8 DEF SettleInv

LEMMA SaveSettles ==
  ASSUME SettleInv, SaveOpenOrders
  PROVE  SettleInv'
<1> USE DEF SaveOpenOrders, vars, SettleInv
<1>1. VenueSane' /\ OwnOrders' BY DEF VenueSane, OwnOrders, OrderOf, Open
<1>2. CopyTrue' BY DEF CopyTrue, OwnOrders, OrderOf, Open
<1>3. Progress' BY DEF Progress, Open
<1>4. InHand' /\ ClosingSettled' BY DEF InHand, ClosingSettled
<1>5. Recovered' /\ Counted' BY DEF Recovered, Counted, TrueAtVenue, OrderOf, Open
<1> QED BY <1>1, <1>2, <1>3, <1>4, <1>5

\* One order is resolved.
LEMMA ReconcileSettles ==
  ASSUME RecoveryTypeInv, SettleInv, NEW id \in ClientIds, Reconcile(id)
  PROVE  SettleInv'
<1>a. /\ statuses \in [ClientIds -> Statuses \cup {"Unregistered"}]
      /\ venue \in [BrokerIds -> VenueOrders \cup {None}]
      /\ pending \in [ClientIds -> BrokerIds \cup {None}] /\ Tracked
  BY DEF RecoveryTypeInv, TypeInv, TypeOK, MachineTypeOK, VenueTypeOK, RecoveryTypeOK
<1>1. /\ phase = "reconciling" /\ phase' = phase
      /\ UNCHANGED <<venueVars, cycleVars, idVars, syncVars, bookVars, life, saved, pending,
                     lookupFailed, halfBooked>>
      /\ pendingTodo' = pendingTodo \ {id} /\ results' = results \cup {id}
      /\ \A x \in ClientIds \ {id} : statuses'[x] = statuses[x]
  BY <1>a DEF Reconcile
<1>2. id \in Open(pending) /\ id \in pendingTodo /\ pending[id] \in BrokerIds
  BY <1>a DEF Reconcile, RecoveryTypeInv, ResolvedAtVenue, Open
<1>3. ~lookupFailed /\ pending = saved /\ Open(openLocal) = {} /\ closing = {}
  BY <1>1, <1>a DEF SettleInv, Progress, Tracked
<1>4. VenueSane' /\ OwnOrders' /\ CopyTrue'
  BY <1>1 DEF SettleInv, VenueSane, OwnOrders, CopyTrue, VenueEmpty, OrderOf, Open
<1>5. Progress' BY <1>1, <1>2, <1>3 DEF SettleInv, Progress, Open
<1>6. InHand' /\ ClosingSettled'
  BY <1>1, <1>3 DEF SettleInv, InHand, ClosingSettled
<1>7. OrderOf(pending[id], id) \/ VenueEmpty
  BY <1>1, <1>2, <1>3 DEF SettleInv, CopyTrue
<1>8. TrueAtVenue(id)'
  <2>1. CASE venue[pending[id]] = None
    <3>1. VenueEmpty BY <1>7, <2>1 DEF OrderOf
    <3>2. statuses'[id] = "Rejected" BY <1>a, <2>1 DEF Reconcile
    <3> QED BY <1>1, <3>1, <3>2 DEF TrueAtVenue, VenueEmpty, OrderOf, Terminal
  <2>2. CASE venue[pending[id]] # None
    <3>1. OrderOf(pending[id], id) BY <1>2, <1>7, <2>2 DEF VenueEmpty
    <3>2. /\ venue[pending[id]] \in VenueOrders
          /\ venue[pending[id]].filled <= venue[pending[id]].qty
      BY <1>2, <1>a, <2>2 DEF SettleInv, VenueSane
    <3>3. statuses'[id] = TargetStatus(venue[pending[id]]) BY <1>a, <2>2 DEF Reconcile
    <3> QED BY <1>1, <3>1, <3>2, <3>3, ReportTrue DEF TrueAtVenue, OrderOf
  <2> QED BY <2>1, <2>2
<1>9. ASSUME NEW x \in Open(pending) \ pendingTodo PROVE TrueAtVenue(x)'
  <2>1. TrueAtVenue(x) /\ x \in ClientIds /\ x # id
    BY <1>2, <1>3 DEF SettleInv, Recovered, Open
  <2> QED BY <1>1, <2>1 DEF TrueAtVenue, OrderOf
<1>10. Recovered' /\ Counted'
  BY <1>1, <1>8, <1>9 DEF Recovered, Counted, Open
<1> QED BY <1>4, <1>5, <1>6, <1>10 DEF SettleInv

\* The recovered orders are tracked again, with the books of the venue or none.
LEMMA RebuildSettles ==
  ASSUME RecoveryTypeInv, SettleInv, Rebuild \/ RebuildFails
  PROVE  SettleInv'
<1>a. /\ venue \in [BrokerIds -> VenueOrders \cup {None}]
      /\ pending \in [ClientIds -> BrokerIds \cup {None}] /\ Tracked
      /\ openLocal \in [ClientIds -> BrokerIds \cup {None}]
  BY DEF RecoveryTypeInv, TypeInv, TypeOK, RuntimeTypeOK, VenueTypeOK, RecoveryTypeOK
<1>1. /\ phase = "rebuilding" /\ phase' = "up"
      /\ UNCHANGED <<machineVars, venueVars, cycleVars, syncVars, life, saved, pending,
                     pendingTodo, results, lookupFailed>>
      /\ TrackLive
  BY DEF Rebuild, RebuildFails
<1>2. pc = "idle" /\ Open(openLocal) = {} /\ closing = {}
      /\ (lookupFailed => results = {})
      /\ (~lookupFailed => results = Open(pending) /\ pendingTodo = {})
  BY <1>1, <1>a DEF SettleInv, Progress, Tracked
<1>3. ASSUME NEW id \in results PROVE TrueAtVenue(id) /\ id \in Open(pending) /\ ~lookupFailed
  BY <1>2 DEF SettleInv, Recovered
<1>4. \A id \in ClientIds :
        openLocal'[id] = IF id \in results /\ statuses[id] \in Live THEN pending[id] ELSE None
  BY <1>1, <1>2 DEF TrackLive, Retracked, Open
<1>5. \A id \in results : statuses[id] \in Live => OrderOf(pending[id], id)
  BY <1>3 DEF TrueAtVenue, Live
<1>6. VenueSane' /\ CopyTrue' /\ InHand' /\ ClosingSettled'
  BY <1>1, <1>2 DEF SettleInv, VenueSane, CopyTrue, InHand, ClosingSettled, OrderOf, Open
<1>7. OwnOrders'
  <2>1. \A id \in Open(openLocal') : OrderOf(openLocal'[id], id) BY <1>4, <1>5 DEF Open
  <2> QED BY <1>1, <2>1 DEF SettleInv, OwnOrders, OrderOf
<1>8. Progress' BY <1>1, <1>2 DEF SettleInv, Progress, Open
<1>9. Recovered'
  <2> SUFFICES ASSUME ~lookupFailed', NEW id \in Open(pending') \ pendingTodo'
               PROVE  /\ TrueAtVenue(id)'
                      /\ statuses'[id] \in Live => openLocal'[id] = pending'[id]
                      /\ openLocal'[id] \in {None, pending'[id]}
    BY DEF Recovered
  <2>1. id \in results /\ id \in ClientIds BY <1>1, <1>2 DEF Open
  <2>2. TrueAtVenue(id)' BY <1>1, <1>3, <2>1 DEF TrueAtVenue, OrderOf
  <2> QED BY <1>1, <1>4, <2>1, <2>2
<1>10. Counted'
  <2> SUFFICES ASSUME ~lookupFailed', NEW id \in Open(pending'),
                      pending'[id] \notin halfBooked', OrderOf(pending[id], id)'
               PROVE  /\ openLocal'[id] # None => booked'[pending'[id]] = 0
                      /\ booked'[pending'[id]] <= venue'[pending'[id]].filled
    BY DEF Counted
  <2>1. /\ id \in results /\ id \in ClientIds /\ pending' = pending /\ pending[id] \in BrokerIds
    BY <1>1, <1>2, <1>a DEF Open
  <2>2. venue' = venue /\ venue[pending[id]] # None /\ venue[pending[id]].filled \in Nat
    BY <1>1, <1>a, <2>1 DEF OrderOf, VenueOrders
  <2>3. CASE Rebuild
    <3>1. booked'[pending[id]] = venue[pending[id]].filled BY <2>1, <2>2, <2>3 DEF Rebuild
    <3>2. openLocal'[id] # None => venue[pending[id]].filled = 0
      BY <1>4, <2>1, <2>2, <2>3 DEF Rebuild
    <3> QED BY <2>1, <2>2, <3>1, <3>2
  <2>4. CASE RebuildFails
    <3>1. booked'[pending[id]] = 0 BY <1>1, <2>1, <2>4 DEF RebuildFails, SettleInv, Progress
    <3> QED BY <2>1, <2>2, <3>1
  <2> QED BY <2>3, <2>4
<1> QED BY <1>6, <1>7, <1>8, <1>9, <1>10 DEF SettleInv

LEMMA RecoverSettles ==
  ASSUME RecoveryTypeInv, SettleInv, Recover
  PROVE  SettleInv'
<1>1. CASE BeginRecover
  <2> USE <1>1 DEF BeginRecover, vars, SettleInv
  <2>1. VenueSane' /\ OwnOrders' /\ CopyTrue'
    BY DEF VenueSane, OwnOrders, CopyTrue, VenueEmpty, OrderOf, Open
  <2>2. Progress' BY DEF Progress, Open
  <2>3. InHand' /\ ClosingSettled' BY DEF Progress, InHand, ClosingSettled
  <2>4. Recovered' /\ Counted' BY DEF Recovered, Counted, Open
  <2> QED BY <2>1, <2>2, <2>3, <2>4
<1>2. CASE EndReconcile
  <2> USE <1>2 DEF EndReconcile, vars, SettleInv
  <2>1. VenueSane' /\ OwnOrders' /\ CopyTrue'
    BY DEF VenueSane, OwnOrders, CopyTrue, VenueEmpty, OrderOf, Open
  <2>2. Progress' BY DEF Progress, Open
  <2>3. InHand' /\ ClosingSettled' BY DEF Progress, InHand, ClosingSettled
  <2>4. Recovered' /\ Counted' BY DEF Recovered, Counted, TrueAtVenue, OrderOf, Open
  <2> QED BY <2>1, <2>2, <2>3, <2>4
<1>3. ASSUME NEW id \in ClientIds, Reconcile(id) PROVE SettleInv'
  BY <1>3, ReconcileSettles
<1>4. ASSUME NEW id \in ClientIds, ReconcileLookupFails(id) PROVE SettleInv'
  <2> USE <1>4 DEF ReconcileLookupFails, SettleInv
  <2>1. VenueSane' /\ OwnOrders' /\ CopyTrue'
    BY DEF VenueSane, OwnOrders, CopyTrue, VenueEmpty, OrderOf, Open
  <2>2. Progress' BY DEF Progress, Open
  <2>3. closing = {} BY DEF Progress, RecoveryTypeInv, Tracked
  <2>4. InHand' /\ ClosingSettled' BY <2>3 DEF InHand, ClosingSettled
  <2>5. Recovered' /\ Counted' BY DEF Recovered, Counted
  <2> QED BY <2>1, <2>2, <2>4, <2>5
<1>5. CASE Rebuild \/ RebuildFails BY <1>5, RebuildSettles
<1> QED BY <1>1, <1>2, <1>3, <1>4, <1>5 DEF Recover

LEMMA SettleStep ==
  ASSUME RecoveryInv, SettleInv, [RecoveryNext]_allVars, [VenueOutlives]_allVars
  PROVE  SettleInv'
<1>a. RecoveryTypeInv /\ PendingRegistered BY DEF RecoveryInv, ResendInv
<1>1. CASE Run \/ ReuseRefused BY <1>1, <1>a, RunSettles
<1>2. CASE VenueMoves BY <1>2, <1>a, VenueSettles
<1>3. CASE SaveOpenOrders BY <1>3, SaveSettles
<1>4. CASE Crash BY <1>4, <1>a, CrashSettles
<1>5. CASE CrashWithVenue
  <2>1. life' # life BY <1>5, <1>a DEF CrashWithVenue, FreshProcess, RecoveryTypeInv
  <2>2. VenueOutlives BY <2>1 DEF allVars, vars
  <2> QED BY <1>5, <1>a, <2>2, CrashSettles DEF VenueOutlives
<1>6. CASE Recover BY <1>6, <1>a, RecoverSettles
<1>7. CASE UNCHANGED allVars
  BY <1>7 DEF allVars, vars, recoveryVars, SettleInv, VenueSane, OwnOrders, CopyTrue, VenueEmpty,
              Progress, InHand, ClosingSettled, Recovered, Counted, TrueAtVenue, OrderOf, Open
<1> QED BY <1>1, <1>2, <1>3, <1>4, <1>5, <1>6, <1>7 DEF RecoveryNext

LEMMA SettlesAll ==
  ASSUME RecoveryTypeInv, SettleInv
  PROVE  RecoveredSettled /\ OnlyHalfFilledBookedTwice
<1>1. ASSUME phase = "up", ~lookupFailed, NEW id \in Open(pending)
      PROVE  /\ TrueAtVenue(id)
             /\ statuses[id] \in Live => openLocal[id] = pending[id]
             /\ pending[id] \notin halfBooked /\ OrderOf(pending[id], id) =>
                  booked[pending[id]] <= venue[pending[id]].filled
  <2>1. id \notin pendingTodo BY <1>1 DEF SettleInv, Progress
  <2> QED BY <1>1, <2>1 DEF SettleInv, Recovered, Counted
<1>2. ASSUME phase = "up", ~lookupFailed, NEW id \in Open(pending)
      PROVE  statuses[id] = "Rejected" => ~OrderOf(pending[id], id)
  <2>1. pending[id] \in BrokerIds BY <1>2 DEF Open, RecoveryTypeInv, RecoveryTypeOK
  <2> QED BY <1>1, <1>2, <2>1 DEF TrueAtVenue
<1>3. RecoveredSettled BY <1>1, <1>2 DEF RecoveredSettled, TrueAtVenue
<1>4. OnlyHalfFilledBookedTwice BY <1>1 DEF OnlyHalfFilledBookedTwice
<1> QED BY <1>3, <1>4

\* With one restart the venue that dies with a process dies with the last.
LEMMA OneRestart ==
  ASSUME MaxCrashes <= 1, RecoveryTypeInv, [RecoveryNext]_allVars
  PROVE  [VenueOutlives]_allVars
<1>1. CASE CrashWithVenue
  <2>1. life \in Nat /\ life < MaxCrashes /\ life' = life + 1
    BY <1>1, MaxCrashesAssumption DEF CrashWithVenue, FreshProcess, RecoveryTypeInv
  <2> QED BY <2>1, MaxCrashesAssumption DEF VenueOutlives
<1> QED BY <1>1 DEF VenueOutlives

\* The strengthening behind the two theorems below.
THEOREM SettleInvariantHolds ==
  RecoverySpec /\ [][VenueOutlives]_allVars => [](RecoveryInv /\ SettleInv)
<1>1. RecoveryInit => SettleInv BY SettleInit
<1>2. RecoveryInv /\ SettleInv /\ [RecoveryNext]_allVars /\ [VenueOutlives]_allVars => SettleInv'
  BY SettleStep
<1> QED BY <1>1, <1>2, RecoveryInvariantHolds, PTL DEF RecoverySpec

\* However out of date the caller's pairs were, every order it handed over
\* comes out of recovery settled as the venue says or tracked under its broker
\* id, and stays so while the new process trades (execution/gateway.rs:
\* reconcile_pending, runtime/mod.rs: recover), as long as an in-process venue
\* dies with the last process only.
THEOREM RecoveredOrdersSettle ==
  RecoverySpec /\ [][VenueOutlives]_allVars => []RecoveredSettled
<1>1. RecoveryInv /\ SettleInv => RecoveredSettled BY SettlesAll DEF RecoveryInv
<1> QED BY <1>1, SettleInvariantHolds, PTL

\* Nor is any order booked beyond what the venue filled, but those tracked
\* again with shares already in the positions that were read
\* (runtime/mod.rs: rebuild_portfolio and apply_fills).
THEOREM OthersBookedOnce ==
  RecoverySpec /\ [][VenueOutlives]_allVars => []OnlyHalfFilledBookedTwice
<1>1. RecoveryInv /\ SettleInv => OnlyHalfFilledBookedTwice BY SettlesAll DEF RecoveryInv
<1> QED BY <1>1, SettleInvariantHolds, PTL

\* Both hold of one restart without any assumption on which venue dies, for
\* every number of orders, broker ids and quantities.
THEOREM OneRestartSettles ==
  ASSUME MaxCrashes <= 1
  PROVE  RecoverySpec => []RecoveredSettled /\ []OnlyHalfFilledBookedTwice
<1>1. RecoveryInv /\ [RecoveryNext]_allVars => [VenueOutlives]_allVars
  BY OneRestart DEF RecoveryInv
<1>2. RecoverySpec => [][VenueOutlives]_allVars
  BY <1>1, RecoveryInvariantHolds, PTL DEF RecoverySpec
<1> QED BY <1>2, RecoveredOrdersSettle, OthersBookedOnce, PTL
=============================================================================
