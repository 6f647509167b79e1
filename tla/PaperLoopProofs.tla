-------------------------- MODULE PaperLoopProofs --------------------------
(***************************************************************************)
(* Proofs about PaperLoop, for any number of orders, symbols, lives, bars  *)
(* and storage errors.                                                     *)
(*                                                                         *)
(* The rows follow the orders through a cycle: each order that no failed   *)
(* cycle has skipped is still to be stored, open, still to be written, or  *)
(* told in full by the tables (RowOf).  The books agree because the open   *)
(* orders of a symbol are all on one side (OneSide), the side that the     *)
(* portfolio asks for until the sync (SideByBooks), and all of one lot     *)
(* (WholeLots).                                                            *)
(***************************************************************************)
EXTENDS PaperLoop, FiniteSetTheorems, TLAPS

USE DEF paperVars, startVars, storageVars

Process ==
  [pc : {"idle", "quoting", "deciding", "creating", "syncing", "writing", "positions"},
   due : BOOLEAN, cursor : Nat, quoted : SUBSET Symbols, toDecide : SUBSET Symbols,
   orderSeq : 0 .. MaxOrders, sent : [ClientIds -> Row \cup {None}],
   open : SUBSET ClientIds, mock : [Symbols -> Nat], portfolio : [Symbols -> Nat],
   toCreate : SUBSET ClientIds, settled : SUBSET ClientIds, toFill : SUBSET ClientIds,
   toWrite : SUBSET Symbols, lost : SUBSET ClientIds]

FillRow == [client : ClientIds, order : Row]

\* The process between its starts, the database, and the life they are in.
PaperTypeOK ==
  /\ stage \in {"loading", "opening", "starting", "up", "exited", "down"}
  /\ loop \in {"none", "sim", "realtime", "demo"}
  /\ stage = "loading" => settings \in Settings
  /\ proc \in Process
  /\ stage # "up" => proc = Fresh
  /\ life \in Nat /\ life \in Lives /\ errors \in Nat
  /\ orderRows \in [ClientIds -> OrderRow \cup {None}]
  /\ fillRows \subseteq FillRow
  /\ positionRows \in [Symbols -> Nat \cup {None}]
  /\ \A f \in fillRows : f.order.life \in 0 .. life
  /\ stage \notin {"up", "down"} => fillRows = {}

\* What is left to do, at each place in a cycle.
CycleState ==
  /\ proc.toCreate # {} => proc.pc \in {"deciding", "creating"}
  /\ proc.settled # {} => proc.pc \in {"syncing", "writing"}
  /\ proc.toFill # {} => proc.pc = "writing"
  /\ proc.toWrite # {} => proc.pc = "positions"
  /\ proc.toCreate \subseteq proc.open
  /\ proc.open \cap (proc.settled \cup proc.toFill) = {}
  /\ proc.settled \cap proc.toFill = {}
  /\ \A i, j \in proc.toFill : i = j
  /\ proc.pc \in {"writing", "positions"} => proc.open = {}

\* The orders drawn so far: of this process, and of one lot each.
SentOrders ==
  /\ \A id \in ClientIds : id > proc.orderSeq => proc.sent[id] = None
  /\ \A id \in ClientIds : proc.sent[id] # None =>
       proc.sent[id].life = life /\ proc.sent[id].qty = Lot
  /\ \A id \in proc.open \cup proc.settled \cup proc.toFill : proc.sent[id] # None

FillsOf(id) == {f \in fillRows : f.client = id /\ f.order.life = life}
WholeFill(id) == [client |-> id, order |-> proc.sent[id]]

\* How far the rows of an order are, by where it stands.
RowOf(id) ==
  /\ proc.sent[id] # None /\ id \notin proc.toCreate =>
       orderRows[id] # None /\ orderRows[id].order = proc.sent[id]
  /\ proc.sent[id] # None /\ id \notin proc.open \cup proc.settled =>
       orderRows[id] # None /\ orderRows[id].status = "Filled"
  /\ FillsOf(id) = IF proc.sent[id] = None \/ id \in proc.open \cup proc.settled \cup proc.toFill
                   THEN {} ELSE {WholeFill(id)}

OrdersTold == stage = "up" => \A id \in ClientIds \ proc.lost : RowOf(id)

\* Until the sync the stored positions are the last cycle's; the last writes
\* bring them up to the portfolio again.
PositionsTold ==
  errors = 0 /\ proc.lost = {} =>
    /\ proc.pc \in {"idle", "quoting", "deciding", "creating"} =>
         \A s \in Symbols : proc.portfolio[s] \in {0, positionRows[s]}
    /\ proc.pc = "positions" =>
         \A s \in Symbols \ proc.toWrite : proc.portfolio[s] \in {0, positionRows[s]}

WholeLots == \A s \in Symbols : \E n \in Nat : proc.portfolio[s] = n * Lot

OneSide ==
  \A i, j \in proc.open :
    proc.sent[i].symbol = proc.sent[j].symbol => proc.sent[i].side = proc.sent[j].side

SideByBooks ==
  proc.pc # "syncing" =>
    \A id \in proc.open :
      proc.sent[id].side = "Buy" <=> proc.portfolio[proc.sent[id].symbol] = 0

BooksInv == WholeLots /\ OneSide /\ SideByBooks /\ BooksAgree

\* The inductive invariant of the paper loops.
PaperInv == PaperTypeOK /\ CycleState /\ SentOrders /\ OrdersTold /\ PositionsTold /\ BooksInv

-----------------------------------------------------------------------------
(* Facts about the operators.                                              *)

LEMMA Constants ==
  /\ Lot \in Nat /\ Lot > 0 /\ MaxOrders \in Nat /\ Lot \in Quantities
  /\ ClientIds \subseteq Nat /\ IsFiniteSet(ClientIds)
<1>1. IsFiniteSet(1 .. MaxOrders) BY MaxOrdersAssumption, FS_Interval
<1> QED BY <1>1, MaxOrdersAssumption, LotAssumption, QuantitiesAssumption DEF ClientIds

\* A set of numbers has a least one.
LEMMA LeastExists ==
  ASSUME NEW S \in SUBSET Nat, S # {}
  PROVE  \E x \in S : \A y \in S : x <= y
<1>1. PICK x \in S : \A y \in S : <<y, x>> \notin OpToRel(<, Nat)
  BY NatLessThanWellFounded, WFMin
<1>2. \A y \in S : ~(y < x) BY <1>1 DEF OpToRel
<1> QED BY <1>2

\* The first order still to be stored is one of them.
LEMMA MinMember ==
  ASSUME NEW S \in SUBSET ClientIds, S # {}
  PROVE  Min(S) \in S
BY LeastExists, Constants DEF Min

\* Shares come in whole lots: one lot is the least there is to hold.
LEMMA LotsOrNone ==
  ASSUME NEW n \in Nat, n * Lot > 0
  PROVE  n * Lot >= Lot /\ n * Lot - Lot = (n - 1) * Lot /\ n - 1 \in Nat
<1>1. n # 0 BY Constants
<1>2. n - 1 \in Nat /\ n * Lot = (n - 1) * Lot + Lot BY <1>1, Constants
<1>3. (n - 1) * Lot \in Nat BY <1>2, Constants
<1> QED BY <1>2, <1>3, Constants

LEMMA NoPartOfALot ==
  ASSUME NEW m \in Nat, NEW n \in Nat, n * Lot <= m * Lot, m * Lot - n * Lot < Lot
  PROVE  m * Lot = n * Lot
<1>1. CASE m > n
  <2>1. m - n \in Nat /\ m - n > 0 BY <1>1
  <2>2. (m - n) * Lot = m * Lot - n * Lot BY Constants
  <2>3. (m - n) * Lot > 0 BY <2>1, Constants
  <2>4. (m - n) * Lot >= Lot BY <2>1, <2>3, LotsOrNone
  <2> QED BY <2>2, <2>4, Constants
<1>2. CASE m <= n
  <2>1. n - m \in Nat BY <1>2
  <2>2. (n - m) * Lot \in Nat BY <2>1, Constants
  <2>3. (n - m) * Lot = n * Lot - m * Lot BY Constants
  <2>4. n * Lot \in Nat /\ m * Lot \in Nat BY Constants
  <2> QED BY <2>2, <2>3, <2>4
<1> QED BY <1>1, <1>2

-----------------------------------------------------------------------------
(* Type correctness.                                                       *)

LEMMA FreshTyped == Fresh \in Process
<1>1. 0 \in 0 .. MaxOrders BY Constants
<1>2. [id \in ClientIds |-> None] \in [ClientIds -> Row \cup {None}] OBVIOUS
<1>3. [s \in Symbols |-> 0] \in [Symbols -> Nat] OBVIOUS
<1> QED BY <1>1, <1>2, <1>3 DEF Fresh, Process

LEMMA InitHolds == PaperInit => PaperInv
<1> SUFFICES ASSUME PaperInit PROVE PaperInv
  OBVIOUS
<1> USE DEF PaperInit, StartupInit, StorageInit
<1>1. PaperTypeOK BY FreshTyped, LivesAssumption DEF PaperTypeOK, Settings
<1>2. CycleState /\ SentOrders BY DEF CycleState, SentOrders, Fresh
<1>3. OrdersTold /\ PositionsTold BY DEF OrdersTold, PositionsTold, Fresh
<1>4. BooksInv
  <2>1. \A s \in Symbols : proc.portfolio[s] = 0 * Lot BY Constants DEF Fresh
  <2>2. \A s \in Symbols, side \in Sides : OpenOf(s, side) = {} BY DEF OpenOf, Fresh
  <2>3. Lot * Cardinality({}) = 0 BY FS_EmptySet, Constants
  <2>4. ASSUME NEW s \in Symbols PROVE proc.portfolio[s] = 0 /\ proc.mock[s] = 0
    BY DEF Fresh
  <2>5. BooksAgree
    <3> SUFFICES ASSUME NEW s \in Symbols
                 PROVE  proc.mock[s] = Less(Bought(s), Lot * Cardinality(OpenOf(s, "Sell")))
      BY DEF BooksAgree
    <3>1. OpenOf(s, "Buy") = {} /\ OpenOf(s, "Sell") = {} BY <2>2 DEF Sides
    <3>2. Lot * Cardinality(OpenOf(s, "Buy")) = 0 /\ Lot * Cardinality(OpenOf(s, "Sell")) = 0
      BY <2>3, <3>1
    <3>3. proc.portfolio[s] = 0 /\ proc.mock[s] = 0 BY <2>4
    <3> QED BY <3>2, <3>3 DEF Less, Bought
  <2> QED BY <2>1, <2>5 DEF BooksInv, WholeLots, OneSide, SideByBooks, Fresh
<1> QED BY <1>1, <1>2, <1>3, <1>4 DEF PaperInv

\* What a strategy may ask for is one lot.
LEMMA IntentIsLot ==
  ASSUME PaperInv, NEW s \in Symbols
  PROVE  (IF proc.portfolio[s] \in 1 .. Lot THEN proc.portfolio[s] ELSE Lot) = Lot
<1>1. PICK n \in Nat : proc.portfolio[s] = n * Lot
  BY DEF PaperInv, BooksInv, WholeLots
<1>2. CASE proc.portfolio[s] \in 1 .. Lot
  <2>1. n * Lot >= Lot BY <1>1, <1>2, LotsOrNone
  <2> QED BY <1>1, <1>2, <2>1, Constants
<1> QED BY <1>2

LEMMA FilledTyped ==
  ASSUME NEW held \in Nat, NEW o \in Row
  PROVE  Filled(held, o) \in Nat
BY QuantitiesAssumption DEF Filled, Row

\* A cycle that ends in an error.
Abandoned ==
  /\ stage = "up" /\ Abort /\ UNCHANGED startVars
  /\ proc.pc \in {"quoting", "creating", "writing", "positions"}
  /\ \/ errors' = errors + 1
     \/ /\ errors' = errors
        /\ proc.toCreate \cup proc.toFill # {}

LEMMA ErrorsAbandon ==
  ASSUME stage = "up", StorageFails \/ ConstraintFails, UNCHANGED startVars
  PROVE  Abandoned
BY DEF Abandoned, StorageFails, ConstraintFails, At

LEMMA TypesKept == PaperInv /\ [PaperNext]_paperVars => PaperTypeOK'
<1> SUFFICES ASSUME PaperInv, [PaperNext]_paperVars PROVE PaperTypeOK'
  OBVIOUS
<1> USE DEF PaperInv, PaperTypeOK
<1>1. CASE UNCHANGED paperVars BY <1>1 DEF Fresh
<1>2. CASE Start /\ UNCHANGED <<proc, storageVars, life, errors>>
  <2>1. stage \in {"loading", "opening", "starting"} /\ stage' # "loading" /\ loop' \in {"none", "sim", "realtime", "demo"}
        /\ stage' \in {"opening", "starting", "up", "exited"}
    BY <1>2 DEF Start, RefuseSettings, AcceptSettings, Migrate, Opened, StartLoop, LoopOf
  <2> QED BY <1>2, <2>1, FreshTyped DEF Fresh
<1>3. CASE Kill
  BY <1>3, FreshTyped DEF Kill, Killed
<1>11. CASE Restart
  <2>1. life' = life + 1 /\ life' \in Nat /\ life' \in Lives /\ stage' = "up"
    BY <1>11 DEF Restart, Restarted
  <2>2. \A f \in fillRows : f.order.life \in 0 .. life' BY <2>1
  <2>3. proc' \in Process BY <1>11 DEF Restart
  <2> QED BY <1>11, <2>1, <2>2, <2>3 DEF Restart, Restarted
<1>4. CASE stage = "up" /\ UNCHANGED startVars /\ (Tick \/ IntervalElapses)
  <2>1. proc' \in Process
    <3>1. ASSUME NEW s \in Symbols, OnQuote(s) PROVE proc' \in Process
      BY <3>1 DEF OnQuote, Process
    <3>2. ASSUME NEW s \in Symbols, SimTick(s) PROVE proc' \in Process
      <4>1. proc.cursor + 1 \in Nat BY DEF Process
      <4> QED BY <3>2, <4>1 DEF SimTick, Process
    <3>3. ASSUME DemoTick PROVE proc' \in Process BY <3>3 DEF DemoTick, Process
    <3>4. ASSUME IntervalElapses PROVE proc' \in Process BY <3>4 DEF IntervalElapses, Process
    <3> QED BY <1>4, <3>1, <3>2, <3>3, <3>4 DEF Tick
  <2>2. UNCHANGED <<storageVars, life, errors>>
    BY <1>4 DEF Tick, OnQuote, SimTick, DemoTick, IntervalElapses, Memory
  <2> QED BY <1>4, <2>1, <2>2
<1>5. CASE stage = "up" /\ UNCHANGED startVars
           /\ (InsertQuotes \/ Decided \/ StoredOrders \/ Synced \/ Written \/ EndCycle)
  <2>1. proc' \in Process
    <3>1. CASE InsertQuotes BY <3>1 DEF InsertQuotes, Process
    <3>2. CASE Decided BY <3>2 DEF Decided, Process
    <3>3. CASE StoredOrders BY <3>3 DEF StoredOrders, Process
    <3>4. CASE Synced BY <3>4 DEF Synced, Process
    <3>5. CASE Written BY <3>5 DEF Written, Process
    <3>6. CASE EndCycle BY <3>6 DEF EndCycle, Process
    <3> QED BY <1>5, <3>1, <3>2, <3>3, <3>4, <3>5, <3>6
  <2>2. UNCHANGED <<storageVars, life, errors>>
    BY <1>5 DEF InsertQuotes, Decided, StoredOrders, Synced, Written, EndCycle, Memory
  <2> QED BY <1>5, <2>1, <2>2
<1>6. ASSUME NEW s \in Symbols, stage = "up" /\ UNCHANGED startVars, Intend(s) \/ RefuseIntent(s)
      PROVE  PaperTypeOK'
  <2> DEFINE o == [life |-> life, symbol |-> s,
                   side |-> IF proc.portfolio[s] = 0 THEN "Buy" ELSE "Sell",
                   qty |-> IF proc.portfolio[s] \in 1 .. Lot THEN proc.portfolio[s] ELSE Lot]
  <2>1. o \in Row BY IntentIsLot, Constants DEF Row, Sides
  <2>2. proc.mock[s] \in Nat BY DEF Process
  <2>3. Filled(proc.mock[s], o) \in Nat BY <2>1, <2>2, FilledTyped
  <2>4. proc.orderSeq + 1 \in ClientIds BY <1>6 DEF Intend, RefuseIntent
  <2>5. proc.orderSeq + 1 \in 0 .. MaxOrders BY <2>4, Constants DEF ClientIds
  <2>6. CASE Intend(s)
    <3> HIDE DEF o
    <3>1. proc' = [proc EXCEPT !.toDecide = @ \ {s}, !.orderSeq = proc.orderSeq + 1,
                               !.sent[proc.orderSeq + 1] = o, !.mock[s] = Filled(@, o),
                               !.open = @ \cup {proc.orderSeq + 1},
                               !.toCreate = @ \cup {proc.orderSeq + 1}]
      BY <2>6 DEF Intend, o
    <3>2. proc' \in Process BY <3>1, <2>1, <2>3, <2>4, <2>5 DEF Process
    <3> QED BY <1>6, <2>6, <3>2 DEF Intend, Memory
  <2>7. CASE RefuseIntent(s)
    <3>1. proc' \in Process BY <2>5, <2>7 DEF RefuseIntent, Process
    <3> QED BY <1>6, <2>7, <3>1 DEF RefuseIntent, Memory
  <2> QED BY <1>6, <2>6, <2>7
<1>7. CASE stage = "up" /\ UNCHANGED startVars /\ StoreOrder
  <2> DEFINE id == Min(proc.toCreate)
  <2>1. id \in proc.toCreate /\ id \in ClientIds BY <1>7, MinMember DEF StoreOrder, Process
  <2>2. proc.sent[id] \in Row BY <2>1 DEF CycleState, SentOrders, Process
  <2> HIDE DEF id
  <2>3. proc' = [proc EXCEPT !.toCreate = @ \ {id}] BY <1>7 DEF StoreOrder, id
  <2>4. proc' \in Process BY <2>3 DEF Process
  <2>5. [order |-> proc.sent[id], status |-> "Pending"] \in OrderRow
    BY <2>2 DEF OrderRow, Statuses
  <2>6. orderRows' = [orderRows EXCEPT ![id] = [order |-> proc.sent[id], status |-> "Pending"]]
    BY <1>7 DEF StoreOrder, CreateOrder, id
  <2>7. orderRows' \in [ClientIds -> OrderRow \cup {None}] BY <2>5, <2>6
  <2> QED BY <1>7, <2>4, <2>7 DEF StoreOrder, CreateOrder, Stored
<1>8. ASSUME NEW id \in ClientIds, stage = "up" /\ UNCHANGED startVars,
             SyncExecution(id) \/ WriteStatus(id) \/ WriteFill(id)
      PROVE  PaperTypeOK'
  <2>1. CASE SyncExecution(id)
    <3>1. proc.sent[id] \in Row BY <2>1 DEF SyncExecution, SentOrders, Process
    <3>2. proc.portfolio[proc.sent[id].symbol] \in Nat BY <3>1 DEF Process, Row
    <3>3. Filled(proc.portfolio[proc.sent[id].symbol], proc.sent[id]) \in Nat
      BY <3>1, <3>2, FilledTyped
    <3>4. proc' \in Process BY <2>1, <3>1, <3>3 DEF SyncExecution, Process
    <3> QED BY <1>8, <2>1, <3>4 DEF SyncExecution, Memory
  <2>2. CASE WriteStatus(id)
    <3>1. proc' \in Process BY <2>2 DEF WriteStatus, Process
    <3>2. orderRows' \in [ClientIds -> OrderRow \cup {None}]
      BY <2>2 DEF WriteStatus, UpdateOrderStatus, OrderRow, Statuses
    <3> QED BY <1>8, <2>2, <3>1, <3>2 DEF WriteStatus, UpdateOrderStatus, Stored
  <2>3. CASE WriteFill(id)
    <3>1. proc' \in Process BY <2>3 DEF WriteFill, Process
    <3>2. proc.sent[id] \in Row /\ proc.sent[id].life = life
      BY <2>3 DEF WriteFill, SentOrders, Process
    <3>3. [client |-> id, order |-> proc.sent[id]] \in FillRow BY <3>2 DEF FillRow
    <3> QED BY <1>8, <2>3, <3>1, <3>2, <3>3 DEF WriteFill, RecordFill, Stored
  <2> QED BY <1>8, <2>1, <2>2, <2>3
<1>9. ASSUME NEW s \in Symbols, stage = "up" /\ UNCHANGED startVars, WritePosition(s)
      PROVE  PaperTypeOK'
  <2>1. proc' \in Process BY <1>9 DEF WritePosition, Process
  <2>2. proc.portfolio[s] \in Nat BY DEF Process
  <2> QED BY <1>9, <2>1, <2>2 DEF WritePosition, UpsertPosition, Stored
<1>10. CASE Abandoned
  <2>1. proc' \in Process BY <1>10 DEF Abandoned, Abort, Process
  <2> QED BY <1>10, <2>1 DEF Abandoned, Abort
<1> QED
  BY <1>1, <1>2, <1>3, <1>11, <1>4, <1>5, <1>6, <1>7, <1>8, <1>9, <1>10, ErrorsAbandon
  DEF PaperNext, LoopStep, IntervalStep, Cycle

-----------------------------------------------------------------------------
(* What the steps do to the orders and the books.                          *)

\* The steps that move the cycle along and touch no order.
Moves ==
  {<<"idle", "quoting">>, <<"quoting", "deciding">>, <<"deciding", "creating">>,
   <<"creating", "syncing">>, <<"syncing", "writing">>, <<"writing", "positions">>,
   <<"positions", "idle">>}

Moved ==
  /\ stage = "up" /\ stage' = "up" /\ UNCHANGED <<storageVars, life, errors>>
  /\ proc'.sent = proc.sent /\ proc'.open = proc.open
  /\ proc'.mock = proc.mock /\ proc'.portfolio = proc.portfolio
  /\ proc'.toCreate = proc.toCreate /\ proc'.settled = proc.settled
  /\ proc'.toFill = proc.toFill /\ proc'.lost = proc.lost
  /\ proc'.orderSeq \in {proc.orderSeq, proc.orderSeq + 1}
  /\ \/ proc'.pc = proc.pc /\ proc'.toWrite = proc.toWrite
     \/ /\ <<proc.pc, proc'.pc>> \in Moves
        /\ proc.pc = "creating" => proc.toCreate = {}
        /\ proc.pc = "syncing" => proc.open = {}
        /\ proc.pc = "writing" => proc.settled = {} /\ proc.toFill = {}
        /\ proc.pc = "positions" => proc.toWrite = {}
        /\ proc'.toWrite = IF proc.pc = "writing" THEN {s \in Symbols : proc.portfolio[s] > 0}
                           ELSE proc.toWrite

\* An order of one lot, on the side the portfolio asks for.
Ordered(s) ==
  \E id \in ClientIds, o \in Row :
    /\ stage = "up" /\ stage' = "up" /\ UNCHANGED <<storageVars, life, errors>>
    /\ id = proc.orderSeq + 1 /\ proc'.orderSeq = id
    /\ o.life = life /\ o.symbol = s /\ o.qty = Lot
    /\ o.side = IF proc.portfolio[s] = 0 THEN "Buy" ELSE "Sell"
    /\ proc.pc = "deciding" /\ proc'.pc = "deciding"
    /\ proc'.sent = [proc.sent EXCEPT ![id] = o]
    /\ proc'.mock = [proc.mock EXCEPT ![s] = Filled(@, o)]
    /\ proc'.open = proc.open \cup {id} /\ proc'.toCreate = proc.toCreate \cup {id}
    /\ proc'.portfolio = proc.portfolio /\ proc'.settled = proc.settled
    /\ proc'.toFill = proc.toFill /\ proc'.toWrite = proc.toWrite /\ proc'.lost = proc.lost

\* The process starts, stops or does nothing.
Outside ==
  /\ UNCHANGED storageVars /\ UNCHANGED errors
  /\ \/ proc' = proc /\ life' = life /\ (stage' = stage \/ (fillRows = {} /\ proc = Fresh))
     \/ proc' = Fresh /\ life' = life /\ stage' = "down"
     \/ proc' = proc /\ proc = Fresh /\ life' = life + 1

LEMMA MovedSteps ==
  ASSUME PaperInv, stage = "up", UNCHANGED startVars,
         Tick \/ IntervalElapses \/ InsertQuotes \/ Decided \/ StoredOrders
           \/ Synced \/ Written \/ EndCycle \/ \E s \in Symbols : RefuseIntent(s)
  PROVE  Moved
<1> USE DEF Memory, At, Moves, Moved, PaperInv, PaperTypeOK, Process
<1>1. ASSUME NEW s \in Symbols, OnQuote(s) PROVE Moved BY <1>1 DEF OnQuote
<1>2. ASSUME NEW s \in Symbols, SimTick(s) PROVE Moved BY <1>2 DEF SimTick
<1>3. CASE DemoTick BY <1>3 DEF DemoTick
<1>4. CASE IntervalElapses BY <1>4 DEF IntervalElapses
<1>5. CASE InsertQuotes BY <1>5 DEF InsertQuotes
<1>6. CASE Decided BY <1>6 DEF Decided
<1>7. CASE StoredOrders BY <1>7 DEF StoredOrders
<1>8. CASE Synced BY <1>8 DEF Synced
<1>9. CASE Written BY <1>9 DEF Written
<1>10. CASE EndCycle BY <1>10 DEF EndCycle
<1>11. ASSUME NEW s \in Symbols, RefuseIntent(s) PROVE Moved BY <1>11 DEF RefuseIntent
<1> QED BY <1>1, <1>2, <1>3, <1>4, <1>5, <1>6, <1>7, <1>8, <1>9, <1>10, <1>11 DEF Tick

LEMMA IntendOrders ==
  ASSUME PaperInv, NEW s \in Symbols, stage = "up", UNCHANGED startVars, Intend(s)
  PROVE  Ordered(s)
<1> DEFINE id == proc.orderSeq + 1
           o == [life |-> life, symbol |-> s,
                 side |-> IF proc.portfolio[s] = 0 THEN "Buy" ELSE "Sell", qty |-> Lot]
<1>1. o \in Row BY Constants DEF Row, Sides, PaperInv, PaperTypeOK
<1>2. id \in ClientIds BY DEF Intend
<1>3. o.life = life /\ o.symbol = s /\ o.qty = Lot
      /\ o.side = IF proc.portfolio[s] = 0 THEN "Buy" ELSE "Sell"
  OBVIOUS
<1>4. proc.pc = "deciding" /\ UNCHANGED <<storageVars, life, errors>> BY DEF Intend, At, Memory
<1>5. proc' = [proc EXCEPT !.toDecide = @ \ {s}, !.orderSeq = id, !.sent[id] = o,
                           !.mock[s] = Filled(@, o), !.open = @ \cup {id},
                           !.toCreate = @ \cup {id}]
  BY IntentIsLot DEF Intend
<1> HIDE DEF o, id
<1>6. /\ proc'.orderSeq = id /\ proc'.pc = "deciding"
      /\ proc'.sent = [proc.sent EXCEPT ![id] = o]
      /\ proc'.mock = [proc.mock EXCEPT ![s] = Filled(@, o)]
      /\ proc'.open = proc.open \cup {id} /\ proc'.toCreate = proc.toCreate \cup {id}
      /\ proc'.portfolio = proc.portfolio /\ proc'.settled = proc.settled
      /\ proc'.toFill = proc.toFill /\ proc'.toWrite = proc.toWrite /\ proc'.lost = proc.lost
  BY <1>4, <1>5 DEF PaperInv, PaperTypeOK, Process
<1>7. id = proc.orderSeq + 1 BY DEF id
<1> QED BY <1>1, <1>2, <1>3, <1>4, <1>6, <1>7 DEF Ordered

LEMMA OutsideSteps ==
  ASSUME PaperInv,
         \/ UNCHANGED paperVars
         \/ Start /\ UNCHANGED <<proc, storageVars, life, errors>>
         \/ Kill \/ Restart
  PROVE  Outside
<1> USE DEF PaperInv, PaperTypeOK
<1>1. CASE UNCHANGED paperVars BY <1>1 DEF Outside
<1>2. CASE Start /\ UNCHANGED <<proc, storageVars, life, errors>>
  <2>1. stage \in {"loading", "opening", "starting"}
    BY <1>2 DEF Start, RefuseSettings, AcceptSettings, Migrate, Opened, StartLoop
  <2> QED BY <1>2, <2>1 DEF Outside
<1>3. CASE Kill BY <1>3 DEF Kill, Killed, Outside
<1>4. CASE Restart BY <1>4 DEF Restart, Restarted, Outside
<1> QED BY <1>1, <1>2, <1>3, <1>4

\* Every step is one of these.
LEMMA Steps ==
  ASSUME PaperInv, [PaperNext]_paperVars
  PROVE  \/ Outside \/ Abandoned \/ Moved
         \/ /\ stage = "up" /\ UNCHANGED startVars
            /\ \/ \E s \in Symbols : (Intend(s) /\ Ordered(s)) \/ WritePosition(s)
               \/ StoreOrder
               \/ \E id \in ClientIds : SyncExecution(id) \/ WriteStatus(id) \/ WriteFill(id)
<1>1. CASE \/ UNCHANGED paperVars
           \/ Start /\ UNCHANGED <<proc, storageVars, life, errors>>
           \/ Kill \/ Restart
  BY <1>1, OutsideSteps
<1>2. CASE IntervalStep BY <1>2, MovedSteps DEF IntervalStep
<1>3. CASE LoopStep
  BY <1>3, MovedSteps, IntendOrders, ErrorsAbandon DEF LoopStep, Cycle
<1> QED BY <1>1, <1>2, <1>3 DEF PaperNext

-----------------------------------------------------------------------------
(* The cycle and its orders.                                               *)

LEMMA CycleKept == PaperInv /\ [PaperNext]_paperVars => CycleState'
<1> SUFFICES ASSUME PaperInv, [PaperNext]_paperVars PROVE CycleState'
  OBVIOUS
<1> USE DEF PaperInv, PaperTypeOK, CycleState, Process
<1>1. CASE Outside BY <1>1 DEF Outside, Fresh
<1>2. CASE Abandoned BY <1>2 DEF Abandoned, Abort
<1>3. CASE Moved BY <1>3 DEF Moved, Moves
<1>4. ASSUME NEW s \in Symbols, Ordered(s) PROVE CycleState'
  BY <1>4 DEF Ordered
<1>5. ASSUME NEW s \in Symbols, WritePosition(s) PROVE CycleState'
  BY <1>5 DEF WritePosition, At
<1>6. CASE StoreOrder BY <1>6 DEF StoreOrder, At
<1>7. ASSUME NEW id \in ClientIds, SyncExecution(id) PROVE CycleState'
  BY <1>7 DEF SyncExecution, At
<1>8. ASSUME NEW id \in ClientIds, WriteStatus(id) PROVE CycleState'
  BY <1>8 DEF WriteStatus, At
<1>9. ASSUME NEW id \in ClientIds, WriteFill(id) PROVE CycleState'
  BY <1>9 DEF WriteFill, At
<1> QED BY <1>1, <1>2, <1>3, <1>4, <1>5, <1>6, <1>7, <1>8, <1>9, Steps

LEMMA SentKept == PaperInv /\ [PaperNext]_paperVars => SentOrders'
<1> SUFFICES ASSUME PaperInv, [PaperNext]_paperVars PROVE SentOrders'
  OBVIOUS
<1> USE DEF PaperInv, PaperTypeOK, SentOrders, Process
<1>1. CASE Outside BY <1>1 DEF Outside, Fresh
<1>2. CASE Abandoned BY <1>2 DEF Abandoned, Abort
<1>3. CASE Moved BY <1>3, Constants DEF Moved
<1>4. ASSUME NEW s \in Symbols, Ordered(s) PROVE SentOrders'
  <2>1. PICK id \in ClientIds, o \in Row :
          /\ UNCHANGED life /\ id = proc.orderSeq + 1 /\ proc'.orderSeq = id
          /\ o.life = life /\ o.qty = Lot
          /\ proc'.sent = [proc.sent EXCEPT ![id] = o]
          /\ proc'.open = proc.open \cup {id}
          /\ proc'.settled = proc.settled /\ proc'.toFill = proc.toFill
    BY ONLY <1>4 DEF Ordered
  <2>2. proc'.sent[id] = o /\ o # None
        /\ \A j \in ClientIds \ {id} : proc'.sent[j] = proc.sent[j]
    BY <2>1, NoRowAssumption
  <2>3. \A j \in ClientIds : j > proc'.orderSeq => j # id /\ j > proc.orderSeq
    BY <2>1, Constants
  <2>4. \A j \in ClientIds : j > proc'.orderSeq => proc'.sent[j] = None
    BY <2>2, <2>3
  <2>5. \A j \in ClientIds : proc'.sent[j] # None =>
          proc'.sent[j].life = life' /\ proc'.sent[j].qty = Lot
    BY <2>1, <2>2
  <2>6. \A j \in proc'.open \cup proc'.settled \cup proc'.toFill : proc'.sent[j] # None
    BY <2>1, <2>2
  <2> QED BY <2>4, <2>5, <2>6
<1>5. ASSUME NEW s \in Symbols, WritePosition(s) PROVE SentOrders'
  BY <1>5 DEF WritePosition, Stored
<1>6. CASE StoreOrder BY <1>6 DEF StoreOrder, Stored
<1>7. ASSUME NEW id \in ClientIds, SyncExecution(id) PROVE SentOrders'
  BY <1>7 DEF SyncExecution, Memory
<1>8. ASSUME NEW id \in ClientIds, WriteStatus(id) PROVE SentOrders'
  BY <1>8 DEF WriteStatus, Stored
<1>9. ASSUME NEW id \in ClientIds, WriteFill(id) PROVE SentOrders'
  BY <1>9 DEF WriteFill, Stored
<1> QED BY <1>1, <1>2, <1>3, <1>4, <1>5, <1>6, <1>7, <1>8, <1>9, Steps

-----------------------------------------------------------------------------
(* The rows of the orders, and the positions.                              *)

\* A step that leaves the order and its rows alone.
LEMMA RowUntouched ==
  ASSUME NEW id \in ClientIds, RowOf(id), life' = life,
         proc'.sent[id] = proc.sent[id], orderRows'[id] = orderRows[id],
         FillsOf(id)' = FillsOf(id),
         id \in proc'.toCreate <=> id \in proc.toCreate,
         id \in proc'.open \cup proc'.settled <=> id \in proc.open \cup proc.settled,
         id \in proc'.toFill <=> id \in proc.toFill
  PROVE  RowOf(id)'
BY DEF RowOf, WholeFill

LEMMA OrdersToldKept == PaperInv /\ [PaperNext]_paperVars => OrdersTold'
<1> SUFFICES ASSUME PaperInv, [PaperNext]_paperVars, stage' = "up",
                    NEW id \in ClientIds, id \notin proc'.lost
             PROVE  RowOf(id)'
  BY DEF OrdersTold
<1>a. /\ proc \in Process /\ life \in Nat /\ fillRows \subseteq FillRow
      /\ CycleState /\ SentOrders /\ orderRows \in [ClientIds -> OrderRow \cup {None}]
      /\ \A f \in fillRows : f.order.life \in 0 .. life
  BY DEF PaperInv, PaperTypeOK
<1>b. stage = "up" /\ id \notin proc.lost => RowOf(id) BY DEF PaperInv, OrdersTold
<1>1. CASE Outside
  <2>1. CASE proc' = proc /\ life' = life /\ stage' = stage
    BY <1>1, <1>b, <2>1, RowUntouched DEF Outside, FillsOf
  <2>2. CASE proc = Fresh /\ proc' = proc
             /\ (fillRows = {} \/ life' = life + 1) /\ UNCHANGED storageVars
    <3>1. proc'.sent[id] = None BY <2>2 DEF Fresh
    <3>2. \A f \in fillRows' : f.order.life # life' BY <1>a, <2>2
    <3> QED BY <3>1, <3>2 DEF RowOf, FillsOf
  <2> QED BY <1>1, <2>1, <2>2 DEF Outside
<1>2. CASE Abandoned
  <2>1. /\ stage = "up" /\ UNCHANGED storageVars /\ life' = life
        /\ proc'.sent = proc.sent /\ proc'.open = proc.open
        /\ proc'.toCreate = {} /\ proc'.settled = {} /\ proc'.toFill = {}
        /\ proc'.lost = proc.lost \cup proc.toCreate \cup proc.settled \cup proc.toFill
    BY <1>2, <1>a DEF Abandoned, Abort, Process
  <2> QED BY <1>b, <2>1, RowUntouched DEF FillsOf
<1>3. CASE Moved BY <1>3, <1>b, RowUntouched DEF Moved, FillsOf
<1>4. ASSUME NEW s \in Symbols, Ordered(s) PROVE RowOf(id)'
  <2>1. PICK i \in ClientIds, o \in Row :
          /\ stage = "up" /\ UNCHANGED <<storageVars, life>> /\ i = proc.orderSeq + 1
          /\ proc'.sent = [proc.sent EXCEPT ![i] = o]
          /\ proc'.open = proc.open \cup {i} /\ proc'.toCreate = proc.toCreate \cup {i}
          /\ proc'.settled = proc.settled /\ proc'.toFill = proc.toFill
          /\ proc'.lost = proc.lost
    BY ONLY <1>4 DEF Ordered, storageVars
  <2>2. RowOf(id) BY <1>b, <2>1
  <2>3. CASE id = i
    <3>1. proc.sent[i] = None BY <1>a, <2>1, Constants DEF SentOrders, Process
    <3>2. FillsOf(i) = {} BY <2>2, <2>3, <3>1 DEF RowOf
    <3>3. FillsOf(i)' = {} BY <2>1, <3>2 DEF FillsOf
    <3> QED BY <2>1, <2>3, <3>3 DEF RowOf
  <2>4. CASE id # i
    <3>1. proc'.sent[id] = proc.sent[id] BY <1>a, <2>1, <2>4 DEF Process
    <3> QED BY <2>1, <2>2, <2>4, <3>1, RowUntouched DEF FillsOf
  <2> QED BY <2>3, <2>4
<1>5. ASSUME NEW s \in Symbols, WritePosition(s), stage = "up" PROVE RowOf(id)'
  <2>1. /\ UNCHANGED <<orderRows, fillRows, life>> /\ proc'.sent = proc.sent
        /\ proc'.open = proc.open /\ proc'.toCreate = proc.toCreate
        /\ proc'.settled = proc.settled /\ proc'.toFill = proc.toFill
        /\ proc'.lost = proc.lost
    BY <1>a, <1>5 DEF WritePosition, UpsertPosition, Stored, Process
  <2> QED BY <1>b, <1>5, <2>1, RowUntouched DEF FillsOf
<1>6. ASSUME StoreOrder, stage = "up" PROVE RowOf(id)'
  <2>0. Min(proc.toCreate) \in proc.toCreate BY <1>a, <1>6, MinMember DEF StoreOrder, Process
  <2>1. PICK i \in ClientIds : i \in proc.toCreate /\ i = Min(proc.toCreate)
    BY <1>a, <2>0 DEF Process
  <2>2. /\ UNCHANGED <<fillRows, life>> /\ proc'.sent = proc.sent
        /\ orderRows' = [orderRows EXCEPT ![i] = [order |-> proc.sent[i], status |-> "Pending"]]
        /\ proc'.open = proc.open /\ proc'.toCreate = proc.toCreate \ {i}
        /\ proc'.settled = proc.settled /\ proc'.toFill = proc.toFill
        /\ proc'.lost = proc.lost
    BY <1>a, <1>6, <2>1 DEF StoreOrder, CreateOrder, Stored, Process
  <2>3. RowOf(id) BY <1>b, <1>6, <2>2
  <2>4. CASE id = i
    <3>1. i \in proc'.open /\ proc.sent[i] # None /\ proc.sent[i] \in Row
      BY <1>a, <2>1, <2>2 DEF CycleState, SentOrders, Process
    <3> DEFINE r == [order |-> proc.sent[i], status |-> "Pending"]
    <3>2. r \in OrderRow /\ r.order = proc.sent[i] BY <3>1 DEF OrderRow, Statuses
    <3> HIDE DEF r
    <3>3. orderRows' = [orderRows EXCEPT ![i] = r] BY <2>2 DEF r
    <3>4. orderRows'[i] = r BY <1>a, <2>1, <3>3
    <3>5. orderRows'[i] # None /\ orderRows'[i].order = proc.sent[i]
      BY <3>2, <3>4, NoRowAssumption
    <3>6. FillsOf(i)' = FillsOf(i) BY <2>2 DEF FillsOf
    <3>7. FillsOf(i) = {} BY <2>2, <2>3, <2>4, <3>1 DEF RowOf
    <3> QED BY <2>2, <2>4, <3>1, <3>5, <3>6, <3>7 DEF RowOf
  <2>5. CASE id # i BY <1>a, <2>1, <2>2, <2>3, <2>5, RowUntouched DEF FillsOf
  <2> QED BY <2>4, <2>5
<1>7. ASSUME NEW i \in ClientIds, SyncExecution(i), stage = "up" PROVE RowOf(id)'
  <2>1. /\ UNCHANGED <<orderRows, fillRows, life>> /\ proc'.sent = proc.sent
        /\ i \in proc.open /\ proc'.open = proc.open \ {i}
        /\ proc'.settled = proc.settled \cup {i}
        /\ proc'.toCreate = proc.toCreate /\ proc'.toFill = proc.toFill
        /\ proc'.lost = proc.lost
    BY <1>a, <1>7 DEF SyncExecution, Memory, Process
  <2> QED BY <1>b, <1>7, <2>1, RowUntouched DEF FillsOf
<1>8. ASSUME NEW i \in ClientIds, WriteStatus(i), stage = "up" PROVE RowOf(id)'
  <2>1. /\ UNCHANGED <<fillRows, life>> /\ proc'.sent = proc.sent
        /\ i \in proc.settled /\ proc.toFill = {} /\ proc'.open = proc.open
        /\ proc'.settled = proc.settled \ {i} /\ proc'.toFill = {i}
        /\ proc'.toCreate = proc.toCreate /\ proc'.lost = proc.lost
        /\ orderRows' = IF orderRows[i] = None THEN orderRows
                        ELSE [orderRows EXCEPT ![i].status = "Filled"]
    BY <1>a, <1>8 DEF WriteStatus, UpdateOrderStatus, Stored, Process
  <2>2. RowOf(id) BY <1>b, <1>8, <2>1
  <2>3. FillsOf(id)' = FillsOf(id) BY <2>1 DEF FillsOf
  <2>4. CASE id = i
    <3>1. proc.sent[i] # None /\ i \notin proc.toCreate /\ i \notin proc.open
      BY <1>a, <1>8, <2>1 DEF SentOrders, CycleState, WriteStatus, At
    <3>2. orderRows[i] # None /\ orderRows[i].order = proc.sent[i]
      BY <2>2, <2>4, <3>1 DEF RowOf
    <3>3. orderRows[i] \in OrderRow BY <1>a, <3>2
    <3>4. orderRows'[i] = [orderRows[i] EXCEPT !.status = "Filled"] BY <1>a, <2>1, <3>2
    <3>5. orderRows'[i] \in OrderRow /\ orderRows'[i].status = "Filled"
          /\ orderRows'[i].order = proc.sent[i]
      BY <3>2, <3>3, <3>4 DEF OrderRow, Statuses
    <3>6. orderRows'[i] # None BY <3>5, NoRowAssumption
    <3>7. FillsOf(i) = {} BY <2>1, <2>2, <2>4 DEF RowOf
    <3> QED BY <2>1, <2>3, <2>4, <3>5, <3>6, <3>7 DEF RowOf
  <2>5. CASE id # i
    <3>1. orderRows'[id] = orderRows[id] BY <1>a, <2>1, <2>5
    <3> QED BY <2>1, <2>2, <2>3, <2>5, <3>1, RowUntouched
  <2> QED BY <2>4, <2>5
<1>9. ASSUME NEW i \in ClientIds, WriteFill(i), stage = "up" PROVE RowOf(id)'
  <2>1. /\ UNCHANGED <<orderRows, life>> /\ proc'.sent = proc.sent
        /\ i \in proc.toFill /\ proc'.toFill = {} /\ proc'.open = proc.open
        /\ proc'.settled = proc.settled /\ proc'.toCreate = proc.toCreate
        /\ proc'.lost = proc.lost /\ fillRows' = fillRows \cup {WholeFill(i)}
    BY <1>a, <1>9 DEF WriteFill, RecordFill, Stored, Process, WholeFill
  <2>2. RowOf(id) BY <1>b, <1>9, <2>1
  <2>3. proc.toFill = {i} BY <1>a, <2>1 DEF CycleState
  <2>4. proc.sent[i] # None /\ proc.sent[i].life = life /\ i \notin proc.open \cup proc.settled
        /\ i \notin proc.toCreate
    BY <1>a, <1>9, <2>1 DEF SentOrders, CycleState, WriteFill, At
  <2>5. CASE id = i
    <3>1. FillsOf(i) = {} BY <2>1, <2>2, <2>5 DEF RowOf
    <3>2. FillsOf(i)' = {WholeFill(i)} BY <2>1, <2>4, <3>1 DEF FillsOf, WholeFill
    <3>3. WholeFill(i)' = WholeFill(i) BY <2>1 DEF WholeFill
    <3> QED BY <2>1, <2>2, <2>4, <2>5, <3>2, <3>3 DEF RowOf
  <2>6. CASE id # i
    <3>1. FillsOf(id)' = FillsOf(id) BY <2>1, <2>6 DEF FillsOf, WholeFill
    <3> QED BY <2>1, <2>2, <2>3, <2>6, <3>1, RowUntouched
  <2> QED BY <2>5, <2>6
<1> QED BY <1>1, <1>2, <1>3, <1>4, <1>5, <1>6, <1>7, <1>8, <1>9, Steps

LEMMA PositionsToldKept == PaperInv /\ [PaperNext]_paperVars => PositionsTold'
<1> SUFFICES ASSUME PaperInv, [PaperNext]_paperVars PROVE PositionsTold'
  OBVIOUS
<1> USE DEF PositionsTold
<1>a. /\ proc \in Process /\ CycleState /\ PositionsTold /\ errors \in Nat
      /\ positionRows \in [Symbols -> Nat \cup {None}]
  BY DEF PaperInv, PaperTypeOK
<1>1. CASE Outside BY <1>1, <1>a DEF Outside, Fresh
<1>2. CASE Abandoned
  <2>1. CASE errors' = errors + 1 BY <1>a, <2>1
  <2>2. CASE proc.toCreate \cup proc.toFill # {} BY <1>2, <1>a, <2>2 DEF Abandoned, Abort, Process
  <2> QED BY <1>2, <2>1, <2>2 DEF Abandoned
<1>3. CASE Moved
  <2>1. CASE proc'.pc = "positions" /\ proc.pc = "writing"
    <3>1. \A s \in Symbols \ proc'.toWrite : proc'.portfolio[s] = 0
      BY <1>3, <1>a, <2>1 DEF Moved, Process
    <3> QED BY <2>1, <3>1
  <2>2. CASE ~(proc'.pc = "positions" /\ proc.pc = "writing")
    BY <1>3, <1>a, <2>2 DEF Moved, Moves
  <2> QED BY <2>1, <2>2
<1>4. ASSUME NEW s \in Symbols, Ordered(s) PROVE PositionsTold'
  <2>1. /\ UNCHANGED <<storageVars, errors>> /\ proc.pc = "deciding" /\ proc'.pc = "deciding"
        /\ proc'.portfolio = proc.portfolio /\ proc'.lost = proc.lost
    BY ONLY <1>4 DEF Ordered, storageVars
  <2> QED BY <1>a, <2>1
<1>5. ASSUME NEW s \in Symbols, WritePosition(s) PROVE PositionsTold'
  <2>1. /\ proc.pc = "positions" /\ proc'.pc = "positions" /\ UNCHANGED errors
        /\ proc'.portfolio = proc.portfolio /\ proc'.lost = proc.lost
        /\ proc'.toWrite = proc.toWrite \ {s}
        /\ positionRows' = [positionRows EXCEPT ![s] = proc.portfolio[s]]
    BY <1>a, <1>5 DEF WritePosition, UpsertPosition, Stored, At, Process
  <2> QED BY <1>a, <2>1
<1>6. CASE StoreOrder BY <1>6, <1>a DEF StoreOrder, CreateOrder, Stored, At, Process
<1>7. ASSUME NEW id \in ClientIds, SyncExecution(id) PROVE PositionsTold'
  <2>1. proc'.pc = "syncing" BY <1>7, <1>a DEF SyncExecution, At, Process
  <2> QED BY <2>1
<1>8. ASSUME NEW id \in ClientIds, WriteStatus(id) \/ WriteFill(id) PROVE PositionsTold'
  <2>1. proc'.pc = "writing" BY <1>8, <1>a DEF WriteStatus, WriteFill, At, Process
  <2> QED BY <2>1
<1> QED BY <1>1, <1>2, <1>3, <1>4, <1>5, <1>6, <1>7, <1>8, Steps

-----------------------------------------------------------------------------
(* The books.                                                              *)

LEMMA OpenCounted ==
  ASSUME PaperInv, NEW s \in Symbols, NEW side \in Sides
  PROVE  /\ IsFiniteSet(OpenOf(s, side)) /\ Cardinality(OpenOf(s, side)) \in Nat
         /\ OpenOf(s, side) = {} <=> Cardinality(OpenOf(s, side)) = 0
<1>1. OpenOf(s, side) \subseteq ClientIds
  BY DEF OpenOf, PaperInv, PaperTypeOK, Process
<1> QED BY <1>1, Constants, FS_Subset, FS_CardinalityType, FS_EmptySet

\* A step that leaves the orders and both books alone.
LEMMA BooksUntouched ==
  ASSUME BooksInv, proc'.sent = proc.sent, proc'.open = proc.open,
         proc'.mock = proc.mock, proc'.portfolio = proc.portfolio,
         proc'.pc # "syncing" => proc.pc # "syncing" \/ proc.open = {}
  PROVE  BooksInv'
<1> USE DEF BooksInv
<1>1. WholeLots' BY DEF WholeLots
<1>2. OneSide' BY DEF OneSide
<1>3. SideByBooks' BY DEF SideByBooks
<1>4. \A s, side : OpenOf(s, side)' = OpenOf(s, side) BY DEF OpenOf
<1>5. BooksAgree' BY <1>4 DEF BooksAgree, Bought, Less
<1> QED BY <1>1, <1>2, <1>3, <1>5

LEMMA FreshBooks ==
  ASSUME proc' = Fresh
  PROVE  BooksInv'
<1>1. \A s \in Symbols : proc'.portfolio[s] = 0 /\ proc'.mock[s] = 0 BY DEF Fresh
<1>2. proc'.open = {} BY DEF Fresh
<1>3. WholeLots'
  <2>1. 0 * Lot = 0 BY Constants
  <2> QED BY <1>1, <2>1 DEF WholeLots
<1>4. \A s, side : OpenOf(s, side)' = {} BY <1>2 DEF OpenOf
<1>5. Lot * Cardinality({}) = 0 BY FS_EmptySet, Constants
<1>6. BooksAgree'
  <2> SUFFICES ASSUME NEW s \in Symbols
               PROVE  (proc.mock[s] = Less(Bought(s), Lot * Cardinality(OpenOf(s, "Sell"))))'
    BY DEF BooksAgree
  <2>1. Cardinality(OpenOf(s, "Buy"))' = Cardinality({})
        /\ Cardinality(OpenOf(s, "Sell"))' = Cardinality({})
    BY <1>4
  <2>2. Bought(s)' = 0 BY <1>1, <1>5, <2>1 DEF Bought
  <2> QED BY <1>1, <1>5, <2>1, <2>2 DEF Less
<1> QED BY <1>2, <1>3, <1>6 DEF BooksInv, OneSide, SideByBooks

\* A sale on top of the open ones, if the broker holds a lot.
LEMMA SoldOnce ==
  ASSUME NEW n \in Nat, NEW k \in Nat, NEW m, m = Less(n * Lot, Lot * k)
  PROVE  (IF m >= Lot THEN m - Lot ELSE m) = Less(n * Lot, Lot * (k + 1))
<1>1. n * Lot \in Nat /\ k * Lot \in Nat /\ Lot * k = k * Lot
      /\ Lot * (k + 1) = k * Lot + Lot
  BY Constants
<1>2. CASE k * Lot <= n * Lot /\ n * Lot - k * Lot < Lot
  <2>1. n * Lot = k * Lot BY <1>2, NoPartOfALot
  <2> HIDE DEF Less
  <2>2. m = 0 BY <1>1, <2>1 DEF Less
  <2>3. Less(n * Lot, Lot * (k + 1)) = 0 BY <1>1, <1>2, Constants DEF Less
  <2> QED BY <2>2, <2>3, Constants
<1>3. CASE k * Lot <= n * Lot /\ n * Lot - k * Lot >= Lot
  <2>1. m = n * Lot - k * Lot BY <1>1, <1>3 DEF Less
  <2>2. Less(n * Lot, Lot * (k + 1)) = n * Lot - k * Lot - Lot
    BY <1>1, <1>3, Constants DEF Less
  <2> QED BY <1>1, <1>3, <2>1, <2>2, Constants
<1>4. CASE k * Lot > n * Lot
  <2>1. m = 0 BY <1>1, <1>4 DEF Less
  <2>2. Less(n * Lot, Lot * (k + 1)) = 0 BY <1>1, <1>4, Constants DEF Less
  <2> QED BY <2>1, <2>2, Constants
<1> QED BY <1>1, <1>2, <1>3, <1>4, Constants

LEMMA OrderedBooks ==
  ASSUME PaperInv, NEW s \in Symbols, Ordered(s)
  PROVE  BooksInv'
<1>1. PICK id \in ClientIds, o \in Row :
        /\ id = proc.orderSeq + 1 /\ o.symbol = s /\ o.qty = Lot
        /\ o.side = IF proc.portfolio[s] = 0 THEN "Buy" ELSE "Sell"
        /\ proc.pc = "deciding" /\ proc'.sent = [proc.sent EXCEPT ![id] = o]
        /\ proc'.mock = [proc.mock EXCEPT ![s] = Filled(@, o)]
        /\ proc'.open = proc.open \cup {id} /\ proc'.portfolio = proc.portfolio
  BY ONLY Ordered(s) DEF Ordered
<1>a. proc \in Process /\ SentOrders /\ BooksInv BY DEF PaperInv, PaperTypeOK
<1>2. proc.sent[id] = None BY <1>1, <1>a, Constants DEF SentOrders, Process
<1>3. id \notin proc.open BY <1>2, <1>a DEF SentOrders
<1>4. proc'.sent[id] = o /\ \A j \in ClientIds \ {id} : proc'.sent[j] = proc.sent[j]
  BY <1>1, <1>a DEF Process
<1>5. \A j \in proc.open : proc'.sent[j] = proc.sent[j] /\ proc.sent[j] \in Row
  BY <1>3, <1>4, <1>a DEF Process, SentOrders
<1>6. \A j \in proc.open : proc.sent[j].symbol = s => proc.sent[j].side = o.side
  BY <1>1, <1>5, <1>a DEF BooksInv, SideByBooks, Row, Sides
<1>7. WholeLots' BY <1>1, <1>a DEF BooksInv, WholeLots
<1>8. OneSide' BY <1>1, <1>4, <1>5, <1>6, <1>a DEF BooksInv, OneSide
<1>9. SideByBooks'
  <2>1. \A j \in proc.open :
          proc'.sent[j].side = "Buy" <=> proc'.portfolio[proc'.sent[j].symbol] = 0
    BY <1>1, <1>5, <1>a DEF BooksInv, SideByBooks
  <2>2. proc'.sent[id].side = "Buy" <=> proc'.portfolio[proc'.sent[id].symbol] = 0
    BY <1>1, <1>4
  <2> QED BY <1>1, <2>1, <2>2 DEF SideByBooks
<1>10. ASSUME NEW t \in Symbols, NEW side \in Sides, <<t, side>> # <<s, o.side>>
       PROVE  OpenOf(t, side)' = OpenOf(t, side)
  BY <1>1, <1>4, <1>5, <1>10 DEF OpenOf
<1>11. OpenOf(s, o.side)' = OpenOf(s, o.side) \cup {id} /\ id \notin OpenOf(s, o.side)
  BY <1>1, <1>3, <1>4, <1>5 DEF OpenOf
<1>12. o.side \in Sides BY DEF Row
<1>13. Cardinality(OpenOf(s, o.side))' = Cardinality(OpenOf(s, o.side)) + 1
  BY <1>11, <1>12, OpenCounted, FS_AddElement
<1>14. ASSUME NEW t \in Symbols, t # s
       PROVE  (proc.mock[t] = Less(Bought(t), Lot * Cardinality(OpenOf(t, "Sell"))))'
  <2>1. OpenOf(t, "Buy")' = OpenOf(t, "Buy") /\ OpenOf(t, "Sell")' = OpenOf(t, "Sell")
    BY <1>10, <1>14 DEF Sides
  <2>2. proc'.mock[t] = proc.mock[t] /\ proc'.portfolio[t] = proc.portfolio[t]
    BY <1>1, <1>14, <1>a DEF Process
  <2>3. proc.mock[t] = Less(Bought(t), Lot * Cardinality(OpenOf(t, "Sell")))
    BY <1>a DEF BooksInv, BooksAgree
  <2>4. Bought(t)' = Bought(t) BY <2>1, <2>2 DEF Bought
  <2> QED BY <2>1, <2>2, <2>3, <2>4
<1>15. (proc.mock[s] = Less(Bought(s), Lot * Cardinality(OpenOf(s, "Sell"))))'
  <2>1. proc'.mock[s] = Filled(proc.mock[s], o) /\ proc.mock[s] \in Nat
        /\ proc.portfolio[s] \in Nat
    BY <1>1, <1>a DEF Process
  <2>2. proc.mock[s] = Less(Bought(s), Lot * Cardinality(OpenOf(s, "Sell")))
    BY <1>a DEF BooksInv, BooksAgree
  <2>3. CASE proc.portfolio[s] = 0
    <3>1. o.side = "Buy" BY <1>1, <2>3
    <3>2. OpenOf(s, "Sell") = {}
      <4>1. \A j \in proc.open : proc.sent[j].symbol = s => proc.sent[j].side # "Sell"
        BY <1>6, <3>1
      <4> QED BY <4>1 DEF OpenOf
    <3>3. OpenOf(s, "Sell")' = {} BY <1>10, <3>1, <3>2 DEF Sides
    <3>4. Lot * Cardinality({}) = 0 BY FS_EmptySet, Constants
    <3>5. PICK k \in Nat : k = Cardinality(OpenOf(s, "Buy")) BY OpenCounted DEF Sides
    <3>6. Cardinality(OpenOf(s, "Buy"))' = k + 1 BY <1>13, <3>1, <3>5
    <3>7. Bought(s) = Lot * k /\ Bought(s)' = Lot * k + Lot /\ Lot * k \in Nat
      BY <1>1, <2>3, <3>5, <3>6, Constants DEF Bought
    <3>8. proc.mock[s] = Lot * k
      <4>1. Lot * Cardinality(OpenOf(s, "Sell")) = 0 BY <3>2, <3>4
      <4>2. proc.mock[s] = Less(Lot * k, 0) BY <2>2, <3>7, <4>1
      <4> QED BY <3>7, <4>2 DEF Less
    <3>9. proc'.mock[s] = Lot * k + Lot BY <1>1, <2>1, <3>1, <3>8 DEF Filled
    <3> QED BY <3>3, <3>4, <3>7, <3>9, Constants DEF Less
  <2>4. CASE proc.portfolio[s] # 0
    <3>1. o.side = "Sell" BY <1>1, <2>4
    <3>2. OpenOf(s, "Buy") = {}
      <4>1. \A j \in proc.open : proc.sent[j].symbol = s => proc.sent[j].side # "Buy"
        BY <1>6, <3>1
      <4> QED BY <4>1 DEF OpenOf
    <3>3. OpenOf(s, "Buy")' = {} BY <1>10, <3>1, <3>2 DEF Sides
    <3>4. Lot * Cardinality({}) = 0 BY FS_EmptySet, Constants
    <3>5. PICK k \in Nat : k = Cardinality(OpenOf(s, "Sell")) BY OpenCounted DEF Sides
    <3>6. Cardinality(OpenOf(s, "Sell"))' = k + 1 BY <1>13, <3>1, <3>5
    <3>7. PICK n \in Nat : proc.portfolio[s] = n * Lot BY <1>a DEF BooksInv, WholeLots
    <3>8. Bought(s) = n * Lot /\ Bought(s)' = n * Lot
      <4>1. Lot * Cardinality(OpenOf(s, "Buy")) = 0 /\ (Lot * Cardinality(OpenOf(s, "Buy")))' = 0
        BY <3>2, <3>3, <3>4
      <4>2. n * Lot \in Nat BY Constants
      <4> QED BY <1>1, <3>7, <4>1, <4>2 DEF Bought
    <3>9. proc.mock[s] = Less(n * Lot, Lot * k) BY <2>2, <3>5, <3>8
    <3>10. proc'.mock[s] = IF proc.mock[s] >= Lot THEN proc.mock[s] - Lot ELSE proc.mock[s]
      BY <1>1, <2>1, <3>1 DEF Filled
    <3>11. proc'.mock[s] = Less(n * Lot, Lot * (k + 1)) BY <3>9, <3>10, SoldOnce
    <3> QED BY <3>6, <3>8, <3>11
  <2> QED BY <2>3, <2>4
<1>16. BooksAgree' BY <1>14, <1>15 DEF BooksAgree
<1> QED BY <1>7, <1>8, <1>9, <1>16 DEF BooksInv

\* The order of the sync is one lot, so a portfolio that cannot give it is empty.
LEMMA SyncedBooks ==
  ASSUME PaperInv, NEW id \in ClientIds, SyncExecution(id)
  PROVE  BooksInv'
<1>a. proc \in Process /\ SentOrders /\ BooksInv /\ id \in proc.open
  BY DEF PaperInv, PaperTypeOK, SyncExecution
<1>b. \A j \in proc.open : proc.sent[j] \in Row /\ proc.sent[j].qty = Lot
  BY <1>a DEF SentOrders, Process
<1>1. PICK o \in Row : o = proc.sent[id] /\ o.qty = Lot BY <1>a, <1>b
<1>2. PICK s \in Symbols : s = o.symbol BY DEF Row
<1>3. /\ proc'.portfolio = [proc.portfolio EXCEPT ![s] = Filled(@, o)]
      /\ proc'.open = proc.open \ {id} /\ proc'.sent = proc.sent
      /\ proc'.mock = proc.mock /\ proc'.pc = "syncing"
  BY <1>1, <1>2, <1>a DEF SyncExecution, At, Process
<1>4. PICK n \in Nat : proc.portfolio[s] = n * Lot BY <1>a DEF BooksInv, WholeLots
<1>5. n * Lot \in Nat /\ (n + 1) * Lot = n * Lot + Lot BY Constants
<1>6. proc'.portfolio[s] = Filled(n * Lot, o)
      /\ \A t \in Symbols \ {s} : proc'.portfolio[t] = proc.portfolio[t]
  BY <1>3, <1>4, <1>a DEF Process
<1>7. ASSUME o.side = "Buy"
      PROVE  WholeLots' /\ (proc.mock[s] = Less(Bought(s), Lot * Cardinality(OpenOf(s, "Sell"))))'
  <2>1. proc'.portfolio[s] = n * Lot + Lot BY <1>1, <1>6, <1>7 DEF Filled
  <2>2. WholeLots' BY <1>5, <1>6, <1>a, <2>1 DEF BooksInv, WholeLots
  <2>3. OpenOf(s, "Sell")' = OpenOf(s, "Sell")
    BY <1>1, <1>3, <1>7 DEF OpenOf
  <2>4. OpenOf(s, "Buy")' = OpenOf(s, "Buy") \ {id} /\ id \in OpenOf(s, "Buy")
    BY <1>1, <1>2, <1>3, <1>7, <1>a DEF OpenOf
  <2>5. Cardinality(OpenOf(s, "Buy"))' = Cardinality(OpenOf(s, "Buy")) - 1
    BY <2>4, OpenCounted, FS_RemoveElement DEF Sides
  <2>6. PICK k \in Nat : k = Cardinality(OpenOf(s, "Buy")) BY OpenCounted DEF Sides
  <2>7. k - 1 \in Int /\ Lot * (k - 1) = Lot * k - Lot /\ Lot * k \in Nat BY Constants
  <2>8. Bought(s)' = Bought(s)
    BY <1>4, <1>5, <2>1, <2>5, <2>6, <2>7, Constants DEF Bought
  <2>9. (proc.mock[s] = Less(Bought(s), Lot * Cardinality(OpenOf(s, "Sell"))))'
    <3>1. proc.mock[s] = Less(Bought(s), Lot * Cardinality(OpenOf(s, "Sell")))
      BY <1>a DEF BooksInv, BooksAgree
    <3> QED BY <1>3, <2>3, <2>8, <3>1
  <2> QED BY <2>2, <2>9
<1>8. ASSUME o.side = "Sell"
      PROVE  WholeLots' /\ (proc.mock[s] = Less(Bought(s), Lot * Cardinality(OpenOf(s, "Sell"))))'
  <2>1. proc'.portfolio[s] = IF n * Lot >= Lot THEN n * Lot - Lot ELSE n * Lot
    BY <1>1, <1>6, <1>8 DEF Filled
  <2>2. n * Lot > 0 => n * Lot >= Lot /\ n * Lot - Lot = (n - 1) * Lot /\ n - 1 \in Nat
    BY LotsOrNone
  <2>3. proc'.portfolio[s] = n * Lot \/ (n - 1 \in Nat /\ proc'.portfolio[s] = (n - 1) * Lot)
    BY <1>5, <2>1, <2>2, Constants
  <2>4. WholeLots' BY <1>6, <1>a, <2>3 DEF BooksInv, WholeLots
  <2>5. OpenOf(s, "Buy") = {}
    <3>1. \A j \in proc.open : proc.sent[j].symbol = s => proc.sent[j].side # "Buy"
      BY <1>1, <1>2, <1>8, <1>a DEF BooksInv, OneSide
    <3> QED BY <3>1 DEF OpenOf
  <2>6. OpenOf(s, "Buy")' = {} BY <1>3, <2>5 DEF OpenOf
  <2>7. Lot * Cardinality({}) = 0 BY FS_EmptySet, Constants
  <2>8. OpenOf(s, "Sell")' = OpenOf(s, "Sell") \ {id} /\ id \in OpenOf(s, "Sell")
    BY <1>1, <1>2, <1>3, <1>8, <1>a DEF OpenOf
  <2>9. PICK k \in Nat : k = Cardinality(OpenOf(s, "Sell")) BY OpenCounted DEF Sides
  <2>10. Cardinality(OpenOf(s, "Sell"))' = k - 1 /\ k # 0
    BY <2>8, <2>9, OpenCounted, FS_RemoveElement DEF Sides
  <2>11. k - 1 \in Nat /\ Lot * k = Lot * (k - 1) + Lot /\ Lot * (k - 1) \in Nat
    BY <2>10, Constants
  <2>12. Bought(s) = n * Lot /\ Bought(s)' = proc'.portfolio[s]
    <3>1. Lot * Cardinality(OpenOf(s, "Buy")) = 0 /\ (Lot * Cardinality(OpenOf(s, "Buy")))' = 0
      BY <2>5, <2>6, <2>7
    <3>2. proc'.portfolio[s] \in Int BY <1>5, <2>1, Constants
    <3> QED BY <1>4, <1>5, <3>1, <3>2 DEF Bought
  <2>13. proc.mock[s] = Less(n * Lot, Lot * k)
    BY <1>a, <2>9, <2>12 DEF BooksInv, BooksAgree
  <2>14. Less(n * Lot, Lot * k) = Less(proc'.portfolio[s], Lot * (k - 1))
    <3> HIDE DEF Filled
    <3>1. CASE n * Lot >= Lot
      BY <1>5, <2>1, <2>11, <3>1, Constants DEF Less
    <3>2. CASE n * Lot < Lot
      <4>1. n * Lot = 0 BY <1>5, <2>2, <3>2, Constants
      <4>2. ~(n * Lot >= Lot) BY <1>5, <3>2, Constants
      <4>3. proc'.portfolio[s] = 0 BY <2>1, <4>1, <4>2
      <4> QED BY <2>11, <4>1, <4>3, Constants DEF Less
    <3> QED BY <1>5, <3>1, <3>2, Constants
  <2>15. (proc.mock[s] = Less(Bought(s), Lot * Cardinality(OpenOf(s, "Sell"))))'
    BY <1>3, <2>10, <2>12, <2>13, <2>14
  <2> QED BY <2>4, <2>15
<1>9. o.side \in Sides BY DEF Row
<1>10. ASSUME NEW t \in Symbols, t # s
       PROVE  (proc.mock[t] = Less(Bought(t), Lot * Cardinality(OpenOf(t, "Sell"))))'
  <2>1. \A side : OpenOf(t, side)' = OpenOf(t, side)
    BY <1>1, <1>2, <1>3, <1>10 DEF OpenOf
  <2>2. proc'.mock[t] = proc.mock[t] /\ proc'.portfolio[t] = proc.portfolio[t]
    BY <1>3, <1>6, <1>10
  <2>3. proc.mock[t] = Less(Bought(t), Lot * Cardinality(OpenOf(t, "Sell")))
    BY <1>a DEF BooksInv, BooksAgree
  <2>4. Bought(t)' = Bought(t) BY <2>1, <2>2 DEF Bought
  <2> QED BY <2>1, <2>2, <2>3, <2>4
<1>11. OneSide' BY <1>3, <1>a DEF BooksInv, OneSide
<1>12. SideByBooks' BY <1>3 DEF SideByBooks
<1>13. WholeLots' /\ (proc.mock[s] = Less(Bought(s), Lot * Cardinality(OpenOf(s, "Sell"))))'
  BY <1>7, <1>8, <1>9 DEF Sides
<1>14. BooksAgree' BY <1>10, <1>13 DEF BooksAgree
<1> QED BY <1>11, <1>12, <1>13, <1>14 DEF BooksInv

LEMMA BooksKept == PaperInv /\ [PaperNext]_paperVars => BooksInv'
<1> SUFFICES ASSUME PaperInv, [PaperNext]_paperVars PROVE BooksInv'
  OBVIOUS
<1>a. proc \in Process /\ BooksInv BY DEF PaperInv, PaperTypeOK
<1>1. CASE Outside
  <2>1. CASE proc' = proc BY <1>a, <2>1, BooksUntouched
  <2>2. CASE proc' = Fresh BY <2>2, FreshBooks
  <2> QED BY <1>1, <2>1, <2>2 DEF Outside
<1>2. CASE Abandoned
  <2>1. /\ proc'.sent = proc.sent /\ proc'.open = proc.open /\ proc'.mock = proc.mock
        /\ proc'.portfolio = proc.portfolio /\ proc.pc # "syncing"
    BY <1>2, <1>a DEF Abandoned, Abort, Process
  <2> QED BY <1>a, <2>1, BooksUntouched
<1>3. CASE Moved
  <2>1. /\ proc'.sent = proc.sent /\ proc'.open = proc.open /\ proc'.mock = proc.mock
        /\ proc'.portfolio = proc.portfolio
        /\ proc'.pc # "syncing" => proc.pc # "syncing" \/ proc.open = {}
    BY <1>3, <1>a DEF Moved, Moves
  <2> QED BY <1>a, <2>1, BooksUntouched
<1>4. ASSUME NEW s \in Symbols, WritePosition(s) PROVE BooksInv'
  <2>1. /\ proc'.sent = proc.sent /\ proc'.open = proc.open /\ proc'.mock = proc.mock
        /\ proc'.portfolio = proc.portfolio /\ proc.pc # "syncing"
    BY <1>4, <1>a DEF WritePosition, At, Process
  <2> QED BY <1>a, <2>1, BooksUntouched
<1>5. CASE StoreOrder
  <2>1. /\ proc'.sent = proc.sent /\ proc'.open = proc.open /\ proc'.mock = proc.mock
        /\ proc'.portfolio = proc.portfolio /\ proc.pc # "syncing"
    BY <1>5, <1>a DEF StoreOrder, At, Process
  <2> QED BY <1>a, <2>1, BooksUntouched
<1>6. ASSUME NEW id \in ClientIds, WriteStatus(id) \/ WriteFill(id) PROVE BooksInv'
  <2>1. /\ proc'.sent = proc.sent /\ proc'.open = proc.open /\ proc'.mock = proc.mock
        /\ proc'.portfolio = proc.portfolio /\ proc.pc # "syncing"
    BY <1>6, <1>a DEF WriteStatus, WriteFill, At, Process
  <2> QED BY <1>a, <2>1, BooksUntouched
<1> QED BY <1>1, <1>2, <1>3, <1>4, <1>5, <1>6, Steps, OrderedBooks, SyncedBooks

-----------------------------------------------------------------------------
(* The theorems.                                                           *)

\* The inductive invariant holds of every run of a loop, however often it
\* fails, is killed and comes back.
THEOREM PaperInvariantHolds == PaperSpec => []PaperInv
<1>1. PaperInv /\ [PaperNext]_paperVars => PaperInv'
  BY TypesKept, CycleKept, SentKept, OrdersToldKept, PositionsToldKept, BooksKept DEF PaperInv
<1> QED BY <1>1, InitHolds, PTL DEF PaperSpec

\* Between two cycles the database tells the truth about every order that no
\* failed cycle skipped, and about the positions while none failed.
THEOREM RowsAreTrue == PaperSpec => []RowsTellTheTruth
<1>1. PaperInv => RowsTellTheTruth
  <2> SUFFICES ASSUME PaperInv, stage = "up", proc.pc = "idle" PROVE RowsTellTheTruth
    BY DEF RowsTellTheTruth, At
  <2>1. proc.toCreate = {} /\ proc.settled = {} /\ proc.toFill = {}
    BY DEF PaperInv, CycleState
  <2>2. \A id \in ClientIds \ proc.lost : RowOf(id) BY DEF PaperInv, OrdersTold
  <2>3. ASSUME NEW id \in ClientIds \ proc.lost
        PROVE  /\ proc.sent[id] # None => orderRows[id] # None /\ orderRows[id].order = proc.sent[id]
               /\ proc.sent[id] # None /\ id \notin proc.open => orderRows[id].status = "Filled"
               /\ FillsOf(id) = IF proc.sent[id] = None \/ id \in proc.open THEN {}
                                ELSE {[client |-> id, order |-> proc.sent[id]]}
    BY <2>1, <2>2 DEF RowOf, WholeFill
  <2>4. errors = 0 /\ proc.lost = {} =>
          \A s \in Symbols : proc.portfolio[s] \in {0, positionRows[s]}
    BY DEF PaperInv, PositionsTold
  <2> QED BY <2>3, <2>4 DEF RowsTellTheTruth, FillsOf
<1> QED BY <1>1, PaperInvariantHolds, PTL

\* The broker's positions and the portfolio differ by the open orders only,
\* through every failed cycle.
THEOREM BooksStayEqual == PaperSpec => []BooksAgree
<1>1. PaperInv => BooksAgree BY DEF PaperInv, BooksInv
<1> QED BY <1>1, PaperInvariantHolds, PTL

\* The two layers of checks agree on every combination of settings that loads
\* but live trading on the memory backend, and only confirmed live settings
\* lead to the real domain.
THEOREM LayersAlwaysAgree == PaperSpec => []LayersAgree
<1>1. PaperInv => LayersAgree
  <2> SUFFICES ASSUME settings \in Settings, stage = "loading", Loads(settings)
               PROVE  LayersAgree
    BY DEF PaperInv, PaperTypeOK, LayersAgree
  <2> QED BY DEF LayersAgree, Loads, Valid, Assembled, Settings
<1> QED BY <1>1, PaperInvariantHolds, PTL
=============================================================================
