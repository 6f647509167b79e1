----------------------------- MODULE PaperLoop -----------------------------
(***************************************************************************)
(* The paper trading loops (runtime/realtime.rs, sim.rs, demo.rs): quotes  *)
(* drive a decision cycle of the trading runtime against the in-process    *)
(* MockBroker, and the cycle writes quotes, orders, fills and positions to *)
(* the database one await at a time.  The first error ends the cycle; the  *)
(* process can be killed between any two steps.  The three loops differ in *)
(* what starts a cycle and which quotes it stores.                         *)
(*                                                                         *)
(* Every order of these loops is a market order or a limit order at the    *)
(* last price, so MockBroker fills it whole as it is submitted: a sent     *)
(* order that is not in open is Filled.  An order is settled by one sync   *)
(* only, so persisted_status and persisted_fills hold nothing back and are *)
(* left out.  A strategy buys one lot of a symbol the portfolio holds none *)
(* of, and sells at most one lot of what it holds.                         *)
(***************************************************************************)
EXTENDS Startup, Storage, FiniteSets, FiniteSetsExt

CONSTANTS
  Lot,         \* shares per intent
  Bars,        \* bound on the bars the simulation replays
  MaxErrors    \* bound on the storage errors that are not the program's own

ASSUME LotAssumption == Lot \in Quantities

VARIABLES
  proc,        \* the process: see Fresh
  life,        \* process incarnation
  errors       \* storage errors so far

paperVars == <<startVars, storageVars, proc, life, errors>>

\* A process as it comes up: nothing of the last one but the database.
Fresh ==
  [pc        |-> "idle",   \* where the cycle is
   due       |-> TRUE,     \* realtime: the cycle interval has passed (next_cycle)
   cursor    |-> 0,        \* sim: bars replayed
   quoted    |-> {},       \* symbols with a quote (runtime.quotes, pending)
   toDecide  |-> {},       \* symbols the decision pass has still to look at
   orderSeq  |-> 0,        \* client order ids drawn
   sent      |-> [id \in ClientIds |-> None],    \* the orders submitted
   open      |-> {},       \* open_local
   mock      |-> [s \in Symbols |-> 0],          \* shares MockBroker holds for us
   portfolio |-> [s \in Symbols |-> 0],          \* shares the portfolio holds
   toCreate  |-> {},       \* submitted orders still to be stored
   settled   |-> {},       \* settled orders whose status is still to be stored
   toFill    |-> {},       \* the order whose status is stored and fill is not yet
   toWrite   |-> {},       \* positions still to be stored
   lost      |-> {}]       \* history: orders whose rows a failed cycle skipped

PaperInit == StartupInit /\ StorageInit /\ proc = Fresh /\ life = 0 /\ errors = 0

At(pc) == proc.pc = pc

\* A step of the process that writes nothing to the database.
Memory == UNCHANGED <<storageVars, life, errors>>

\* A step that writes, and succeeds.
Stored == UNCHANGED <<life, errors>>

-----------------------------------------------------------------------------
\* What starts a cycle.

\* A tick of the live market: the newest quote of every symbol waits in
\* pending, and all of them are stored again by the next cycle that is due.
OnQuote(s) ==
  LET quoted == proc.quoted \cup {s}
  IN
  /\ loop = "realtime" /\ At("idle")
  /\ proc' = IF proc.due
       THEN [proc EXCEPT !.quoted = quoted, !.due = FALSE, !.pc = "quoting"]
       ELSE [proc EXCEPT !.quoted = quoted]
  /\ Memory

IntervalElapses ==
  /\ loop = "realtime"
  /\ proc' = [proc EXCEPT !.due = TRUE]
  /\ Memory

\* The next stored bar, of whichever symbol.
SimTick(s) ==
  /\ loop = "sim" /\ At("idle")
  /\ proc.cursor < Bars
  /\ proc' = [proc EXCEPT !.cursor = @ + 1, !.quoted = @ \cup {s}, !.pc = "quoting"]
  /\ Memory

\* One step of the synthetic market, for the whole watchlist.
DemoTick ==
  /\ loop = "demo" /\ At("idle")
  /\ proc' = [proc EXCEPT !.quoted = Symbols, !.pc = "quoting"]
  /\ Memory

Tick ==
  \/ \E s \in Symbols : OnQuote(s) \/ SimTick(s)
  \/ DemoTick

-----------------------------------------------------------------------------
\* The steps of the cycle.

\* The quotes are stored one by one; with their table left out, as one step.
InsertQuotes ==
  /\ At("quoting")
  /\ proc' = [proc EXCEPT !.pc = "deciding", !.toDecide = proc.quoted]
  /\ Memory

\* MockBroker::apply_fill and Portfolio::apply_fill keep the same rule: what
\* is not held is not sold.
Filled(held, order) ==
  CASE order.side = "Buy" -> held + order.qty
    [] order.side = "Sell" /\ held >= order.qty -> held - order.qty
    [] OTHER -> held

\* run_decision_cycle: an intent that passes the risk gate is submitted, and
\* MockBroker fills it on the spot.
Intend(s) ==
  LET id == proc.orderSeq + 1
      held == proc.portfolio[s]
      order == [life |-> life, symbol |-> s,
                side |-> IF held = 0 THEN "Buy" ELSE "Sell",
                qty |-> IF held \in 1 .. Lot THEN held ELSE Lot]
  IN
  /\ At("deciding") /\ s \in proc.toDecide
  /\ id \in ClientIds
  /\ proc' = [proc EXCEPT !.toDecide = @ \ {s}, !.orderSeq = id, !.sent[id] = order,
                          !.mock[s] = Filled(@, order), !.open = @ \cup {id},
                          !.toCreate = @ \cup {id}]
  /\ Memory

\* An intent that is malformed, or that the risk gate refuses, spends its id.
RefuseIntent(s) ==
  /\ At("deciding") /\ s \in proc.toDecide
  /\ proc.orderSeq + 1 \in ClientIds
  /\ proc' = [proc EXCEPT !.toDecide = @ \ {s}, !.orderSeq = @ + 1]
  /\ Memory

\* A pass without orders that skips the sync (mutant).
DecidedIdle ==
  /\ At("deciding")
  /\ proc' = [proc EXCEPT !.pc = IF proc.toCreate = {} THEN "idle" ELSE "creating",
                          !.toDecide = {}]
  /\ Memory

\* The strategy has nothing more to say.
Decided ==
  /\ At("deciding")
  /\ proc' = [proc EXCEPT !.pc = "creating", !.toDecide = {}]
  /\ Memory

\* create_order, for the submitted orders in the order they were submitted.
StoreOrder ==
  /\ At("creating") /\ proc.toCreate # {}
  /\ LET id == Min(proc.toCreate)
     IN  /\ CreateOrder(id, proc.sent[id])
         /\ proc' = [proc EXCEPT !.toCreate = @ \ {id}]
  /\ Stored

StoredOrders ==
  /\ At("creating") /\ proc.toCreate = {}
  /\ proc' = [proc EXCEPT !.pc = "syncing"]
  /\ Memory

\* sync_execution that finds the order settled but not what it filled (mutant).
SyncExecutionUnbooked(id) ==
  /\ At("syncing") /\ id \in proc.open
  /\ proc' = [proc EXCEPT !.open = @ \ {id}, !.settled = @ \cup {id}]
  /\ Memory

\* sync_all: every open order has filled, so it settles.
SyncExecution(id) ==
  /\ At("syncing") /\ id \in proc.open
  /\ proc' = [proc EXCEPT !.portfolio[proc.sent[id].symbol] = Filled(@, proc.sent[id]),
                          !.open = @ \ {id}, !.settled = @ \cup {id}]
  /\ Memory

Synced ==
  /\ At("syncing") /\ proc.open = {}
  /\ proc' = [proc EXCEPT !.pc = "writing"]
  /\ Memory

\* The statuses come in the order of a HashMap.
WriteStatus(id) ==
  /\ At("writing") /\ proc.toFill = {} /\ id \in proc.settled
  /\ UpdateOrderStatus(id, "Filled")
  /\ proc' = [proc EXCEPT !.settled = @ \ {id}, !.toFill = {id}]
  /\ Stored

WriteFill(id) ==
  /\ At("writing") /\ id \in proc.toFill
  /\ RecordFill(id, proc.sent[id])
  /\ proc' = [proc EXCEPT !.toFill = {}]
  /\ Stored

\* Only positions that hold something are written.
Written ==
  /\ At("writing") /\ proc.settled \cup proc.toFill = {}
  /\ proc' = [proc EXCEPT !.pc = "positions",
                          !.toWrite = {s \in Symbols : proc.portfolio[s] > 0}]
  /\ Memory

WritePosition(s) ==
  /\ At("positions") /\ s \in proc.toWrite
  /\ UpsertPosition(s, proc.portfolio[s])
  /\ proc' = [proc EXCEPT !.toWrite = @ \ {s}]
  /\ Stored

EndCycle ==
  /\ At("positions") /\ proc.toWrite = {}
  /\ proc' = [proc EXCEPT !.pc = "idle"]
  /\ Memory

\* "?" on a storage error: the rest of the cycle is dropped, and with it the
\* rows of the orders that are settled or were not yet stored.
Abort ==
  /\ proc' = [proc EXCEPT !.pc = "idle",
                !.lost = @ \cup proc.toCreate \cup proc.settled \cup proc.toFill,
                !.toCreate = {}, !.settled = {}, !.toFill = {}, !.toWrite = {}]
  /\ UNCHANGED <<storageVars, life>>

\* An error the database makes by itself: disk, lock timeout.
StorageFails ==
  /\ \/ At("quoting")
     \/ At("creating") /\ proc.toCreate # {}
     \/ At("writing") /\ proc.settled \cup proc.toFill # {}
     \/ At("positions") /\ proc.toWrite # {}
  /\ errors < MaxErrors
  /\ errors' = errors + 1
  /\ Abort

\* An id that has a row already, or a fill whose order has none.
ConstraintFails ==
  /\ \/ At("creating") /\ proc.toCreate # {} /\ ~CanCreate(Min(proc.toCreate))
     \/ At("writing") /\ \E id \in proc.toFill : ~CanRecord(id)
  /\ UNCHANGED errors
  /\ Abort

Cycle ==
  \/ \E s \in Symbols : Intend(s) \/ RefuseIntent(s) \/ WritePosition(s)
  \/ \E id \in ClientIds : SyncExecution(id) \/ WriteStatus(id) \/ WriteFill(id)
  \/ InsertQuotes \/ Decided \/ StoreOrder \/ StoredOrders \/ Synced \/ Written \/ EndCycle
  \/ StorageFails \/ ConstraintFails

LoopStep == stage = "up" /\ (Tick \/ Cycle) /\ UNCHANGED startVars
IntervalStep == stage = "up" /\ IntervalElapses /\ UNCHANGED startVars

Kill == loop # "none" /\ Killed /\ proc' = Fresh /\ UNCHANGED <<storageVars, life, errors>>

\* The same database; the broker is new and the ids start over.
Restart ==
  /\ Restarted
  /\ life + 1 \in Lives
  /\ life' = life + 1
  /\ UNCHANGED <<proc, storageVars, errors>>

PaperNext ==
  \/ Start /\ UNCHANGED <<proc, storageVars, life, errors>>
  \/ LoopStep \/ IntervalStep \/ Kill \/ Restart

PaperSpec ==
  PaperInit /\ [][PaperNext]_paperVars
  /\ WF_paperVars(LoopStep) /\ WF_paperVars(IntervalStep)

-----------------------------------------------------------------------------
\* Between two cycles the database tells the truth about every order of this
\* process that no failed cycle skipped: its row is its own, it is open or
\* the row says Filled, and its fill is stored once and whole.  While no
\* cycle failed, the stored positions are the portfolio's, except that a
\* symbol sold out keeps the quantity it had (realtime.rs:126-161).
RowsTellTheTruth ==
  stage = "up" /\ At("idle") =>
    /\ \A id \in ClientIds \ proc.lost :
         LET order == proc.sent[id]
         IN
         /\ order # None => orderRows[id] # None /\ orderRows[id].order = order
         /\ order # None /\ id \notin proc.open => orderRows[id].status = "Filled"
         /\ {f \in fillRows : f.client = id /\ f.order.life = life}
              = IF order = None \/ id \in proc.open THEN {}
                ELSE {[client |-> id, order |-> order]}
    /\ errors = 0 /\ proc.lost = {} =>
         \A s \in Symbols : proc.portfolio[s] \in {0, positionRows[s]}

OpenOf(s, side) == {id \in proc.open : proc.sent[id].symbol = s /\ proc.sent[id].side = side}

\* What is held with the open purchases of the symbol.
Bought(s) == proc.portfolio[s] + Lot * Cardinality(OpenOf(s, "Buy"))
Less(held, sold) == IF sold <= held THEN held - sold ELSE 0

\* The portfolio and the broker's positions differ by exactly the orders the
\* sync has still to find, even after cycles that failed half-way and bought
\* or sold twice (runtime/mod.rs:204-285, broker/mock.rs:182-213).
BooksAgree ==
  \A s \in Symbols : proc.mock[s] = Less(Bought(s), Lot * Cardinality(OpenOf(s, "Sell")))

\* Ticks keep coming, so every order a cycle left open is settled in the end
\* unless the process is killed, in the loops that do not run out of bars.
OrdersSettle ==
  (loop \in {"realtime", "demo"} /\ proc.open # {}) ~> (proc.open = {} \/ stage = "down")

\* The demo loop "persists everything to SQLite" (demo.rs:4-5), and so do the
\* others: even with a database that never fails, every order of the process
\* has its row when the cycle is over.  Not so after a restart on the same
\* database: the ids start over, create_order meets the old rows, and the
\* orders the broker has filled are never stored.
EveryOrderRecorded ==
  stage = "up" /\ At("idle") =>
    \A id \in ClientIds :
      proc.sent[id] # None => orderRows[id] # None /\ orderRows[id].order = proc.sent[id]
=============================================================================
