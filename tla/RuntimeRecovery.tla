-------------------------- MODULE RuntimeRecovery --------------------------
(***************************************************************************)
(* Crash and restart recovery of the trading runtime: TradingRuntime's     *)
(* processes one after another, each forgetting everything it held in      *)
(* memory, and TradingRuntime::recover with Reconciler::reconcile_pending  *)
(* and rebuild_portfolio (runtime/mod.rs, execution/gateway.rs).           *)
(*                                                                         *)
(* recover() is handed the "client_order_id -> broker_order_id" pairs left *)
(* open.  Its caller takes them from open_local_orders() ("for recovery    *)
(* after a crash"), whenever it has control; the copy may be out of date   *)
(* when the process dies.  The new process starts its id sequence at zero  *)
(* with the same prefix, as new() does.                                    *)
(***************************************************************************)
EXTENDS TradingRuntime

CONSTANT MaxCrashes     \* bound on restarts

ASSUME MaxCrashesAssumption == MaxCrashes \in Nat /\ 0 .. MaxCrashes \subseteq Lives

VARIABLES
  phase,        \* "up", "down", "reconciling" or "rebuilding"
  saved,        \* the caller's durable copy of open_local
  pending,      \* recover()'s argument: the pairs left open
  pendingTodo,  \* the ids reconcile_pending has not reached
  results,      \* ids it has resolved
  lookupFailed, \* history variable: did recover() lose its results?
  halfBooked    \* history variable: orders tracked again of which the
                \* positions read already held shares

recoveryVars == <<phase, saved, pending, pendingTodo, results, lookupFailed, halfBooked>>
allVars == <<vars, recoveryVars>>

RecoveryInit ==
  /\ Init
  /\ phase = "up"
  /\ saved = [id \in ClientIds |-> None]
  /\ pending = [id \in ClientIds |-> None]
  /\ pendingTodo = {}
  /\ results = {}
  /\ lookupFailed = FALSE
  /\ halfBooked = {}

\* The process runs.  The kill switch is not used here.
Run ==
  /\ phase = "up"
  /\ Decide \/ Sync
  /\ UNCHANGED recoveryVars

\* It draws an id that recover() has registered.
ReuseRefused ==
  /\ phase = "up"
  /\ RefuseDuplicate
  /\ UNCHANGED recoveryVars

VenueMoves == Venue /\ UNCHANGED recoveryVars

\* The caller copies open_local between two calls of the runtime.
SaveOpenOrders ==
  /\ phase = "up"
  /\ pc \in {"idle", "deciding"}
  /\ saved' = openLocal
  /\ UNCHANGED <<vars, phase, pending, pendingTodo, results, lookupFailed, halfBooked>>

\* What a new process starts from (StateMachine::new, TradingRuntime::new).
FreshProcess ==
  /\ statuses' = [id \in ClientIds |-> "Unregistered"]
  /\ history' = [id \in ClientIds |-> <<>>]
  /\ pc' = "idle"
  /\ order' = None
  /\ orderSeq' = 0
  /\ brokerIds' = [id \in ClientIds |-> None]
  /\ openLocal' = [id \in ClientIds |-> None]
  /\ syncTodo' = {}
  /\ closing' = {}
  /\ portfolio' = [s \in Symbols |-> 0]
  /\ booked' = [b \in BrokerIds |-> 0]
  /\ killActive' = FALSE
  /\ sentUnderKill' = 0
  /\ life' = life + 1
  /\ phase' = "down"
  /\ pending' = [id \in ClientIds |-> None]
  /\ pendingTodo' = {}
  /\ results' = {}
  /\ lookupFailed' = FALSE
  /\ halfBooked' = {}
  /\ UNCHANGED saved

\* The process dies, at any point; requests and venue live on.
Crash ==
  /\ life < MaxCrashes
  /\ FreshProcess
  /\ UNCHANGED venueVars

\* The same in paper mode: the in-process MockBroker dies with it.
CrashWithVenue ==
  /\ life < MaxCrashes
  /\ FreshProcess
  /\ wire' = {}
  /\ venue' = [b \in BrokerIds |-> None]
  /\ replies' = {}
  /\ holding' = [s \in Symbols |-> 0]

\* recover() is called before the first decision cycle.
BeginRecover ==
  /\ phase = "down"
  /\ phase' = "reconciling"
  /\ pending' = saved
  /\ pendingTodo' = Open(saved)
  /\ UNCHANGED <<vars, saved, results, lookupFailed, halfBooked>>

\* An order the venue has no record of is dropped unregistered (mutant).
ReconcileForgets(id) ==
  LET b == pending[id]
      target == TargetStatus(venue[b])
  IN
  /\ phase = "reconciling"
  /\ id \in pendingTodo
  /\ IF venue[b] = None
       THEN UNCHANGED machineVars
       ELSE /\ statuses' = [statuses EXCEPT ![id] = target]
            /\ history' = [history EXCEPT ![id] = Append(@, [from |-> "Unknown", to |-> target])]
  /\ pendingTodo' = pendingTodo \ {id}
  /\ results' = results \cup {id}
  /\ UNCHANGED <<venueVars, cycleVars, idVars, syncVars, bookVars, killVars, life,
                 phase, saved, pending, lookupFailed, halfBooked>>

\* Register at Unknown, then move on to what the venue says: the status of
\* the order it reports, Rejected when it has no record of it.
Reconcile(id) ==
  LET b == pending[id]
      target == IF venue[b] = None THEN "Rejected" ELSE TargetStatus(venue[b])
  IN
  /\ phase = "reconciling"
  /\ id \in pendingTodo
  /\ statuses' = [statuses EXCEPT ![id] = target]
  /\ history' = [history EXCEPT ![id] = Append(@, [from |-> "Unknown", to |-> target])]
  /\ pendingTodo' = pendingTodo \ {id}
  /\ results' = results \cup {id}
  /\ UNCHANGED <<venueVars, cycleVars, idVars, syncVars, bookVars, killVars, life,
                 phase, saved, pending, lookupFailed, halfBooked>>

\* A failed lookup leaves that order at Unknown, ends the loop, and recover()
\* goes on as if nothing had been pending (unwrap_or_default).
ReconcileLookupFails(id) ==
  /\ phase = "reconciling"
  /\ id \in pendingTodo
  /\ Register(id, "Unknown")
  /\ phase' = "rebuilding"
  /\ results' = {}
  /\ lookupFailed' = TRUE
  /\ UNCHANGED <<venueVars, cycleVars, idVars, syncVars, bookVars, killVars, life,
                 saved, pending, pendingTodo, halfBooked>>

EndReconcile ==
  /\ phase = "reconciling"
  /\ pendingTodo = {}
  /\ phase' = "rebuilding"
  /\ UNCHANGED <<vars, saved, pending, pendingTodo, results, lookupFailed, halfBooked>>

\* A recovered PartiallyFilled order is not tracked again (mutant).
RetrackedUnfilledOnly == {id \in results : statuses[id] = "Submitted"}

\* Every order the venue knows is tracked again, settled or not (mutant).
RetrackedSettled == {id \in results : statuses[id] # "Rejected"}

\* The orders recover() resolved and that are still live are tracked again.
Retracked == {id \in results : statuses[id] \in Live}

TrackLive ==
  openLocal' = [id \in ClientIds |-> IF id \in Retracked THEN pending[id] ELSE openLocal[id]]

\* rebuild_portfolio: local positions are replaced by the venue's.
Rebuild ==
  /\ phase = "rebuilding"
  /\ portfolio' = holding
  /\ booked' = [b \in BrokerIds |-> IF venue[b] = None THEN 0 ELSE venue[b].filled]
  /\ halfBooked' = {b \in BrokerIds :
       /\ \E id \in results : pending[id] = b /\ statuses[id] \in Live
       /\ venue[b] # None /\ venue[b].filled > 0}
  /\ TrackLive
  /\ phase' = "up"
  /\ UNCHANGED <<machineVars, venueVars, cycleVars, brokerIds, syncVars, killVars, life,
                 saved, pending, pendingTodo, results, lookupFailed>>

\* positions() fails: the empty portfolio of the new process stays.
RebuildFails ==
  /\ phase = "rebuilding"
  /\ TrackLive
  /\ phase' = "up"
  /\ UNCHANGED <<machineVars, venueVars, cycleVars, brokerIds, syncVars, bookVars,
                 killVars, life, saved, pending, pendingTodo, results, lookupFailed,
                 halfBooked>>

Recover ==
  \/ BeginRecover \/ EndReconcile \/ Rebuild \/ RebuildFails
  \/ \E id \in ClientIds : Reconcile(id) \/ ReconcileLookupFails(id)

RecoveryNext ==
  Run \/ ReuseRefused \/ VenueMoves \/ SaveOpenOrders \/ Crash \/ CrashWithVenue \/ Recover

RecoverySpec == RecoveryInit /\ [][RecoveryNext]_allVars

-----------------------------------------------------------------------------
RecoveryTypeOK ==
  /\ TypeOK
  /\ phase \in {"up", "down", "reconciling", "rebuilding"}
  /\ saved \in [ClientIds -> BrokerIds \cup {None}]
  /\ pending \in [ClientIds -> BrokerIds \cup {None}]
  /\ pendingTodo \subseteq ClientIds
  /\ results \subseteq ClientIds
  /\ lookupFailed \in BOOLEAN
  /\ halfBooked \subseteq BrokerIds

\* The new process never sends a request under the id of an order that was
\* handed to recover(), although it draws the same ids again: reconcile_pending
\* registers them all (docs/recovery.md:26-27).  A lookup that fails ends the
\* loop, and the ids it has not reached are free to be sent again.
ReconciledNeverResubmitted ==
  ~lookupFailed => \A r \in wire \cup replies : r.life = life => pending[r.client] = None

\* When every lookup succeeds, every pending order comes out of recovery
\* settled as the venue says, or tracked under its broker id if it may still
\* trade, however out of date the caller's pairs were; and it stays so while
\* the new process trades.
RecoveredSettled ==
  phase = "up" /\ ~lookupFailed =>
    \A id \in Open(pending) :
      LET b == pending[id]
      IN
      /\ statuses[id] \in Live \cup Terminal
      /\ statuses[id] \in Live => openLocal[id] = b
      /\ statuses[id] = "Rejected" => ~OrderOf(b, id)
      /\ statuses[id] \in {"Filled", "Cancelled"} =>
           /\ OrderOf(b, id)
           /\ ~venue[b].open
           /\ statuses[id] = "Filled" <=> venue[b].filled = venue[b].qty

\* It holds for every order but those tracked again as live although shares of
\* theirs were already in the positions read: an order untouched or settled
\* around the crash is never counted twice, wherever the copy was stale.
OnlyHalfFilledBookedTwice ==
  phase = "up" /\ ~lookupFailed =>
    \A id \in Open(pending) :
      pending[id] \notin halfBooked /\ OrderOf(pending[id], id) =>
        booked[pending[id]] <= venue[pending[id]].filled
=============================================================================
