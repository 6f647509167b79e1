------------------------------ MODULE Storage ------------------------------
(***************************************************************************)
(* The tables the paper loops write (storage/mod.rs, schema of             *)
(* storage/migrations.rs): orders, fills and positions.  A write is one    *)
(* transaction: it either takes effect, its audit row included, or leaves  *)
(* nothing.  The audit rows say the same thing again and are left out, and *)
(* so are prices and the quotes, which nothing below depends on.           *)
(*                                                                         *)
(* The database outlives the process.  A row keeps the life of the process *)
(* whose order it is about, which the code has as created_at and           *)
(* executed_at.                                                            *)
(***************************************************************************)
EXTENDS Orders

VARIABLES
  orderRows,      \* [ClientIds -> the row of this client_order_id, or None]
  fillRows,       \* the rows of table fills
  positionRows    \* [Symbols -> the quantity stored, or None]

storageVars == <<orderRows, fillRows, positionRows>>

Row == [life : Lives, symbol : Symbols, side : Sides, qty : Quantities]
OrderRow == [order : Row, status : Statuses]

ASSUME NoRowAssumption ==
  None \notin Row /\ None \notin OrderRow /\ None \notin Nat

StorageInit ==
  /\ orderRows = [id \in ClientIds |-> None]
  /\ fillRows = {}
  /\ positionRows = [s \in Symbols |-> None]

\* create_order: client_order_id is the primary key.
CanCreate(id) == orderRows[id] = None

\* INSERT OR IGNORE (mutant).
CreateOrderIgnoring(id, order) ==
  /\ orderRows' = IF CanCreate(id)
       THEN [orderRows EXCEPT ![id] = [order |-> order, status |-> "Pending"]]
       ELSE orderRows
  /\ UNCHANGED <<fillRows, positionRows>>

CreateOrder(id, order) ==
  /\ CanCreate(id)
  /\ orderRows' = [orderRows EXCEPT ![id] = [order |-> order, status |-> "Pending"]]
  /\ UNCHANGED <<fillRows, positionRows>>

\* update_order_status: no row, no change, and no error (Ok(false)).
UpdateOrderStatus(id, status) ==
  /\ orderRows' = IF orderRows[id] = None THEN orderRows
                  ELSE [orderRows EXCEPT ![id].status = status]
  /\ UNCHANGED <<fillRows, positionRows>>

\* record_fill: a foreign key leads to the order; recorded once.
CanRecord(id) == orderRows[id] # None

RecordFill(id, order) ==
  /\ CanRecord(id)
  /\ fillRows' = fillRows \cup {[client |-> id, order |-> order]}
  /\ UNCHANGED <<orderRows, positionRows>>

UpsertPosition(s, qty) ==
  /\ positionRows' = [positionRows EXCEPT ![s] = qty]
  /\ UNCHANGED <<orderRows, fillRows>>

=============================================================================
