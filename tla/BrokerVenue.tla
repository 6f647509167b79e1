---------------------------- MODULE BrokerVenue ----------------------------
(***************************************************************************)
(* The Broker trait of broker/mod.rs as its callers see it: requests on    *)
(* the way to the venue, the venue's order book for this account, its      *)
(* answers and the shares held there.  The venue itself is external; what  *)
(* it may do is taken from the trait's documentation and from the two      *)
(* brokers under src/ (MockBroker, KisBroker).                             *)
(* A request can be delayed past the caller's timeout and still be         *)
(* accepted, or be lost; an answer can be lost.                            *)
(***************************************************************************)
EXTENDS Orders

CONSTANTS
  BrokerIds,    \* broker_order_ids the venue can hand out
  Idempotent    \* does submit_order return the old ack for a reused id?

VenueOrders == [client : ClientIds, life : Lives, symbol : Symbols,
                side : Sides, qty : Quantities, filled : Nat, open : BOOLEAN]

Replies == [client : ClientIds, life : Lives, broker : BrokerIds \cup {None}]

ASSUME IdempotentAssumption == Idempotent \in BOOLEAN
ASSUME NoOrderAssumption == None \notin BrokerIds /\ None \notin VenueOrders

VARIABLES
  wire,      \* requests sent and not yet seen by the venue
  venue,     \* [BrokerIds -> the venue's record of the order, or None]
  replies,   \* the venue's answers: an ack's broker id, None for BrokerError::Rejected
  holding    \* [Symbols -> shares held at the venue]

venueVars == <<wire, venue, replies, holding>>

VenueInit ==
  /\ wire = {}
  /\ venue = [b \in BrokerIds |-> None]
  /\ replies = {}
  /\ holding = [s \in Symbols |-> 0]

OrderOf(b, client) == venue[b] # None /\ venue[b].client = client

Reply(r, b) == [client |-> r.client, life |-> r.life, broker |-> b]

\* The venue takes a new order.  An idempotent venue does so only for a
\* client id it has not seen.
Accept(r, b) ==
  /\ r \in wire
  /\ venue[b] = None
  /\ Idempotent => \A c \in BrokerIds : ~OrderOf(c, r.client)
  /\ wire' = wire \ {r}
  /\ venue' = [venue EXCEPT ![b] =
       [client |-> r.client, life |-> r.life, symbol |-> r.symbol,
        side |-> r.side, qty |-> r.qty, filled |-> 0, open |-> TRUE]]
  /\ replies' = replies \cup {Reply(r, b)}
  /\ UNCHANGED holding

\* The same client id again, at an idempotent venue: the first order's ack.
AcceptAgain(r, b) ==
  /\ Idempotent
  /\ r \in wire
  /\ OrderOf(b, r.client)
  /\ wire' = wire \ {r}
  /\ replies' = replies \cup {Reply(r, b)}
  /\ UNCHANGED <<venue, holding>>

\* A definitive rejection: BrokerError::Rejected, no order exists.
Refuse(r) ==
  /\ r \in wire
  /\ wire' = wire \ {r}
  /\ replies' = replies \cup {Reply(r, None)}
  /\ UNCHANGED <<venue, holding>>

\* The request never arrives, or dies before the book with no definitive
\* answer (a transport error, a 5xx, MockBroker's UnknownSymbol).
Lose(r) ==
  /\ r \in wire
  /\ wire' = wire \ {r}
  /\ UNCHANGED <<venue, replies, holding>>

\* One more share trades; the last one closes the order.
Fill(b) ==
  /\ venue[b] # None
  /\ venue[b].open
  /\ venue[b].side = "Sell" => holding[venue[b].symbol] > 0
  /\ venue' = [venue EXCEPT ![b].filled = @ + 1,
                            ![b].open = venue[b].filled + 1 < venue[b].qty]
  /\ holding' = [holding EXCEPT ![venue[b].symbol] =
                   IF venue[b].side = "Buy" THEN @ + 1 ELSE @ - 1]
  /\ UNCHANGED <<wire, replies>>

\* The remainder is cancelled: by hand at the venue, or at the day's end.
Cancel(b) ==
  /\ venue[b] # None
  /\ venue[b].open
  /\ venue' = [venue EXCEPT ![b].open = FALSE]
  /\ UNCHANGED <<wire, replies, holding>>

VenueStep ==
  \/ \E r \in wire, b \in BrokerIds : Accept(r, b) \/ AcceptAgain(r, b)
  \/ \E r \in wire : Refuse(r) \/ Lose(r)
  \/ \E b \in BrokerIds : Fill(b) \/ Cancel(b)

VenueTypeOK ==
  /\ wire \subseteq Requests
  /\ venue \in [BrokerIds -> VenueOrders \cup {None}]
  /\ replies \subseteq Replies
  /\ holding \in [Symbols -> Nat]
=============================================================================
