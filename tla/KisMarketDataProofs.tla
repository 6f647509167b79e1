------------------------ MODULE KisMarketDataProofs ------------------------
(***************************************************************************)
(* Proofs about KisMarketData for any symbols and any number of delays.    *)
(* That a streaming connection carries the desired set follows from what   *)
(* the replay keeps (ReplayCoversDesired), which holds because the lock is *)
(* held until the replay is over.                                          *)
(***************************************************************************)
EXTENDS KisMarketData, TLAPS

LEMMA InitHolds == Init => ClientInvariant
<1> SUFFICES ASSUME Init PROVE ClientInvariant
  OBVIOUS
<1>1. TypeOK
  <2>1. alive \in BOOLEAN BY DEF Init
  <2>2. delayIndex \in 0 .. LastDelay /\ slept \in 0 .. LastDelay /\ failures \in 0 .. LastDelay + 1
    BY LastDelayAssumption DEF Init
  <2> QED BY <2>1, <2>2 DEF Init, TypeOK
<1>2. BackoffGrows BY LastDelayAssumption DEF Init, BackoffGrows, Lesser
<1>3. ConnectionCarriesDesired /\ FreshConnection /\ ReplayCoversDesired /\ StreamingReset
  BY DEF Init, ConnectionCarriesDesired, FreshConnection, ReplayCoversDesired, StreamingReset
<1> QED BY <1>1, <1>2, <1>3 DEF ClientInvariant

LEMMA StepHolds == ClientInvariant /\ [Next]_vars => ClientInvariant'
<1> USE LastDelayAssumption
    DEF ClientInvariant, TypeOK, ConnectionCarriesDesired, BackoffGrows, FreshConnection,
        ReplayCoversDesired, StreamingReset, Lesser, connVars, backoffVars, callerVars
<1> SUFFICES ASSUME ClientInvariant, [Next]_vars PROVE ClientInvariant'
  OBVIOUS
<1>1. CASE Connect BY <1>1 DEF Connect
<1>2. CASE ConnectFails BY <1>2 DEF ConnectFails, BackOff
<1>3. CASE ObtainKey BY <1>3 DEF ObtainKey
<1>4. CASE KeyFails BY <1>4 DEF KeyFails, BackOff
<1>5. CASE Stream BY <1>5 DEF Stream
<1>6. CASE Disconnect BY <1>6 DEF Disconnect
<1>7. CASE Wake BY <1>7 DEF Wake
<1>8. CASE Break BY <1>8 DEF Break
<1>9. ASSUME NEW s \in Symbols, Send(s) PROVE ClientInvariant' BY <1>9 DEF Send
<1>10. ASSUME NEW s \in Symbols, SendFails(s) PROVE ClientInvariant' BY <1>10 DEF SendFails
<1>11. ASSUME NEW s \in Symbols, Subscribe(s) PROVE ClientInvariant' BY <1>11 DEF Subscribe
<1>12. ASSUME NEW s \in Symbols, Unsubscribe(s) PROVE ClientInvariant' BY <1>12 DEF Unsubscribe
<1>13. CASE UNCHANGED vars BY <1>13 DEF vars
<1> QED
  BY <1>1, <1>2, <1>3, <1>4, <1>5, <1>6, <1>7, <1>8, <1>9, <1>10, <1>11, <1>12, <1>13 DEF Next

\* The inductive invariant holds whatever callers and the connection do.
THEOREM ClientInvariantHolds == Spec => []ClientInvariant
BY InitHolds, StepHolds, PTL DEF Spec

\* The state is well typed: however many attempts fail in a row, the index of
\* the delay never runs past the table of delays (kis/ws.rs).
THEOREM ClientTypeCorrect == Spec => []TypeOK
<1>1. ClientInvariant => TypeOK BY DEF ClientInvariant
<1> QED BY <1>1, ClientInvariantHolds, PTL

\* No subscription is lost between a caller and a replay that run at the same
\* time (the lock of kis/ws.rs:378).
THEOREM ConnectionIsCurrent == Spec => []ConnectionCarriesDesired
<1>1. ClientInvariant => ConnectionCarriesDesired BY DEF ClientInvariant
<1> QED BY <1>1, ClientInvariantHolds, PTL

\* The backoff is the capped one, over both ways an attempt fails.
THEOREM BackoffIsCapped == Spec => []BackoffGrows
<1>1. ClientInvariant => BackoffGrows BY DEF ClientInvariant
<1> QED BY <1>1, ClientInvariantHolds, PTL
=============================================================================
