--------------------------- MODULE KisMarketData ---------------------------
(***************************************************************************)
(* The market-data client of kis/ws.rs: one task connects, obtains an      *)
(* approval key, replays the desired subscriptions, streams until the      *)
(* connection breaks, and starts over with a capped backoff.  Beside it    *)
(* callers subscribe and unsubscribe, and the connection may break at any  *)
(* moment.                                                                 *)
(*                                                                         *)
(* The lock on the desired set is held for the whole replay (the guard of  *)
(* its for loop lives as long as the loop), so no caller changes the set   *)
(* meanwhile.  Delays are their positions in reconnect_delays.  Frames and *)
(* keepalives are left out: receiving one changes nothing here.            *)
(***************************************************************************)
EXTENDS Naturals

CONSTANTS
  Symbols,     \* symbols a caller may ask for
  LastDelay    \* the last position of reconnect_delays (5 in the code)

ASSUME LastDelayAssumption == LastDelay \in Nat

VARIABLES
  stage,       \* where run() stands
  desired,     \* the desired set
  delayIndex,  \* delay_index
  slept,       \* the delay being slept, as its position
  todo,        \* symbols the replay has still to send
  alive,       \* does the current connection still work?
  subscribed,  \* what the venue streams on the current connection
  failures,    \* history variable: failed attempts since the last replay,
               \* counted up to LastDelay + 1
  asked,       \* history variable: symbols subscribed since the last replay
  dropped      \* history variable: symbols unsubscribed since then

connVars == <<todo, alive, subscribed>>
backoffVars == <<delayIndex, slept, failures>>
callerVars == <<desired, asked, dropped>>
vars == <<stage, connVars, backoffVars, callerVars>>

Lesser(m, n) == IF m < n THEN m ELSE n

Init ==
  /\ stage = "connecting"
  /\ desired = {} /\ asked = {} /\ dropped = {}
  /\ delayIndex = 0 /\ slept = 0 /\ failures = 0
  /\ todo = {} /\ alive = FALSE /\ subscribed = {}

\* subscribe() during a replay that works on a copy of the set (mutant).
SubscribeUnlocked(s) ==
  /\ desired' = desired \cup {s}
  /\ asked' = asked \cup {s}
  /\ UNCHANGED <<stage, connVars, backoffVars, dropped>>

\* subscribe() and unsubscribe(): only the set changes.
Subscribe(s) ==
  /\ stage # "replaying"
  /\ desired' = desired \cup {s}
  /\ asked' = asked \cup {s}
  /\ UNCHANGED <<stage, connVars, backoffVars, dropped>>

Unsubscribe(s) ==
  /\ stage # "replaying"
  /\ desired' = desired \ {s}
  /\ dropped' = dropped \cup {s}
  /\ UNCHANGED <<stage, connVars, backoffVars, asked>>

\* The delay starts over with every connection (mutant).
ConnectResetting ==
  /\ stage = "connecting"
  /\ stage' = "keying"
  /\ alive' = TRUE
  /\ subscribed' = {}
  /\ delayIndex' = 0
  /\ UNCHANGED <<todo, slept, failures, callerVars>>

Connect ==
  /\ stage = "connecting"
  /\ stage' = "keying"
  /\ alive' = TRUE
  /\ subscribed' = {}
  /\ UNCHANGED <<todo, backoffVars, callerVars>>

\* The delays run out (mutant).
BackOffUncapped ==
  /\ stage' = "backoff"
  /\ slept' = delayIndex
  /\ delayIndex' = delayIndex + 1
  /\ failures' = Lesser(failures + 1, LastDelay + 1)

\* A failed attempt: sleep the present delay and move on to the next one.
BackOff ==
  /\ stage' = "backoff"
  /\ slept' = delayIndex
  /\ delayIndex' = Lesser(delayIndex + 1, LastDelay)
  /\ failures' = Lesser(failures + 1, LastDelay + 1)

ConnectFails ==
  /\ stage = "connecting"
  /\ BackOff
  /\ UNCHANGED <<connVars, callerVars>>

\* No approval key: the new connection stays open, unused, for the sleep.
KeyFails ==
  /\ stage = "keying"
  /\ BackOff
  /\ UNCHANGED <<connVars, callerVars>>

\* Only what was asked for since the last replay is sent (mutant).
ObtainKeyNewOnly ==
  /\ stage = "keying"
  /\ stage' = "replaying"
  /\ todo' = desired \cap asked
  /\ UNCHANGED <<alive, subscribed, backoffVars, callerVars>>

\* The approval key came; the replay locks the desired set.
ObtainKey ==
  /\ stage = "keying"
  /\ stage' = "replaying"
  /\ todo' = desired
  /\ UNCHANGED <<alive, subscribed, backoffVars, callerVars>>

\* The next subscription is sent.  On a connection that has just broken a send
\* may still look successful.
Send(s) ==
  /\ stage = "replaying"
  /\ s \in todo
  /\ todo' = todo \ {s}
  /\ subscribed' = IF alive THEN subscribed \cup {s} ELSE subscribed
  /\ UNCHANGED <<stage, alive, backoffVars, callerVars>>

\* A send fails, because the connection is broken: the replay ends here.
SendFails(s) ==
  /\ stage = "replaying"
  /\ s \in todo
  /\ ~alive
  /\ todo' = {}
  /\ UNCHANGED <<stage, alive, subscribed, backoffVars, callerVars>>

\* The replay is over, complete or not: the lock is released, the delay starts
\* over, and the client receives.
Stream ==
  /\ stage = "replaying"
  /\ todo = {}
  /\ stage' = "streaming"
  /\ delayIndex' = 0
  /\ failures' = 0
  /\ asked' = {} /\ dropped' = {}
  /\ UNCHANGED <<connVars, slept, desired>>

\* recv fails: sleep the first delay.
Disconnect ==
  /\ stage = "streaming"
  /\ ~alive
  /\ stage' = "backoff"
  /\ slept' = 0
  /\ UNCHANGED <<connVars, delayIndex, failures, callerVars>>

\* The sleep is over; what connection there was is dropped.
Wake ==
  /\ stage = "backoff"
  /\ stage' = "connecting"
  /\ alive' = FALSE
  /\ UNCHANGED <<todo, subscribed, backoffVars, callerVars>>

\* The connection breaks.
Break ==
  /\ alive
  /\ alive' = FALSE
  /\ subscribed' = {}
  /\ UNCHANGED <<stage, todo, backoffVars, callerVars>>

Next ==
  \/ Connect \/ ConnectFails \/ ObtainKey \/ KeyFails
  \/ Stream \/ Disconnect \/ Wake \/ Break
  \/ \E s \in Symbols : Send(s) \/ SendFails(s) \/ Subscribe(s) \/ Unsubscribe(s)

Spec == Init /\ [][Next]_vars

\* The task runs, a sleep ends, and a broken connection makes recv fail in the
\* end: recv has no timeout, so the code leaves this to the transport.  The
\* venue can be reached: attempts do not all fail, nor do all connections
\* break before the key, or before the same symbol has been sent.
Fairness ==
  /\ WF_vars(Stream) /\ WF_vars(Disconnect) /\ WF_vars(Wake)
  /\ WF_vars(Connect \/ ConnectFails) /\ WF_vars(ObtainKey \/ KeyFails)
  /\ SF_vars(Connect) /\ SF_vars(alive /\ ObtainKey)
  /\ \A s \in Symbols :
       WF_vars(Send(s) \/ SendFails(s)) /\ SF_vars(alive /\ Send(s))

FairSpec == Spec /\ Fairness

-----------------------------------------------------------------------------
TypeOK ==
  /\ stage \in {"connecting", "keying", "replaying", "streaming", "backoff"}
  /\ desired \subseteq Symbols /\ todo \subseteq Symbols /\ subscribed \subseteq Symbols
  /\ asked \subseteq Symbols /\ dropped \subseteq Symbols
  /\ delayIndex \in 0 .. LastDelay /\ slept \in 0 .. LastDelay
  /\ failures \in 0 .. LastDelay + 1
  /\ alive \in BOOLEAN

\* A working connection that streams carries the desired set, except for what
\* callers changed since its replay: no subscription is lost between a caller
\* and a replay that run at the same time, and none survives from before.
ConnectionCarriesDesired ==
  stage = "streaming" /\ alive =>
    /\ desired \ subscribed \subseteq asked
    /\ subscribed \ desired \subseteq dropped

\* The client waits longer with each failed attempt in a row, up to the cap,
\* whichever step of the attempt failed, and starts over only after a replay
\* ("the loop reconnects with capped backoff", kis/ws.rs:352).
BackoffGrows ==
  /\ delayIndex = Lesser(failures, LastDelay)
  /\ stage = "backoff" => slept = Lesser(IF failures = 0 THEN 0 ELSE failures - 1, LastDelay)

\* A connection starts with nothing streamed on it.
FreshConnection == stage = "keying" => subscribed = {}

\* During a replay the desired set is what was sent and what is left to send:
\* the lock keeps callers out.
ReplayCoversDesired == stage = "replaying" /\ alive => desired = subscribed \cup todo

\* A client that streams has no failed attempt behind it.
StreamingReset == stage = "streaming" => failures = 0

\* The inductive invariant.
ClientInvariant ==
  /\ TypeOK /\ ConnectionCarriesDesired /\ BackoffGrows
  /\ FreshConnection /\ ReplayCoversDesired /\ StreamingReset

\* "A reconnect replays them, so losing a connection can never silently stop
\* market data" (kis/ws.rs:9-12): without a connection, a desired symbol is
\* streamed again in the end, unless it is given up.
Resubscribed ==
  \A s \in Symbols :
    s \in desired /\ ~alive ~> s \in subscribed \/ s \notin desired
=============================================================================
