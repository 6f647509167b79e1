--------------------------- MODULE OrderLifecycle ---------------------------
(***************************************************************************)
(* What the execution layer promises about one order, whatever the         *)
(* interleaving of its own steps with the venue's (docs/architecture.md    *)
(* section 3, doc/wiki/concepts/order-lifecycle.md): the venue is the      *)
(* source of truth; the local status is a belief that                      *)
(*   - becomes "working" only once the venue has taken the order,          *)
(*   - becomes final only when the venue's order is, and with its outcome, *)
(*   - never changes once final, and is "unknown", not failed, when no     *)
(*     definitive answer came;                                             *)
(* and no order exists at the venue that was not submitted.                *)
(***************************************************************************)
CONSTANT Orders

VARIABLES
  truth,    \* [Orders -> what has become of the order at the venue]
  belief    \* [Orders -> what the process holds about it]

lifecycleVars == <<truth, belief>>

Truths == {"absent", "refused", "working", "filled", "cancelled"}
Beliefs == {"none", "pending", "unknown", "working", "filled", "cancelled", "rejected"}

Closed == {"filled", "cancelled"}

LifecycleTypeOK ==
  /\ truth \in [Orders -> Truths]
  /\ belief \in [Orders -> Beliefs]

LifecycleInit ==
  /\ truth = [o \in Orders |-> "absent"]
  /\ belief = [o \in Orders |-> "none"]

Believe(o, b) ==
  /\ belief' = [belief EXCEPT ![o] = b]
  /\ UNCHANGED truth

Happen(o, t) ==
  /\ truth' = [truth EXCEPT ![o] = t]
  /\ UNCHANGED belief

Submit(o) == belief[o] = "none" /\ Believe(o, "pending")

\* The venue answers, possibly long after the process gave up waiting.
TakeOrder(o) ==
  /\ truth[o] = "absent" /\ belief[o] # "none"
  /\ \E t \in {"working", "refused"} : Happen(o, t)

CloseOrder(o) ==
  /\ truth[o] = "working"
  /\ \E t \in Closed : Happen(o, t)

Acknowledge(o) ==
  /\ belief[o] = "pending" /\ truth[o] \in {"working"} \cup Closed
  /\ Believe(o, "working")

Reject(o) ==
  /\ belief[o] = "pending" /\ truth[o] = "refused"
  /\ Believe(o, "rejected")

LoseTrack(o) == belief[o] = "pending" /\ Believe(o, "unknown")

Settle(o) ==
  /\ belief[o] = "working" /\ truth[o] \in Closed
  /\ Believe(o, truth[o])

LifecycleNext ==
  \E o \in Orders :
    \/ Submit(o) \/ TakeOrder(o) \/ CloseOrder(o) \/ Acknowledge(o)
    \/ Reject(o) \/ LoseTrack(o) \/ Settle(o)

LifecycleSafety == LifecycleInit /\ [][LifecycleNext]_lifecycleVars

\* An acknowledged order the venue has closed is eventually settled.
LifecycleSpec == LifecycleSafety /\ \A o \in Orders : WF_lifecycleVars(Settle(o))

\* What follows from the contract: a final belief is the venue's outcome.
BeliefIsTrue ==
  \A o \in Orders :
    /\ belief[o] \in Closed => truth[o] = belief[o]
    /\ belief[o] = "rejected" => truth[o] = "refused"
    /\ belief[o] = "none" => truth[o] = "absent"
=============================================================================
