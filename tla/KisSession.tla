----------------------------- MODULE KisSession -----------------------------
(***************************************************************************)
(* One session with the KIS REST interface: KisBroker (kis/broker.rs) over *)
(* KisRestClient (kis/rest.rs) over KisAuth (kis/auth.rs), used by several *)
(* callers at once: the runtime, the web controls, a backfill.             *)
(*                                                                         *)
(* Every call takes an access token from the shared cache, or issues one,  *)
(* and the cache is not locked between the two.  A request that is         *)
(* answered 401 or 403 drops the cached token and is sent once more; any   *)
(* other failure ends the call.  The venue is external: it answers in the  *)
(* ways the code tells apart, and may act on a request whose answer is     *)
(* lost, or act on it late.                                                *)
(***************************************************************************)
EXTENDS Naturals, FiniteSets

CONSTANTS
  Callers,
  Tokens,       \* identities of access tokens
  NoToken,
  PageLimit,    \* pages of positions fetch_positions reads at most (20)
  MaxPages      \* bound on the pages the venue has

ASSUME SessionAssumption ==
  /\ NoToken \notin Tokens
  /\ PageLimit \in Nat \ {0}
  /\ MaxPages \in Nat \ {0}
  /\ IsFiniteSet(Callers) /\ IsFiniteSet(Tokens)
  \* One for the cache, two for each other caller, and its own refused one are
  \* in use at most when one is issued: there is always one more.
  /\ Cardinality(Tokens) > 2 * Cardinality(Callers)

\* "lookup": execution_report and quote, which change nothing anywhere.
Kinds == {"submit", "cancel", "positions", "lookup"}

VARIABLES
  cache,       \* KisAuth.cache: a token outside the margin of its expiry, or NoToken
  calls,       \* [Callers -> the caller's call]
  context,     \* KisBroker.order_context: orders this session submitted
  placed,      \* [Callers -> how often the venue placed the order of this caller]
  late,        \* submissions the venue may still act on
  pages        \* pages of positions the venue has

sessionVars == <<cache, calls, context, placed, late, pages>>
venueVars == <<placed, late, pages>>

\* Each caller submits one order at most: an order is named by its caller.
Idle ==
  [pc       |-> "idle",     \* "idle", "token", "issuing", "caching", "sending"
   kind     |-> "lookup",
   token    |-> NoToken,    \* the token of the request under way
   refused  |-> NoToken,    \* history: the token the venue answered 401 to
   reissued |-> FALSE,      \* this request was sent before
   rows     |-> 0,          \* pages of positions read
   outcome  |-> "none"]     \* "ok", "rejected" (ApiReject) or "internal"

Init ==
  /\ cache = NoToken
  /\ calls = [c \in Callers |-> Idle]
  /\ context = {}
  /\ placed = [c \in Callers |-> 0]
  /\ late = {}
  /\ pages \in 1 .. MaxPages

Call(c) == calls[c]
InUse == {cache} \cup {calls[c].token : c \in Callers} \cup {calls[c].refused : c \in Callers}

\* The call of c ends; what it returned is kept for the kinds of call the
\* properties below are about.
Ended(c, outcome) ==
  IF Call(c).kind \in {"submit", "positions"}
    THEN [Idle EXCEPT !.kind = Call(c).kind, !.outcome = outcome]
    ELSE Idle

-----------------------------------------------------------------------------
\* A call begins with a token.
BeginCall(c, kind) ==
  /\ Call(c).pc = "idle"
  /\ calls' = [calls EXCEPT ![c] = [Idle EXCEPT !.pc = "token", !.kind = kind]]
  /\ UNCHANGED <<cache, context, venueVars>>

SubmitOrder(c) == placed[c] = 0 /\ c \notin late /\ BeginCall(c, "submit")

\* A cancellation without context of its order is refused before any request.
CancelOrder(c) == context # {} /\ BeginCall(c, "cancel")

FetchPositions(c) == BeginCall(c, "positions")

\* A quote, or the row of an order of today.
Lookup(c) == BeginCall(c, "lookup")

\* access_token: a cached token outside the margin is taken.
CachedToken(c) ==
  /\ Call(c).pc = "token"
  /\ cache # NoToken
  /\ calls' = [calls EXCEPT ![c].pc = "sending", ![c].token = cache]
  /\ UNCHANGED <<cache, context, venueVars>>

\* Otherwise a new one is asked for, with the cache unlocked.
AskToken(c) ==
  /\ Call(c).pc = "token"
  /\ cache = NoToken
  /\ calls' = [calls EXCEPT ![c].pc = "issuing"]
  /\ UNCHANGED <<cache, context, venueVars>>

\* The venue hands out a token that is none of those in use.
IssueToken(c) ==
  /\ Call(c).pc = "issuing"
  /\ calls' = [calls EXCEPT ![c].pc = "caching",
                            ![c].token = CHOOSE t \in Tokens : t \notin InUse]
  /\ UNCHANGED <<cache, context, venueVars>>

\* Refused credentials, rate limit, server or network error, unusable answer.
IssueFails(c) ==
  /\ Call(c).pc = "issuing"
  /\ calls' = [calls EXCEPT ![c] = Ended(c, "internal")]
  /\ UNCHANGED <<cache, context, venueVars>>

CacheToken(c) ==
  /\ Call(c).pc = "caching"
  /\ cache' = Call(c).token
  /\ calls' = [calls EXCEPT ![c].pc = "sending"]
  /\ UNCHANGED <<context, venueVars>>

\* The clock passes expires_at - margin: to access_token that is no token.
TokenAges ==
  /\ cache' = NoToken
  /\ UNCHANGED <<calls, context, venueVars>>

-----------------------------------------------------------------------------
\* The answers to a request.  The venue acts on it in the same step, unless
\* the answer is lost.

\* What the venue does with a submission; cancelling one twice is no matter.
VenueActs(c) ==
  /\ placed' = IF Call(c).kind = "submit" THEN [placed EXCEPT ![c] = @ + 1] ELSE placed
  /\ UNCHANGED <<late, pages>>

\* 401 or 403 without dropping the token (mutant).
UnauthorizedKept(c) ==
  /\ Call(c).pc = "sending"
  /\ calls' = [calls EXCEPT ![c] =
       IF Call(c).reissued THEN Ended(c, "internal")
       ELSE [Call(c) EXCEPT !.pc = "token", !.reissued = TRUE, !.refused = Call(c).token,
                              !.token = NoToken]]
  /\ UNCHANGED <<cache, context, venueVars>>

\* 401 or 403, whatever the reason: the first drops whichever token is
\* cached and starts over, the second gives up.
Unauthorized(c) ==
  /\ Call(c).pc = "sending"
  /\ IF Call(c).reissued
       THEN /\ calls' = [calls EXCEPT ![c] = Ended(c, "internal")]
            /\ UNCHANGED cache
       ELSE /\ calls' = [calls EXCEPT ![c].pc = "token", ![c].reissued = TRUE,
                                      ![c].refused = Call(c).token,
                                      ![c].token = NoToken]
            /\ cache' = NoToken
  /\ UNCHANGED <<context, venueVars>>

\* 200 with rt_cd other than 0: a definitive rejection.
Rejected(c) ==
  /\ Call(c).pc = "sending"
  /\ calls' = [calls EXCEPT ![c] = Ended(c, "rejected")]
  /\ UNCHANGED <<cache, context, venueVars>>

\* A failure that is tried again (mutant).
UnusableRetried(c) ==
  /\ Call(c).pc = "sending"
  /\ VenueActs(c)
  /\ calls' = [calls EXCEPT ![c] =
       IF Call(c).reissued THEN Ended(c, "internal") ELSE [Call(c) EXCEPT !.reissued = TRUE]]
  /\ UNCHANGED <<cache, context>>

\* 429, 5xx, a transport error, or an answer that cannot be used: the venue
\* may have acted, not have acted, or act later.
Unusable(c) ==
  /\ Call(c).pc = "sending"
  /\ \/ VenueActs(c)
     \/ UNCHANGED venueVars
     \/ /\ Call(c).kind = "submit"
        /\ late' = late \cup {c}
        /\ UNCHANGED <<placed, pages>>
  /\ calls' = [calls EXCEPT ![c] = Ended(c, "internal")]
  /\ UNCHANGED <<cache, context>>

\* fetch_positions that reads on to the venue's last page (mutant).
MorePagesUnlimited(rows) == rows < pages

\* fetch_positions that stops a page before the limit (mutant).
MorePagesShort(rows) == rows < pages /\ rows + 1 < PageLimit

\* fetch_positions goes on while the answer says so and the limit allows.
MorePages(rows) == rows < pages /\ rows < PageLimit

\* 200 with rt_cd 0.  A submission stores the order's context; a page of
\* positions may have a next one, which is a request of its own.
Answered(c) ==
  LET kind == Call(c).kind
      rows == Call(c).rows + 1
  IN
  /\ Call(c).pc = "sending"
  /\ VenueActs(c)
  /\ calls' = [calls EXCEPT ![c] =
       CASE kind = "positions" /\ MorePages(rows) ->
              [Call(c) EXCEPT !.pc = "token", !.rows = rows, !.reissued = FALSE,
                              !.refused = NoToken, !.token = NoToken]
         [] kind = "positions" /\ ~MorePages(rows) ->
              [Ended(c, "ok") EXCEPT !.rows = rows]
         [] OTHER -> Ended(c, "ok")]
  /\ context' = IF kind = "submit" THEN context \cup {c} ELSE context
  /\ UNCHANGED cache

-----------------------------------------------------------------------------
\* The venue on its own.

LateOrder(c) ==
  /\ c \in late
  /\ late' = late \ {c}
  /\ placed' = [placed EXCEPT ![c] = @ + 1]
  /\ UNCHANGED <<cache, calls, context, pages>>

\* The process goes down: tokens, contexts and calls are gone.
Restart ==
  /\ cache' = NoToken
  /\ calls' = [c \in Callers |-> Idle]
  /\ context' = {}
  /\ UNCHANGED venueVars

Step(c) ==
  \/ CachedToken(c) \/ AskToken(c) \/ IssueToken(c) \/ IssueFails(c) \/ CacheToken(c)
  \/ Unauthorized(c) \/ Rejected(c) \/ Unusable(c) \/ Answered(c)

Next ==
  \/ \E c \in Callers :
       \/ SubmitOrder(c) \/ CancelOrder(c) \/ FetchPositions(c) \/ Lookup(c)
       \/ Step(c) \/ LateOrder(c)
  \/ TokenAges \/ Restart

Spec == Init /\ [][Next]_sessionVars

-----------------------------------------------------------------------------
CallRecord ==
  [pc : {"idle", "token", "issuing", "caching", "sending"}, kind : Kinds,
   token : Tokens \cup {NoToken}, refused : Tokens \cup {NoToken}, reissued : BOOLEAN,
   rows : 0 .. PageLimit, outcome : {"none", "ok", "rejected", "internal"}]

TypeOK ==
  /\ cache \in Tokens \cup {NoToken}
  /\ calls \in [Callers -> CallRecord]
  /\ context \subseteq Callers
  /\ placed \in [Callers -> Nat]
  /\ late \subseteq Callers
  /\ pages \in 1 .. MaxPages

\* What the runtime builds on (broker/mod.rs): a submission that is
\* acknowledged has placed one order, one that is rejected none and never
\* will, and one without a definitive answer at most one, though the request
\* is sent again after a 401 (rest.rs:139-143, 34-41).
DefinitiveAnswers ==
  \A c \in Callers :
    /\ placed[c] + Cardinality(late \cap {c}) <= 1
    /\ Call(c).kind = "submit" /\ Call(c).outcome = "ok" => placed[c] = 1
    /\ Call(c).kind = "submit" /\ Call(c).outcome = "rejected" =>
         placed[c] = 0 /\ c \notin late
    /\ c \in context => placed[c] = 1

\* "401 -> one token re-issue then retry" (rest.rs:5): the request is sent
\* again with another token than the one just refused, though other callers
\* issue, cache and drop tokens in between (auth.rs:131-151, rest.rs:139-143).
RetryUsesAnotherToken ==
  \A c \in Callers :
    Call(c).pc = "sending" /\ Call(c).reissued => Call(c).token # Call(c).refused

\* Positions that are returned are those of every page, once, up to the
\* limit; a rejection or failure of any page returns none (rest.rs:288-328).
PositionsWhole ==
  \A c \in Callers :
    Call(c).kind = "positions" /\ Call(c).outcome = "ok" =>
      Call(c).rows = IF pages < PageLimit THEN pages ELSE PageLimit
=============================================================================
