-------------------------- MODULE KisSessionProofs --------------------------
(***************************************************************************)
(* Proofs about KisSession, for any number of callers, tokens and pages.   *)
(* That a retry never uses the token just refused rests on one fact: a     *)
(* token that is issued and not yet cached is known to its caller alone    *)
(* (IssuedPrivate), so that nobody can put a refused one back in the cache.*)
(***************************************************************************)
EXTENDS KisSession, FiniteSetTheorems, TLAPS

\* A caller holds a token exactly from its issue, or from the cache, on.
TokensHeld ==
  \A c \in Callers :
    /\ Call(c).pc \in {"caching", "sending"} <=> Call(c).token # NoToken
    /\ Call(c).pc = "idle" => Call(c).refused = NoToken

\* What is not cached yet is neither in the cache nor with another caller, and
\* has been refused to nobody.
IssuedPrivate ==
  \A c \in Callers : Call(c).pc = "caching" =>
    /\ Call(c).token # cache
    /\ \A d \in Callers :
         /\ d # c => Call(d).token # Call(c).token
         /\ Call(d).refused # Call(c).token

\* A refused token is neither cached nor used again by the call it was
\* refused to.
RefusedGone ==
  \A c \in Callers : Call(c).refused # NoToken =>
    Call(c).refused # cache /\ Call(c).refused # Call(c).token

ReissuedRefused ==
  \A c \in Callers : Call(c).reissued /\ Call(c).pc # "idle" => Call(c).refused # NoToken

TokenInvariant == TokensHeld /\ IssuedPrivate /\ RefusedGone /\ ReissuedRefused

\* A submission under way has no order yet, and none to come.
OrdersCounted ==
  \A c \in Callers :
    /\ placed[c] \in {0, 1}
    /\ c \in late => placed[c] = 0
    /\ Call(c).kind = "submit" /\ Call(c).pc # "idle" => placed[c] = 0 /\ c \notin late
    /\ Call(c).kind = "submit" /\ Call(c).outcome = "ok" => placed[c] = 1
    /\ Call(c).kind = "submit" /\ Call(c).outcome = "rejected" =>
         placed[c] = 0 /\ c \notin late
    /\ c \in context => placed[c] = 1

\* A call under way has no outcome yet, and has read less than there is.
PagesCounted ==
  \A c \in Callers :
    /\ Call(c).pc # "idle" =>
         Call(c).outcome = "none" /\ Call(c).rows < pages /\ Call(c).rows < PageLimit
    /\ Call(c).kind = "positions" /\ Call(c).outcome = "ok" =>
         Call(c).rows = IF pages < PageLimit THEN pages ELSE PageLimit

SessionInvariant == TypeOK /\ TokenInvariant /\ OrdersCounted /\ PagesCounted

LEMMA IdleTyped == Idle \in CallRecord
BY SessionAssumption DEF Idle, CallRecord, Kinds

\* The values a function takes are no more than its arguments.
LEMMA ImageSmaller ==
  ASSUME NEW S, IsFiniteSet(S), NEW f, f = [x \in S |-> f[x]]
  PROVE  /\ IsFiniteSet({f[x] : x \in S})
         /\ Cardinality({f[x] : x \in S}) <= Cardinality(S)
<1>1. f \in Surjection(S, {f[x] : x \in S}) BY DEF Surjection
<1> QED BY <1>1, FS_Surjection

\* There is always a token that is not in use when one is issued: the others
\* hold at most one each, at most one each has been refused, one is cached.
LEMMA FreshToken ==
  ASSUME TypeOK, TokensHeld, NEW c \in Callers, Call(c).pc = "issuing"
  PROVE  \E t \in Tokens : t \notin InUse
<1> DEFINE Others == Callers \ {c}
           held == [d \in Others |-> calls[d].token]
           refused == [d \in Callers |-> calls[d].refused]
           Held == {held[d] : d \in Others}
           Refused == {refused[d] : d \in Callers}
           Both == Held \cup Refused
           Used == Both \cup {cache}
<1>1. IsFiniteSet(Callers) /\ IsFiniteSet(Tokens) /\ Cardinality(Tokens) > 2 * Cardinality(Callers)
  BY SessionAssumption
<1>2. Cardinality(Callers) \in Nat /\ Cardinality(Tokens) \in Nat
  BY <1>1, FS_CardinalityType
<1>3. IsFiniteSet(Others) /\ Cardinality(Others) = Cardinality(Callers) - 1
  BY <1>1, FS_RemoveElement
<1>4. IsFiniteSet(Held) /\ Cardinality(Held) <= Cardinality(Others)
  <2> HIDE DEF Others
  <2> QED BY <1>3, ImageSmaller
<1>5. IsFiniteSet(Refused) /\ Cardinality(Refused) <= Cardinality(Callers)
  BY <1>1, ImageSmaller
<1>6. /\ Cardinality(Held) \in Nat /\ Cardinality(Refused) \in Nat
      /\ Cardinality(Held \cap Refused) \in Nat
  <2>1. IsFiniteSet(Held \cap Refused) BY <1>4, FS_Intersection
  <2> QED BY <2>1, <1>4, <1>5, FS_CardinalityType
<1>7. /\ IsFiniteSet(Both)
      /\ Cardinality(Both) = Cardinality(Held) + Cardinality(Refused) - Cardinality(Held \cap Refused)
  <2> HIDE DEF Held, Refused
  <2> QED BY <1>4, <1>5, FS_Union
<1>8. IsFiniteSet(Used) /\ Cardinality(Used) <= Cardinality(Both) + 1
  <2> HIDE DEF Both
  <2>1. Cardinality(Both) \in Nat BY <1>7, FS_CardinalityType
  <2>2. /\ IsFiniteSet(Both \cup {cache})
        /\ Cardinality(Both \cup {cache}) = IF cache \in Both THEN Cardinality(Both) ELSE Cardinality(Both) + 1
    BY <1>7, FS_AddElement
  <2> QED BY <2>1, <2>2
<1>9. Cardinality(Used) \in Nat BY <1>8, FS_CardinalityType
<1>10. Cardinality(Used) < Cardinality(Tokens)
  <2> HIDE DEF Held, Refused, Others, Both, Used
  <2> QED BY <1>1, <1>2, <1>3, <1>4, <1>5, <1>6, <1>7, <1>8, <1>9
<1>11. ~(Tokens \subseteq Used)
  <2> HIDE DEF Used
  <2> QED BY <1>2, <1>8, <1>9, <1>10, FS_Subset
<1>12. PICK t \in Tokens : t \notin Used BY <1>11
<1>13. t \notin InUse
  <2>1. t # NoToken BY SessionAssumption
  <2>2. calls[c].token = NoToken BY DEF TokensHeld, Call
  <2> QED BY <1>12, <2>1, <2>2 DEF InUse
<1> QED BY <1>12, <1>13

-----------------------------------------------------------------------------
\* So the token that the venue hands out is none of those in use.
LEMMA IssuedFresh ==
  ASSUME TypeOK, TokensHeld, NEW c \in Callers, IssueToken(c)
  PROVE  \E t \in Tokens :
           /\ t \notin InUse
           /\ calls' = [calls EXCEPT ![c].pc = "caching", ![c].token = t]
<1> DEFINE t == CHOOSE t \in Tokens : t \notin InUse
<1>1. t \in Tokens /\ t \notin InUse BY FreshToken DEF IssueToken
<1>2. calls' = [calls EXCEPT ![c].pc = "caching", ![c].token = t] BY DEF IssueToken
<1> HIDE DEF t
<1> QED BY <1>1, <1>2

LEMMA InitHolds == Init => SessionInvariant
<1> SUFFICES ASSUME Init PROVE SessionInvariant
  OBVIOUS
<1> USE SessionAssumption
<1>1. TypeOK BY IdleTyped DEF Init, TypeOK
<1>2. \A c \in Callers : calls[c] = Idle BY DEF Init
<1>3. TokenInvariant
  BY <1>2 DEF Init, TokenInvariant, TokensHeld, IssuedPrivate, RefusedGone, ReissuedRefused, Call, Idle
<1>4. OrdersCounted BY <1>2 DEF Init, OrdersCounted, Call, Idle
<1>5. PagesCounted BY <1>2 DEF Init, PagesCounted, Call, Idle
<1> QED BY <1>1, <1>3, <1>4, <1>5 DEF SessionInvariant

\* A call that has ended is a call record.
LEMMA EndedTyped ==
  ASSUME TypeOK, NEW c \in Callers, NEW o \in {"none", "ok", "rejected", "internal"}
  PROVE  Ended(c, o) \in CallRecord
<1>1. calls[c].kind \in Kinds BY DEF TypeOK, CallRecord
<1>2. [Idle EXCEPT !.kind = calls[c].kind, !.outcome = o] \in CallRecord
  BY <1>1, IdleTyped DEF CallRecord
<1> QED BY <1>2, IdleTyped DEF Ended, Call

LEMMA TypesKept ==
  ASSUME SessionInvariant, [Next]_sessionVars
  PROVE  TypeOK'
<1> USE SessionAssumption DEF SessionInvariant, TypeOK, venueVars, sessionVars
<1>1. ASSUME NEW c \in Callers, NEW k \in Kinds, BeginCall(c, k) PROVE TypeOK'
  <2>1. [Idle EXCEPT !.pc = "token", !.kind = k] \in CallRecord
    BY IdleTyped DEF CallRecord
  <2> QED BY <1>1, <2>1 DEF BeginCall
<1>2. ASSUME NEW c \in Callers, CachedToken(c) PROVE TypeOK'
  <2>1. [calls[c] EXCEPT !.pc = "sending", !.token = cache] \in CallRecord
    BY DEF CallRecord
  <2>2. calls' = [calls EXCEPT ![c] = [calls[c] EXCEPT !.pc = "sending", !.token = cache]]
    BY <1>2 DEF CachedToken
  <2> QED BY <1>2, <2>1, <2>2 DEF CachedToken
<1>3. ASSUME NEW c \in Callers, AskToken(c) PROVE TypeOK'
  BY <1>3 DEF AskToken, CallRecord
<1>4. ASSUME NEW c \in Callers, IssueToken(c) PROVE TypeOK'
  <2>1. PICK t \in Tokens : calls' = [calls EXCEPT ![c].pc = "caching", ![c].token = t]
    BY <1>4, IssuedFresh DEF TokenInvariant
  <2>2. [calls[c] EXCEPT !.pc = "caching", !.token = t] \in CallRecord BY DEF CallRecord
  <2>3. calls' = [calls EXCEPT ![c] = [calls[c] EXCEPT !.pc = "caching", !.token = t]] BY <2>1
  <2> QED BY <1>4, <2>2, <2>3 DEF IssueToken
<1>5. ASSUME NEW c \in Callers, IssueFails(c) PROVE TypeOK'
  BY <1>5, EndedTyped DEF IssueFails
<1>6. ASSUME NEW c \in Callers, CacheToken(c) PROVE TypeOK'
  BY <1>6 DEF CacheToken, CallRecord, Call
<1>7. ASSUME NEW c \in Callers, Unauthorized(c) PROVE TypeOK'
  <2>1. calls[c].token \in Tokens \cup {NoToken} BY DEF CallRecord
  <2>2. CASE Call(c).reissued BY <1>7, <2>2, EndedTyped DEF Unauthorized
  <2>3. CASE ~Call(c).reissued BY <1>7, <2>1, <2>3 DEF Unauthorized, CallRecord, Call
  <2> QED BY <2>2, <2>3
<1>8. ASSUME NEW c \in Callers, Rejected(c) PROVE TypeOK'
  BY <1>8, EndedTyped DEF Rejected
<1>9. ASSUME NEW c \in Callers, Unusable(c) PROVE TypeOK'
  BY <1>9, EndedTyped DEF Unusable, VenueActs
<1>10. ASSUME NEW c \in Callers, Answered(c) PROVE TypeOK'
  <2>1. calls[c].rows + 1 \in 0 .. PageLimit
    BY <1>10 DEF Answered, PagesCounted, CallRecord, Call
  <2>2. calls' \in [Callers -> CallRecord]
    <3>1. [Call(c) EXCEPT !.pc = "token", !.rows = Call(c).rows + 1, !.reissued = FALSE,
                          !.refused = NoToken, !.token = NoToken] \in CallRecord
      BY <2>1 DEF Call, CallRecord
    <3>2. Ended(c, "ok") \in CallRecord BY EndedTyped
    <3>3. [Ended(c, "ok") EXCEPT !.rows = Call(c).rows + 1] \in CallRecord
      BY <2>1, <3>2 DEF Call, CallRecord
    <3> QED BY <1>10, <3>1, <3>2, <3>3 DEF Answered
  <2> QED BY <1>10, <2>2 DEF Answered, VenueActs
<1>11. ASSUME NEW c \in Callers, LateOrder(c) PROVE TypeOK'
  BY <1>11 DEF LateOrder
<1>12. CASE TokenAges BY <1>12 DEF TokenAges
<1>13. CASE Restart BY <1>13, IdleTyped DEF Restart
<1>14. CASE UNCHANGED sessionVars BY <1>14
<1> QED
  BY <1>1, <1>2, <1>3, <1>4, <1>5, <1>6, <1>7, <1>8, <1>9, <1>10, <1>11, <1>12, <1>13, <1>14
     DEF Next, Step, SubmitOrder, CancelOrder, FetchPositions, Lookup, Kinds

\* What the calls are after an action of c: only its own has changed.
LEMMA EndedCall ==
  ASSUME NEW c \in Callers, NEW o
  PROVE  /\ Ended(c, o).pc = "idle" /\ Ended(c, o).token = NoToken
         /\ Ended(c, o).refused = NoToken /\ ~Ended(c, o).reissued
         /\ Ended(c, o).kind = "submit" <=> calls[c].kind = "submit"
         /\ Ended(c, o).kind = "positions" <=> calls[c].kind = "positions"
         /\ calls[c].kind \in {"submit", "positions"} => Ended(c, o).outcome = o
         /\ Ended(c, o).rows = 0
BY DEF Ended, Call, Idle

LEMMA TokensKept ==
  ASSUME SessionInvariant, [Next]_sessionVars
  PROVE  TokenInvariant'
<1> USE SessionAssumption DEF SessionInvariant, TypeOK, venueVars, sessionVars,
      TokenInvariant, TokensHeld, IssuedPrivate, RefusedGone, ReissuedRefused, Call
<1>1. ASSUME NEW c \in Callers, NEW k \in Kinds, BeginCall(c, k) PROVE TokenInvariant'
  BY <1>1 DEF BeginCall, Idle
<1>2. ASSUME NEW c \in Callers, CachedToken(c) PROVE TokenInvariant'
  BY <1>2 DEF CachedToken, CallRecord
<1>3. ASSUME NEW c \in Callers, AskToken(c) PROVE TokenInvariant'
  BY <1>3 DEF AskToken, CallRecord
<1>4. ASSUME NEW c \in Callers, IssueToken(c) PROVE TokenInvariant'
  <2>1. PICK t \in Tokens : t \notin InUse /\ calls' = [calls EXCEPT ![c].pc = "caching", ![c].token = t]
    BY <1>4, IssuedFresh
  <2>2. /\ t # NoToken /\ t # cache
        /\ \A d \in Callers : t # calls[d].token /\ t # calls[d].refused
    BY <2>1 DEF InUse
  <2> QED BY <1>4, <2>1, <2>2 DEF IssueToken, CallRecord
<1>5. ASSUME NEW c \in Callers, IssueFails(c) PROVE TokenInvariant'
  BY <1>5, EndedCall DEF IssueFails
<1>6. ASSUME NEW c \in Callers, CacheToken(c) PROVE TokenInvariant'
  BY <1>6 DEF CacheToken, CallRecord
<1>7. ASSUME NEW c \in Callers, Unauthorized(c) PROVE TokenInvariant'
  <2>1. CASE Call(c).reissued BY <1>7, <2>1, EndedCall DEF Unauthorized
  <2>2. CASE ~Call(c).reissued BY <1>7, <2>2 DEF Unauthorized, CallRecord
  <2> QED BY <2>1, <2>2
<1>8. ASSUME NEW c \in Callers, Rejected(c) PROVE TokenInvariant'
  BY <1>8, EndedCall DEF Rejected
<1>9. ASSUME NEW c \in Callers, Unusable(c) PROVE TokenInvariant'
  BY <1>9, EndedCall DEF Unusable
<1>10. ASSUME NEW c \in Callers, Answered(c) PROVE TokenInvariant'
  <2>1. /\ calls'[c].pc \in {"idle", "token"} /\ calls'[c].token = NoToken
        /\ calls'[c].refused = NoToken /\ ~calls'[c].reissued
        /\ \A d \in Callers \ {c} : calls'[d] = calls[d]
    BY <1>10, EndedCall DEF Answered, CallRecord
  <2> QED BY <1>10, <2>1 DEF Answered
<1>11. ASSUME NEW c \in Callers, LateOrder(c) PROVE TokenInvariant'
  BY <1>11 DEF LateOrder
<1>12. CASE TokenAges BY <1>12 DEF TokenAges
<1>13. CASE Restart BY <1>13 DEF Restart, Idle
<1>14. CASE UNCHANGED sessionVars BY <1>14
<1> QED
  BY <1>1, <1>2, <1>3, <1>4, <1>5, <1>6, <1>7, <1>8, <1>9, <1>10, <1>11, <1>12, <1>13, <1>14
     DEF Next, Step, SubmitOrder, CancelOrder, FetchPositions, Lookup, Kinds

LEMMA OrdersKept ==
  ASSUME SessionInvariant, [Next]_sessionVars
  PROVE  OrdersCounted'
<1> USE DEF SessionInvariant, TypeOK, venueVars, sessionVars, OrdersCounted, Call
<1>1. ASSUME NEW c \in Callers, NEW k \in Kinds \ {"submit"}, BeginCall(c, k) PROVE OrdersCounted'
  BY <1>1 DEF BeginCall, Idle
<1>2. ASSUME NEW c \in Callers, SubmitOrder(c) PROVE OrdersCounted'
  BY <1>2 DEF SubmitOrder, BeginCall, Idle
<1>3. ASSUME NEW c \in Callers, CachedToken(c) \/ AskToken(c) \/ CacheToken(c) PROVE OrdersCounted'
  BY <1>3 DEF CachedToken, AskToken, CacheToken, CallRecord
<1>4. ASSUME NEW c \in Callers, IssueToken(c) PROVE OrdersCounted'
  BY <1>4, IssuedFresh DEF IssueToken, CallRecord, TokenInvariant
<1>5. ASSUME NEW c \in Callers, IssueFails(c) PROVE OrdersCounted'
  BY <1>5, EndedCall DEF IssueFails
<1>6. ASSUME NEW c \in Callers, Unauthorized(c) PROVE OrdersCounted'
  <2>1. CASE Call(c).reissued BY <1>6, <2>1, EndedCall DEF Unauthorized
  <2>2. CASE ~Call(c).reissued BY <1>6, <2>2 DEF Unauthorized, CallRecord
  <2> QED BY <2>1, <2>2
<1>7. ASSUME NEW c \in Callers, Rejected(c) PROVE OrdersCounted'
  BY <1>7, EndedCall DEF Rejected
<1>8. ASSUME NEW c \in Callers, Unusable(c) PROVE OrdersCounted'
  <2>1. CASE VenueActs(c) BY <1>8, <2>1, EndedCall DEF Unusable, VenueActs
  <2>2. CASE UNCHANGED venueVars BY <1>8, <2>2, EndedCall DEF Unusable
  <2>3. CASE Call(c).kind = "submit" /\ late' = late \cup {c} /\ UNCHANGED placed
    BY <1>8, <2>3, EndedCall DEF Unusable
  <2> QED BY <1>8, <2>1, <2>2, <2>3 DEF Unusable
<1>9. ASSUME NEW c \in Callers, Answered(c) PROVE OrdersCounted'
  <2>1. CASE Call(c).kind = "submit"
    BY <1>9, <2>1, EndedCall DEF Answered, VenueActs
  <2>2. CASE Call(c).kind # "submit"
    <3>1. calls'[c].kind # "submit" /\ \A d \in Callers \ {c} : calls'[d] = calls[d]
      BY <1>9, <2>2, EndedCall DEF Answered, CallRecord
    <3> QED BY <1>9, <2>2, <3>1 DEF Answered, VenueActs
  <2> QED BY <2>1, <2>2
<1>10. ASSUME NEW c \in Callers, LateOrder(c) PROVE OrdersCounted'
  BY <1>10 DEF LateOrder
<1>11. CASE TokenAges BY <1>11 DEF TokenAges
<1>12. CASE Restart BY <1>12 DEF Restart, Idle
<1>13. CASE UNCHANGED sessionVars BY <1>13
<1> QED
  BY <1>1, <1>2, <1>3, <1>4, <1>5, <1>6, <1>7, <1>8, <1>9, <1>10, <1>11, <1>12, <1>13
     DEF Next, Step, CancelOrder, FetchPositions, Lookup, Kinds

LEMMA PagesKept ==
  ASSUME SessionInvariant, [Next]_sessionVars
  PROVE  PagesCounted'
<1> USE SessionAssumption DEF SessionInvariant, TypeOK, venueVars, sessionVars, PagesCounted, Call
<1>1. ASSUME NEW c \in Callers, NEW k \in Kinds, BeginCall(c, k) PROVE PagesCounted'
  BY <1>1 DEF BeginCall, Idle
<1>2. ASSUME NEW c \in Callers, CachedToken(c) \/ AskToken(c) \/ CacheToken(c) PROVE PagesCounted'
  BY <1>2 DEF CachedToken, AskToken, CacheToken, CallRecord
<1>3. ASSUME NEW c \in Callers, IssueToken(c) PROVE PagesCounted'
  <2>1. PICK t \in Tokens : calls' = [calls EXCEPT ![c].pc = "caching", ![c].token = t]
    BY <1>3, IssuedFresh DEF TokenInvariant
  <2>2. /\ calls'[c].pc = "caching" /\ calls'[c].kind = calls[c].kind
        /\ calls'[c].rows = calls[c].rows /\ calls'[c].outcome = calls[c].outcome
        /\ \A d \in Callers \ {c} : calls'[d] = calls[d]
    BY <2>1 DEF CallRecord
  <2>3. pages' = pages /\ calls[c].pc # "idle" BY <1>3 DEF IssueToken
  <2> QED BY <2>2, <2>3
<1>4. ASSUME NEW c \in Callers, IssueFails(c) PROVE PagesCounted'
  BY <1>4, EndedCall DEF IssueFails
<1>5. ASSUME NEW c \in Callers, Unauthorized(c) PROVE PagesCounted'
  <2>1. CASE Call(c).reissued BY <1>5, <2>1, EndedCall DEF Unauthorized
  <2>2. CASE ~Call(c).reissued BY <1>5, <2>2 DEF Unauthorized, CallRecord
  <2> QED BY <2>1, <2>2
<1>6. ASSUME NEW c \in Callers, Rejected(c) \/ Unusable(c) PROVE PagesCounted'
  BY <1>6, EndedCall DEF Rejected, Unusable, VenueActs
<1>7. ASSUME NEW c \in Callers, Answered(c) PROVE PagesCounted'
  <2>1. calls[c].rows \in Nat /\ calls[c].rows < pages /\ calls[c].rows < PageLimit
    BY <1>7 DEF Answered, CallRecord
  <2>2. CASE Call(c).kind = "positions" /\ MorePages(Call(c).rows + 1)
    BY <1>7, <2>1, <2>2 DEF Answered, VenueActs, MorePages, CallRecord
  <2>3. CASE Call(c).kind = "positions" /\ ~MorePages(Call(c).rows + 1)
    <3>1. calls' = [calls EXCEPT ![c] = [Ended(c, "ok") EXCEPT !.rows = calls[c].rows + 1]]
      BY <1>7, <2>3 DEF Answered
    <3>2. /\ calls'[c].pc = "idle" /\ calls'[c].rows = calls[c].rows + 1
          /\ \A d \in Callers \ {c} : calls'[d] = calls[d]
      BY <2>3, <3>1 DEF Ended, Idle
    <3>3. calls[c].rows + 1 = IF pages < PageLimit THEN pages ELSE PageLimit
      BY <2>1, <2>3 DEF MorePages
    <3> QED BY <1>7, <3>2, <3>3 DEF Answered, VenueActs
  <2>4. CASE Call(c).kind # "positions"
    BY <1>7, <2>4, EndedCall DEF Answered, VenueActs
  <2> QED BY <2>2, <2>3, <2>4
<1>8. ASSUME NEW c \in Callers, LateOrder(c) PROVE PagesCounted'
  BY <1>8 DEF LateOrder
<1>9. CASE TokenAges BY <1>9 DEF TokenAges
<1>10. CASE Restart BY <1>10 DEF Restart, Idle
<1>11. CASE UNCHANGED sessionVars BY <1>11
<1> QED
  BY <1>1, <1>2, <1>3, <1>4, <1>5, <1>6, <1>7, <1>8, <1>9, <1>10, <1>11
     DEF Next, Step, SubmitOrder, CancelOrder, FetchPositions, Lookup, Kinds

-----------------------------------------------------------------------------
\* The invariant of the session, behind the four below.
THEOREM SessionInvariantHolds == Spec => []SessionInvariant
<1>1. SessionInvariant /\ [Next]_sessionVars => SessionInvariant'
  BY TypesKept, TokensKept, OrdersKept, PagesKept DEF SessionInvariant
<1> QED BY InitHolds, <1>1, PTL DEF Spec

\* No call reads more pages than the limit, and a fresh token is one.
THEOREM SessionTypes == Spec => []TypeOK
<1>1. SessionInvariant => TypeOK BY DEF SessionInvariant
<1> QED BY <1>1, SessionInvariantHolds, PTL

\* One order at most comes of a submission, and its answer is definitive
\* (kis/rest.rs:93-190).
THEOREM AnswersAreDefinitive == Spec => []DefinitiveAnswers
<1>1. SessionInvariant => DefinitiveAnswers
  <2> SUFFICES ASSUME SessionInvariant, NEW c \in Callers
               PROVE  /\ placed[c] + Cardinality(late \cap {c}) <= 1
                      /\ Call(c).kind = "submit" /\ Call(c).outcome = "ok" => placed[c] = 1
                      /\ Call(c).kind = "submit" /\ Call(c).outcome = "rejected" =>
                           placed[c] = 0 /\ c \notin late
                      /\ c \in context => placed[c] = 1
    BY DEF DefinitiveAnswers
  <2> USE DEF SessionInvariant, OrdersCounted
  <2>1. CASE c \in late
    <3>1. late \cap {c} = {c} BY <2>1
    <3>2. Cardinality({c}) = 1 BY FS_Singleton
    <3> QED BY <2>1, <3>1, <3>2
  <2>2. CASE c \notin late
    <3>1. late \cap {c} = {} BY <2>2
    <3>2. Cardinality({}) = 0 BY FS_EmptySet
    <3> QED BY <3>1, <3>2
  <2> QED BY <2>1, <2>2
<1> QED BY <1>1, SessionInvariantHolds, PTL

\* A request is sent again with another token than the one refused, for any
\* number of callers on the unlocked cache (kis/auth.rs:131-151).
THEOREM RetriesChangeToken == Spec => []RetryUsesAnotherToken
<1>1. SessionInvariant => RetryUsesAnotherToken
  BY DEF SessionInvariant, TokenInvariant, TokensHeld, RefusedGone, ReissuedRefused,
         RetryUsesAnotherToken
<1> QED BY <1>1, SessionInvariantHolds, PTL

\* Positions are whole or none, for any limit (kis/rest.rs:282-354).
THEOREM PositionsAreWhole == Spec => []PositionsWhole
<1>1. SessionInvariant => PositionsWhole
  BY DEF SessionInvariant, PagesCounted, PositionsWhole
<1> QED BY <1>1, SessionInvariantHolds, PTL
=============================================================================
