---------------------------- MODULE Strategies ----------------------------
(***************************************************************************)
(* The starter strategies as pure functions of a market snapshot           *)
(* (strategy.rs, strategies.rs, strategies2.rs, strategy_registry.rs).     *)
(*                                                                         *)
(* A symbol is a number: its code, which also orders it.  A price is a     *)
(* positive integer.  A snapshot is a record with, among others,           *)
(*   history[s]  the closes of completed bars, oldest first,               *)
(*   held[s]     the shares held.                                          *)
(* A strategy is a record: its key and its parameters.  Averages, returns  *)
(* and bands are rational in the code (Decimal) and are compared here      *)
(* after multiplying by their denominators, so no rounding enters; the     *)
(* one square root of the code, of the Bollinger band, is squared away.    *)
(***************************************************************************)
EXTENDS Integers, Sequences, FiniteSets, SequencesExt

CONSTANTS
  Universe,   \* the symbols a strategy is configured with, in order
  Quantity    \* the shares of one buy

ASSUME UniverseAssumption ==
  Universe \in Seq(Nat) /\ \A i, j \in DOMAIN Universe : i # j => Universe[i] # Universe[j]
ASSUME QuantityAssumption == Quantity \in Nat \ {0}

Symbols == ToSet(Universe)

\* The elements of a finite set, one that comes before another first.
Ordered(S, before(_, _)) ==
  [k \in 1 .. Cardinality(S) |->
    CHOOSE x \in S : Cardinality({y \in S : before(y, x)}) = k - 1]

-----------------------------------------------------------------------------
(* Indicators.                                                             *)

Total(s) ==
  LET upTo[i \in 0 .. Len(s)] == IF i = 0 THEN 0 ELSE upTo[i - 1] + s[i]
  IN upTo[Len(s)]

\* The newest n elements.
Recent(s, n) == SubSeq(s, Len(s) - n + 1, Len(s))

\* A difference that changes its sign upwards, downwards or not.
Crossing(before, now) ==
  IF before <= 0 /\ now > 0 THEN "buy"
  ELSE IF before >= 0 /\ now < 0 THEN "sell"
  ELSE "none"

SmaSignal(p, closes) ==
  LET gap(cs) == p.slow * Total(Recent(cs, p.fast)) - p.fast * Total(Recent(cs, p.slow))
  IN IF Len(closes) < p.slow + 1 THEN "none"
     ELSE Crossing(gap(Front(closes)), gap(closes))

\* rsi is 100 * gains / (gains + losses), and 50 when nothing moved.
RsiSignal(p, closes) ==
  LET recent == Recent(closes, p.period + 1)
      moves == [i \in 1 .. p.period |-> recent[i + 1] - recent[i]]
      gains == Total([i \in 1 .. p.period |-> IF moves[i] > 0 THEN moves[i] ELSE 0])
      swing == 2 * gains - Total(moves)
      rsi == IF swing = 0 THEN 50 ELSE 100 * gains
      base == IF swing = 0 THEN 1 ELSE swing
  IN IF Len(closes) < p.period + 1 THEN "none"
     ELSE IF rsi < p.oversold * base THEN "buy"
     ELSE IF rsi > p.overbought * base THEN "sell"
     ELSE "none"

DonchianSignal(p, closes) ==
  LET prior == Front(Recent(closes, p.period + 1))
  IN IF Len(closes) < p.period + 1 THEN "none"
     ELSE IF \A i \in DOMAIN prior : Last(closes) > prior[i] THEN "buy"
     ELSE IF \A i \in DOMAIN prior : Last(closes) < prior[i] THEN "sell"
     ELSE "none"

\* n times the distance from the mean against n times p.sigma deviations, both
\* squared; p.sigma is a fraction <<numerator, denominator>>.
BollingerSignal(p, closes) ==
  LET recent == Recent(closes, p.period)
      below == Total(recent) - p.period * Last(closes)
      spread == p.period * Total([i \in DOMAIN recent |-> recent[i] * recent[i]])
                  - Total(recent) * Total(recent)
      outside == p.sigma[2] * p.sigma[2] * below * below > p.sigma[1] * p.sigma[1] * spread
  IN IF Len(closes) < p.period \/ ~outside THEN "none"
     ELSE IF below > 0 THEN "buy"
     ELSE "sell"

\* Fractions are pairs with a positive denominator.
Plus(a, b) == <<a[1] * b[2] + b[1] * a[2], a[2] * b[2]>>
Minus(a, b) == Plus(a, <<-b[1], b[2]>>)
Over(a, n) == <<a[1], n * a[2]>>

\* The exponential average of a series of fractions, seeded with the mean of
\* its first n, with alpha = 2 / (n + 1).
Ema(series, n) ==
  LET blend(e, c) == Over(Plus(<<(n - 1) * e[1], e[2]>>, <<2 * c[1], c[2]>>), n + 1)
      at[i \in 1 .. Len(series) - n + 1] ==
        IF i = 1 THEN Over(FoldLeft(Plus, <<0, 1>>, SubSeq(series, 1, n)), n)
        ELSE blend(at[i - 1], series[i + n - 1])
  IN at

\* The difference of two averages, from where both exist.
Convergence(fast, slow) ==
  [i \in DOMAIN slow |-> Minus(fast[i + Len(fast) - Len(slow)], slow[i])]

\* Whether a line has crossed its average with its last element.
Crossed(line, average) ==
  LET gap(back) == Minus(line[Len(line) - back], average[Len(average) - back])[1]
  IN Crossing(gap(1), gap(0))

MacdSignal(p, closes) ==
  LET series == [i \in DOMAIN closes |-> <<closes[i], 1>>]
      macd == Convergence(Ema(series, p.fast), Ema(series, p.slow))
  IN IF Len(closes) < p.slow + p.signal THEN "none" ELSE Crossed(macd, Ema(macd, p.signal))

-----------------------------------------------------------------------------
(* Decisions: sequences of intents, in the order they are sent.            *)

Market(s, side, q) == [symbol |-> s, side |-> side, quantity |-> q, limit |-> 0]

\* A buy of what is not held, a sell of what is.
Toggled(s, held) ==
  IF held[s] = 0 THEN Market(s, "buy", Quantity)
  ELSE Market(s, "sell", IF held[s] < Quantity THEN held[s] ELSE Quantity)

\* A buy needs an empty position, a sell a held one.
Acted(signal, held) ==
  LET acts(i) == \/ signal[Universe[i]] = "buy" /\ held[Universe[i]] = 0
                 \/ signal[Universe[i]] = "sell" /\ held[Universe[i]] > 0
      places == Ordered({i \in DOMAIN Universe : acts(i)}, LAMBDA i, j : i < j)
  IN [k \in DOMAIN places |-> Toggled(Universe[places[k]], held)]

\* 12-1 momentum: the return from p.long to p.short bars ago ranks a symbol;
\* the best p.top are held, all others sold.
Momentum(p, snapshot) ==
  LET closes(s) == snapshot.history[s]
      ago(s, n) == closes(s)[Len(closes(s)) - n]
      scored == {s \in Symbols : Len(closes(s)) > p.long}
      better(s, t) ==
        LET gap == ago(s, p.short) * ago(t, p.long) - ago(t, p.short) * ago(s, p.long)
        IN gap > 0 \/ (gap = 0 /\ s < t)
      best == {s \in scored : Cardinality({t \in scored : better(t, s)}) < p.top}
      held == snapshot.held
      buys == Ordered({s \in best : held[s] = 0}, better)
      sells == Ordered({s \in scored \ best : held[s] > 0}, better)
  IN [i \in DOMAIN buys |-> Toggled(buys[i], held)] \o
     [i \in DOMAIN sells |-> Toggled(sells[i], held)]

\* One symbol at a time: a cross of the averages, an extreme of the index, a
\* close outside the channel or the band, a cross of the convergence line.
SmaCross(p, snapshot) ==
  Acted([s \in Symbols |-> SmaSignal(p, snapshot.history[s])], snapshot.held)

RsiReversion(p, snapshot) ==
  Acted([s \in Symbols |-> RsiSignal(p, snapshot.history[s])], snapshot.held)

DonchianBreakout(p, snapshot) ==
  Acted([s \in Symbols |-> DonchianSignal(p, snapshot.history[s])], snapshot.held)

BollingerReversion(p, snapshot) ==
  Acted([s \in Symbols |-> BollingerSignal(p, snapshot.history[s])], snapshot.held)

MacdCross(p, snapshot) ==
  Acted([s \in Symbols |-> MacdSignal(p, snapshot.history[s])], snapshot.held)

Keys == {"sma-cross", "rsi-reversion", "donchian-breakout", "bollinger-reversion", "macd-cross",
         "momentum-rotation"}

\* A key of the registry with its parameters: momentum skips the latest bars
\* of the time it looks back on.
IsStrategy(p) ==
  p.key \in Keys /\ (p.key = "momentum-rotation" => p.long \in Nat /\ p.short \in 0 .. p.long)

\* The strategy that the registry builds for a key.
Decide(p, snapshot) ==
  CASE p.key = "sma-cross" -> SmaCross(p, snapshot)
    [] p.key = "rsi-reversion" -> RsiReversion(p, snapshot)
    [] p.key = "donchian-breakout" -> DonchianBreakout(p, snapshot)
    [] p.key = "bollinger-reversion" -> BollingerReversion(p, snapshot)
    [] p.key = "macd-cross" -> MacdCross(p, snapshot)
    [] p.key = "momentum-rotation" -> Momentum(p, snapshot)
=============================================================================
