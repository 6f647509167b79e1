-------------------------- MODULE BacktestEngine --------------------------
(***************************************************************************)
(* One pass of the backtest engine over a feed of bars (backtest.rs), with *)
(* the in-memory broker that tracks the prices of the bars                 *)
(* (runtime/backtest_runner.rs, broker/mock.rs).  A bar is a record of a   *)
(* symbol and a close; a feed is a sequence of bars, in the stable order   *)
(* of their times.  A run is a record:                                     *)
(*   cash     in 1/Unit of the currency,                                   *)
(*   held     the portfolio's shares of each symbol,                       *)
(*   quotes   the last close of each symbol seen, which is also the price  *)
(*            the hook has set at the broker,                              *)
(*   history  the window of completed closes,                              *)
(*   fills    what was traded, with the number of the bar it happened on,  *)
(*   curve    cash plus open value after each bar.                         *)
(* Both callers run without a risk manager, so preflight passes all.       *)
(***************************************************************************)
EXTENDS Strategies

CONSTANTS
  InitialCash,      \* in units of the currency
  Unit,             \* the fractions of it that cash is counted in
  CommissionRate,   \* 1/Units per unit traded, both sides
  TaxRate,          \* 1/Units per unit sold
  HistoryCapacity   \* closes kept per symbol

ASSUME MoneyAssumption ==
  /\ InitialCash \in Nat \ {0} /\ Unit \in Nat \ {0}
  /\ CommissionRate \in Nat /\ TaxRate \in Nat
ASSUME CapacityAssumption == HistoryCapacity \in Nat \ {0}

Bars == [symbol : Symbols, close : Nat \ {0}]
Intents == [symbol : Symbols, side : {"buy", "sell"}, quantity : Nat, limit : Nat]

NewRun ==
  [cash |-> InitialCash * Unit,
   held |-> [s \in Symbols |-> 0],
   quotes |-> <<>>,
   history |-> [s \in Symbols |-> <<>>],
   fills |-> <<>>,
   curve |-> <<>>]

\* The mock broker fills a market order at the last price and a limit order
\* that the price crosses at its limit; it knows no price before the first bar
\* of a symbol, and an order that is open stays so, since the engine never
\* asks again.
FillsNow(quotes, intent) ==
  /\ intent.symbol \in DOMAIN quotes
  /\ \/ intent.limit = 0
     \/ intent.side = "buy" /\ quotes[intent.symbol] <= intent.limit
     \/ intent.side = "sell" /\ quotes[intent.symbol] >= intent.limit

FillPrice(quotes, intent) ==
  IF intent.limit = 0 THEN quotes[intent.symbol] ELSE intent.limit

\* Portfolio::apply_fill; a sell of more than is held is an error, and the
\* portfolio stays as it was.
HeldAfter(held, fill) ==
  CASE fill.side = "buy" -> [held EXCEPT ![fill.symbol] = @ + fill.quantity]
    [] fill.side = "sell" /\ fill.quantity <= held[fill.symbol] ->
         [held EXCEPT ![fill.symbol] = @ - fill.quantity]
    [] OTHER -> held

Commission(fill) == fill.quantity * fill.price * CommissionRate
Tax(fill) == IF fill.side = "sell" THEN fill.quantity * fill.price * TaxRate ELSE 0
Signed(fill) == IF fill.side = "sell" THEN fill.quantity * fill.price ELSE -fill.quantity * fill.price

\* Mutant: only buys pay commission.
ExecuteSellsFree(run, intent) ==
  LET fill == [symbol |-> intent.symbol, side |-> intent.side,
               quantity |-> intent.quantity,
               price |-> FillPrice(run.quotes, intent),
               bar |-> Len(run.curve) + 1]
      fee == IF fill.side = "buy" THEN Commission(fill) ELSE Tax(fill)
  IN IF ~FillsNow(run.quotes, intent) THEN run
     ELSE [run EXCEPT !.cash = @ + Unit * Signed(fill) - fee,
                      !.held = HeldAfter(@, fill),
                      !.fills = Append(@, fill)]

\* One intent of a decision: submit, report, cash, portfolio, record.
Execute(run, intent) ==
  LET fill == [symbol |-> intent.symbol, side |-> intent.side,
               quantity |-> intent.quantity,
               price |-> FillPrice(run.quotes, intent),
               bar |-> Len(run.curve) + 1]
  IN IF ~FillsNow(run.quotes, intent) THEN run
     ELSE [run EXCEPT !.cash = @ + Unit * Signed(fill) - Commission(fill) - Tax(fill),
                      !.held = HeldAfter(@, fill),
                      !.fills = Append(@, fill)]

OpenValue(run) ==
  LET value == [i \in DOMAIN Universe |->
                 IF run.held[Universe[i]] > 0
                 THEN run.held[Universe[i]] * run.quotes[Universe[i]] ELSE 0]
  IN Total(value)

\* HistoryWindow::push: the newest closes of one symbol.
Push(history, bar) ==
  LET closes == Append(history[bar.symbol], bar.close)
  IN [history EXCEPT ![bar.symbol] =
       IF Len(closes) > HistoryCapacity THEN Recent(closes, HistoryCapacity) ELSE closes]

Quoted(run, bar) ==
  [run EXCEPT !.quotes = [s \in DOMAIN @ \cup {bar.symbol} |->
                           IF s = bar.symbol THEN bar.close ELSE @[s]]]

\* The loop body of BacktestEngine::run, for what the strategy decided on the
\* snapshot of Quoted(run, bar): the bar enters the history last.
Trade(run, bar, intents) ==
  LET after[i \in 0 .. Len(intents)] ==
        IF i = 0 THEN Quoted(run, bar) ELSE Execute(after[i - 1], intents[i])
      traded == after[Len(intents)]
  IN [traded EXCEPT !.history = Push(@, bar),
                    !.curve = Append(@, traded.cash + Unit * OpenValue(traded))]

\* The whole of BacktestEngine::run, for a strategy that is a function.
Played(p, run, bar) == Trade(run, bar, Decide(p, Quoted(run, bar)))
Run(p, feed) ==
  LET after[i \in 0 .. Len(feed)] ==
        IF i = 0 THEN NewRun ELSE Played(p, after[i - 1], feed[i])
  IN after[Len(feed)]

-----------------------------------------------------------------------------
(* summarize.                                                              *)

Equity(run) == IF run.curve = <<>> THEN InitialCash * Unit ELSE Last(run.curve)

\* Mutant: falls are measured from the initial cash.
DrawdownFromStart(run) ==
  LET deeper(worst, equity) ==
        LET fall == <<InitialCash * Unit - equity, InitialCash * Unit>>
        IN IF fall[1] * worst[2] > worst[1] * fall[2] THEN fall ELSE worst
  IN FoldLeft(deeper, <<0, 1>>, run.curve)

\* The highest equity so far, and the deepest fall from one, as a fraction of it.
Deeper(acc, equity) ==
  LET peak == IF equity > acc.peak THEN equity ELSE acc.peak
      fall == <<peak - equity, peak>>
  IN [peak |-> peak,
      worst |-> IF fall[1] * acc.worst[2] > acc.worst[1] * fall[2] THEN fall ELSE acc.worst]

Drawdown(run) ==
  LET after[i \in 0 .. Len(run.curve)] ==
        IF i = 0 THEN [peak |-> InitialCash * Unit, worst |-> <<0, 1>>]
        ELSE Deeper(after[i - 1], run.curve[i])
  IN after[Len(run.curve)].worst

\* What is left of a sell at a price takes one lot, or as much of it as it needs.
Take(acc, lot, price) ==
  LET n == IF lot.quantity <= acc.left THEN lot.quantity ELSE acc.left
  IN [left |-> acc.left - n,
      pnl |-> acc.pnl + n * (price - lot.price),
      lots |-> IF n = lot.quantity THEN acc.lots
               ELSE Append(acc.lots, [quantity |-> lot.quantity - n, price |-> lot.price])]

\* A sell takes the oldest lots of its symbol first, as far as they go.
Match(lots, fill) ==
  LET after[i \in 0 .. Len(lots)] ==
        IF i = 0 THEN [left |-> fill.quantity, pnl |-> 0, lots |-> <<>>]
        ELSE Take(after[i - 1], lots[i], fill.price)
  IN after[Len(lots)]

\* Mutant: a trip that breaks even is won.
BookTiesWin(acc, fill) ==
  LET lot == [quantity |-> fill.quantity, price |-> fill.price]
      matched == Match(acc.lots[fill.symbol], fill)
  IN IF fill.side = "buy" THEN [acc EXCEPT !.lots[fill.symbol] = Append(@, lot)]
     ELSE [acc EXCEPT !.lots[fill.symbol] = matched.lots,
                      !.trades = @ + 1,
                      !.wins = IF matched.pnl >= 0 THEN @ + 1 ELSE @]

\* A buy is a new lot; a sell is a round trip, won if its lots gained.
Book(acc, fill) ==
  LET lot == [quantity |-> fill.quantity, price |-> fill.price]
      matched == Match(acc.lots[fill.symbol], fill)
  IN IF fill.side = "buy" THEN [acc EXCEPT !.lots[fill.symbol] = Append(@, lot)]
     ELSE [acc EXCEPT !.lots[fill.symbol] = matched.lots,
                      !.trades = @ + 1,
                      !.wins = IF matched.pnl > 0 THEN @ + 1 ELSE @]

Trips(run) ==
  LET after[i \in 0 .. Len(run.fills)] ==
        IF i = 0 THEN [lots |-> [s \in Symbols |-> <<>>], trades |-> 0, wins |-> 0]
        ELSE Book(after[i - 1], run.fills[i])
      booked == after[Len(run.fills)]
  IN [trades |-> booked.trades, wins |-> booked.wins]

Summary(run) ==
  [equity |-> Equity(run), drawdown |-> Drawdown(run),
   trades |-> Trips(run).trades, wins |-> Trips(run).wins]
=============================================================================
