-------------------------------- MODULE Lab --------------------------------
(***************************************************************************)
(* The two jobs of the lab page that replay stored candles: one backtest   *)
(* (runtime/backtest_runner.rs) and one parameter search                   *)
(* (runtime/optimize_runner.rs, backtest_optimize.rs).  Each loads the     *)
(* bars of all symbols or fails, and talks to nobody; what starts them,    *)
(* and that they may run side by side, is the subject of ControlJobs.      *)
(*                                                                         *)
(* A backtest draws its bars one at a time, in any order of the symbols:   *)
(* the days on which a symbol has a bar are not the same for all of them.  *)
(* A search draws its whole feed at once and runs the same engine on it.   *)
(***************************************************************************)
EXTENDS BacktestEngine

CONSTANTS
  Strategy,      \* the registered strategies with their default parameters
  Grid(_),       \* the parameter sets a key is searched over, in order
  Scripts,       \* the decisions a generated strategy may come to
  Closes,        \* the prices of bars
  Stored(_),     \* how many bars each symbol may have, for a strategy
  MinBars,       \* bars of every symbol without which no job runs
  Feeds,         \* the feeds a search may find
  MinFeed, MinTrain, MinValidation,   \* bars a search asks for
  TrainTenths,   \* the share of the feed that trains
  Survivors      \* parameter sets kept after training

ASSUME StrategyAssumption ==
  \A p \in Strategy :
    /\ IsStrategy(p)
    /\ Grid(p.key) \in Seq(ToSet(Grid(p.key))) /\ \A q \in ToSet(Grid(p.key)) : IsStrategy(q)
ASSUME MarketAssumption ==
  Closes \subseteq Nat \ {0} /\ Feeds \subseteq Seq(Bars) /\ Scripts \subseteq Seq(Intents)
ASSUME SearchAssumption == TrainTenths \in 0 .. 10 /\ Survivors \in Nat

None == "none"
Generated == [key |-> "generated"]
Unknown == [key |-> "unknown"]

VARIABLES
  job,         \* "backtest" or "optimize"
  strategy,    \* what the request names
  stage,       \* "requested", "running", "trained", "validated", "done", "failed"
  left,        \* backtest: the stored bars of each symbol not yet drawn
  feed,        \* the bars drawn
  run,         \* backtest: the run so far
  summary,     \* backtest: the report
  outcomes,    \* search: the parameter sets kept, best in validation first
  suggestion   \* search: the row of strategy_suggestions

vars == <<job, strategy, stage, left, feed, run, summary, outcomes, suggestion>>

Init ==
  /\ \/ job = "backtest" /\ strategy \in Strategy \cup {Generated, Unknown}
     \/ job = "optimize" /\ strategy \in Strategy \cup {Unknown}
  /\ stage = "requested"
  /\ left = [s \in Symbols |-> 0] /\ feed = <<>>
  /\ run = NewRun /\ summary = None
  /\ outcomes = <<>> /\ suggestion = None

BarsOf(bars, s) == Len(SelectSeq(bars, LAMBDA b : b.symbol = s))

Fail == stage' = "failed"

-----------------------------------------------------------------------------
(* run_backtest.                                                           *)

\* strategy_registry::build knows no such key.
RefuseKey ==
  /\ stage = "requested" /\ job = "backtest" /\ strategy = Unknown
  /\ Fail
  /\ UNCHANGED <<job, strategy, left, feed, run, summary, outcomes, suggestion>>

\* load_bars_from_candles names the first symbol with thin history.
RefuseBars ==
  /\ stage = "requested" /\ strategy # Unknown
  /\ \E stored \in Stored(strategy) : \E s \in Symbols : stored[s] < MinBars
  /\ Fail
  /\ UNCHANGED <<job, strategy, left, feed, run, summary, outcomes, suggestion>>

LoadBars ==
  /\ stage = "requested" /\ job = "backtest" /\ strategy # Unknown
  /\ left' \in {stored \in Stored(strategy) : \A s \in Symbols : stored[s] >= MinBars}
  /\ stage' = "running"
  /\ UNCHANGED <<job, strategy, feed, run, summary, outcomes, suggestion>>

Decisions(bar) ==
  IF strategy = Generated THEN Scripts ELSE {Decide(strategy, Quoted(run, bar))}

Advance(bar) ==
  /\ stage = "running" /\ left[bar.symbol] > 0
  /\ left' = [left EXCEPT ![bar.symbol] = @ - 1]
  /\ feed' = Append(feed, bar)
  /\ \E intents \in Decisions(bar) : run' = Trade(run, bar, intents)
  /\ UNCHANGED <<job, strategy, stage, summary, outcomes, suggestion>>

Summarize ==
  /\ stage = "running" /\ \A s \in Symbols : left[s] = 0
  /\ summary' = Summary(run)
  /\ stage' = "done"
  /\ UNCHANGED <<job, strategy, left, feed, run, outcomes, suggestion>>

-----------------------------------------------------------------------------
(* run_optimize and walk_forward.                                          *)

Cut(bars) == (Len(bars) * TrainTenths) \div 10
TrainBars(bars) == SubSeq(bars, 1, Cut(bars))
ValidationBars(bars) == SubSeq(bars, Cut(bars) + 1, Len(bars))

\* run_one, as far as the ranking looks: the run starts with the same cash,
\* so returns compare as final equities do.
Return(p, bars) == Equity(Run(p, bars))

\* sort_by is stable: equal returns keep their order.
Ranked(params, bars) ==
  LET better(i, j) ==
        LET a == Return(params[i], bars)
            b == Return(params[j], bars)
        IN a > b \/ (a = b /\ i < j)
      order == Ordered(DOMAIN params, better)
  IN [i \in DOMAIN order |-> params[order[i]]]

\* Mutant: the default must be among the survivors to be kept.
KeptBest(ranked) ==
  SubSeq(ranked, 1, IF Len(ranked) < Survivors THEN Len(ranked) ELSE Survivors)

\* The first survivors of the ranking, and the default, whatever its rank.
Kept(ranked) ==
  LET first == SubSeq(ranked, 1, IF Len(ranked) < Survivors THEN Len(ranked) ELSE Survivors)
  IN IF strategy \in ToSet(first) THEN first ELSE Append(first, strategy)

EnoughBars(bars) ==
  /\ \A s \in Symbols : BarsOf(bars, s) >= MinBars
  /\ Len(bars) >= MinFeed
  /\ Len(TrainBars(bars)) >= MinTrain
  /\ Len(ValidationBars(bars)) >= MinValidation

\* The bars are loaded, then the grid is looked up.
RefuseSearch ==
  /\ stage = "requested" /\ job = "optimize"
  /\ strategy = Unknown \/ \E bars \in Feeds : ~EnoughBars(bars)
  /\ Fail
  /\ UNCHANGED <<job, strategy, left, feed, run, summary, outcomes, suggestion>>

Train ==
  /\ stage = "requested" /\ job = "optimize" /\ strategy # Unknown
  /\ \E bars \in Feeds :
       /\ EnoughBars(bars)
       /\ feed' = bars
       /\ outcomes' = Kept(Ranked(Grid(strategy.key), TrainBars(bars)))
  /\ stage' = "trained"
  /\ UNCHANGED <<job, strategy, left, run, summary, suggestion>>

Validate ==
  /\ stage = "trained"
  /\ outcomes' = Ranked(outcomes, ValidationBars(feed))
  /\ stage' = "validated"
  /\ UNCHANGED <<job, strategy, left, feed, run, summary, suggestion>>

\* The first outcome becomes the suggested default of the key.
Suggest ==
  /\ stage = "validated"
  /\ suggestion' = outcomes[1]
  /\ stage' = "done"
  /\ UNCHANGED <<job, strategy, left, feed, run, summary, outcomes>>

StorageFails ==
  /\ stage = "validated"
  /\ Fail
  /\ UNCHANGED <<job, strategy, left, feed, run, summary, outcomes, suggestion>>

Backtest ==
  \/ RefuseKey \/ RefuseBars \/ LoadBars \/ Summarize
  \/ \E s \in Symbols, c \in Closes : Advance([symbol |-> s, close |-> c])

Search ==
  \/ RefuseSearch \/ Train \/ Validate \/ Suggest \/ StorageFails

Next == Backtest \/ Search

Spec == Init /\ [][Next]_vars

-----------------------------------------------------------------------------
Shares(fill) == IF fill.side = "buy" THEN fill.quantity ELSE -fill.quantity

\* The shares of s that the first n fills come to.
Net(fills, n, s) ==
  Total([i \in 1 .. n |-> IF fills[i].symbol = s THEN Shares(fills[i]) ELSE 0])

Oversold(fills) == \E n \in DOMAIN fills : \E s \in Symbols : Net(fills, n, s) < 0

Fees(fills) ==
  Total([i \in DOMAIN fills |-> Commission(fills[i]) + Tax(fills[i])])

Value(r, s) ==
  LET n == Net(r.fills, Len(r.fills), s) IN IF n = 0 THEN 0 ELSE n * r.quotes[s]

\* Cash, portfolio and fills are kept apart ("exact-Decimal cash accounting
\* per bar", backtest.rs:7): the equity after every bar is the initial cash,
\* what the fills moved, less fees, and the shares they left at the last
\* prices.  A registered strategy never sells what it does not hold
\* (strategies.rs:5); for a generated one, this is what it takes.
EquityExplained ==
  strategy # Generated \/ ~Oversold(run.fills) =>
    Equity(run) =
      Unit * (InitialCash + Total([i \in DOMAIN run.fills |-> Signed(run.fills[i])])
                          + Total([i \in DOMAIN Universe |-> Value(run, Universe[i])]))
      - Fees(run.fills)

\* "Max peak-to-trough drawdown of the equity curve" (backtest.rs:324): of all
\* falls from the highest equity so far, the initial cash being the first, the
\* report gives the deepest.  The highest, since the engine lends what a buy
\* lacks in cash: once equity has been negative, a fall from a small one may be
\* the deepest fraction of all.
DrawdownIsWorst ==
  stage = "done" /\ job = "backtest" =>
    LET curve == <<InitialCash * Unit>> \o run.curve
        d == summary.drawdown
        falls == {f \in (DOMAIN curve) \X (DOMAIN curve) :
                   f[1] <= f[2] /\ \A k \in 1 .. f[2] : curve[k] <= curve[f[1]]}
    IN /\ d[2] > 0
       /\ \A f \in falls : (curve[f[1]] - curve[f[2]]) * d[2] <= d[1] * curve[f[1]]
       /\ \E f \in falls : (curve[f[1]] - curve[f[2]]) * d[2] = d[1] * curve[f[1]]

\* The round trips explain the result: when everything bought has been sold,
\* a run that won no trip has not gained, and one that won them all has
\* gained before fees.
TripsExplainReturn ==
  /\ stage = "done" /\ job = "backtest"
  /\ \A s \in Symbols : run.held[s] = 0
  /\ ~Oversold(run.fills)
  =>
  /\ summary.wins = 0 => summary.equity <= InitialCash * Unit
  /\ summary.wins = summary.trades /\ summary.trades > 0 =>
       summary.equity + Fees(run.fills) > InitialCash * Unit

\* "The default is always included as the baseline" and the survivors of the
\* training are ranked in validation (backtest_optimize.rs:185-187): what is
\* suggested is no worse there than the default, and is the default or was
\* among the best in training.
SuggestionSurvives ==
  stage = "done" /\ job = "optimize" =>
    LET trained(p) == Return(p, TrainBars(feed))
        validated(p) == Return(p, ValidationBars(feed))
        grid == ToSet(Grid(strategy.key))
    IN
    /\ validated(suggestion) >= validated(strategy)
    /\ \/ suggestion = strategy
       \/ Cardinality({p \in grid : trained(p) > trained(suggestion)}) < Survivors

\* "strategies never see the close they just traded on" (backtest.rs:241-242).
\* Not so with two symbols: the bar of one has every symbol decided on, and an
\* order for the other fills at its last close, which is in the history.
TradesUnseenClose ==
  strategy # Generated =>
    \A i \in DOMAIN run.fills : feed[run.fills[i].bar].symbol = run.fills[i].symbol
=============================================================================
