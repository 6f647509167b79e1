--------------------------- MODULE MarketHistory ---------------------------
(***************************************************************************)
(* Where the closes come from that a strategy decides on: the venue's      *)
(* daily bars are backfilled into the candles table (kis/chart.rs,         *)
(* marketdata/mod.rs, main.rs, runtime/backfill.rs, storage/mod.rs), the   *)
(* realtime loop seeds its window from that table when it starts           *)
(* (runtime/realtime.rs), and while it runs it closes the live ticks into  *)
(* daily bars of its own (marketdata/aggregator.rs, history.rs).           *)
(*                                                                         *)
(* Of a bar the close is kept, of a time its day and whether the session   *)
(* of that day has closed.  The venue, with its trades, its days and its   *)
(* chart endpoint, is external; a tick that it sends is received at once   *)
(* or never, and one that reaches a running loop bears the day it was      *)
(* traded on.                                                              *)
(***************************************************************************)
EXTENDS Integers, Sequences, FiniteSets, SequencesExt, FiniteSetsExt

CONSTANTS
  Symbols,
  Prices,
  Days,           \* the calendar
  Horizon(_),     \* bound: the last day, for a watchlist
  Spans,          \* days a backfill reaches back
  WindowDays,     \* calendar days asked for in one page
  PageLimit,      \* rows the venue returns at most, the newest of the window
  MaxSplitDepth,
  Capacity,       \* closes in the history window
  MaxRestarts,    \* bound: starts of the loop
  MaxJobs         \* bound: backfills started

ASSUME ChartAssumption ==
  /\ Days \in Nat \ {0} /\ Capacity \in Nat \ {0}
  /\ Spans \subseteq Nat /\ WindowDays \in Nat \ {0} /\ PageLimit \in Nat \ {0} /\ MaxSplitDepth \in Nat
\* Halved as often as it may be, a window is no longer than a page.
Halving(width) ==
  /\ width[0] = WindowDays /\ width[MaxSplitDepth] <= PageLimit
  /\ \A depth \in 1 .. MaxSplitDepth : width[depth - 1] <= 2 * width[depth]
ASSUME SplitAssumption == \E width \in [0 .. MaxSplitDepth -> 1 .. WindowDays] : Halving(width)
ASSUME BoundAssumption == MaxRestarts \in Nat /\ MaxJobs \in Nat

None == 0
ASSUME PriceAssumption == Prices \subseteq Nat \ {None}

Calendar == 1 .. Days
ASSUME HorizonAssumption == \A w \in SUBSET Symbols : Horizon(w) \in Calendar

VARIABLES
  watch,           \* the watchlist of the settings
  today, closed,   \* the day, and whether its session is over
  tape,            \* tape[s][d]: the last price s traded at on day d, or None
  candles,         \* candles[s][d]: the stored close, or None
  up, restarts,    \* the realtime loop
  partial,         \* partial[s]: the bar in progress, [day, close], or <<>>
  history,         \* history[s]: the window, a sequence of [day, close]
  missed,          \* missed[s]: days whose latest tick the running loop lacks
  job              \* the backfill, a record

venueVars == <<watch, today, closed, tape>>
loopVars == <<up, restarts, partial, history, missed>>
vars == <<watch, today, closed, tape, candles, up, restarts, partial, history, missed, job>>

Idle == [stage |-> "idle", cli |-> FALSE, retried |-> FALSE, from |-> 0, to |-> 0,
         first |-> 0, last |-> 0,
         queue |-> {}, symbol |-> {}, pending |-> <<>>, got |-> {},
         outcome |-> [s \in Symbols |-> "none"], started |-> 0]

Init ==
  /\ watch \in SUBSET Symbols \ {{}}
  /\ today = 1 /\ closed = FALSE
  /\ tape = [s \in Symbols |-> [d \in Calendar |-> None]]
  /\ candles = [s \in Symbols |-> [d \in Calendar |-> None]]
  /\ up = FALSE /\ restarts = 0
  /\ partial = [s \in Symbols |-> <<>>]
  /\ history = [s \in Symbols |-> <<>>]
  /\ missed = [s \in Symbols |-> {}]
  /\ job = Idle

-----------------------------------------------------------------------------
(* The realtime loop.                                                      *)

\* HistoryWindow::push.
Pushed(window, entry) ==
  LET longer == Append(window, entry)
  IN IF Len(longer) > Capacity THEN Tail(longer) ELSE longer

\* Mutant: the tick that opens a day is what enters the window.
OnQuoteEager(s, p) ==
  LET bar == [day |-> today, close |-> p]
  IN
  /\ partial' = [partial EXCEPT ![s] = <<bar>>]
  /\ history' = IF partial[s] # <<>> /\ partial[s][1].day # today
                THEN [history EXCEPT ![s] = Pushed(@, bar)]
                ELSE history

\* BarAggregator::push, and on_quote, which pushes the bar it completes: any
\* other date than that of the bar in progress completes it.
OnQuote(s, p) ==
  LET bar == [day |-> today, close |-> p]
  IN
  /\ partial' = [partial EXCEPT ![s] = <<bar>>]
  /\ history' = IF partial[s] # <<>> /\ partial[s][1].day # today
                THEN [history EXCEPT ![s] = Pushed(@, partial[s][1])]
                ELSE history

\* A trade, whose tick the loop receives or not.
Trade(s, p) ==
  /\ ~closed /\ s \in watch
  /\ tape' = [tape EXCEPT ![s][today] = p]
  /\ \/ /\ up
        /\ OnQuote(s, p)
        /\ missed' = [missed EXCEPT ![s] = @ \ {today}]
     \/ /\ missed' = IF up THEN [missed EXCEPT ![s] = @ \cup {today}] ELSE missed
        /\ UNCHANGED <<partial, history>>
  /\ UNCHANGED <<watch, today, closed, candles, up, restarts, job>>

Stored(s) == {d \in Calendar : candles[s][d] # None}

\* The n newest of some days, and their i-th.
Newest(days, n) == {d \in days : Cardinality({e \in days : e > d}) < n}
Nth(days, i) == CHOOSE d \in days : Cardinality({e \in days : e <= d}) = i

\* RealtimeLoop::new pushes what is stored, oldest first; a symbol whose
\* candles cannot be read is left empty.
Seeded(s, readable) ==
  LET kept == Newest(Stored(s), Capacity)
  IN IF s \in readable
     THEN [i \in 1 .. Cardinality(kept) |->
            [day |-> Nth(kept, i), close |-> candles[s][Nth(kept, i)]]]
     ELSE <<>>

StartLoop ==
  /\ ~up /\ restarts < MaxRestarts
  /\ up' = TRUE /\ restarts' = restarts + 1
  /\ \E readable \in SUBSET watch : history' = [s \in Symbols |-> Seeded(s, readable)]
  /\ partial' = [s \in Symbols |-> <<>>]
  /\ UNCHANGED <<venueVars, candles, missed, job>>

LoopDies ==
  /\ up
  /\ up' = FALSE
  /\ history' = [s \in Symbols |-> <<>>]
  /\ partial' = [s \in Symbols |-> <<>>]
  /\ missed' = [s \in Symbols |-> {}]
  /\ UNCHANGED <<venueVars, candles, restarts, job>>

CloseSession ==
  /\ ~closed
  /\ closed' = TRUE
  /\ UNCHANGED <<watch, today, tape, candles, loopVars, job>>

NextDay ==
  /\ closed /\ today < Horizon(watch)
  /\ today' = today + 1 /\ closed' = FALSE
  /\ UNCHANGED <<watch, tape, candles, loopVars, job>>

-----------------------------------------------------------------------------
(* A backfill, from the command line or from the lab page.                 *)

LastClosed == IF closed THEN today ELSE today - 1

\* The non-overlapping windows of [from, to], oldest first; the stack is
\* emptied from its end.
Windows(from, to) ==
  LET n == (to - from) \div WindowDays + 1
  IN IF from > to THEN <<>>
     ELSE [i \in 1 .. n |->
            [first |-> from + (i - 1) * WindowDays,
             last |-> IF from + i * WindowDays - 1 < to THEN from + i * WindowDays - 1 ELSE to,
             depth |-> 0]]

\* `to` is the present and `from` the same time of day, some days before: the
\* bars whose closes lie between them begin and end with the day of the date,
\* or with the day before or after, as the session is open or closed.
StartBackfill(span, cli) ==
  /\ job.stage \in {"idle", "done", "failed"} /\ job.started < MaxJobs
  /\ job' = [Idle EXCEPT !.stage = "next", !.cli = cli,
                         !.first = today - span, !.last = today,
                         !.from = LastClosed - span + 1, !.to = LastClosed,
                         !.queue = watch, !.started = job.started + 1]
  /\ UNCHANGED <<venueVars, candles, loopVars>>

\* daily_bars for the next symbol; the windows span its dates.
NextSymbol(s) ==
  /\ job.stage = "next" /\ s \in job.queue
  /\ job' = [job EXCEPT !.stage = "pages", !.queue = @ \ {s}, !.symbol = {s}, !.got = {},
                        !.pending = Windows(job.first, job.last)]
  /\ UNCHANGED <<venueVars, candles, loopVars>>

\* The chart endpoint: the newest rows of the window, the day in progress
\* included.
Page(s, w) ==
  LET rows == {d \in Calendar \cap (w.first .. w.last) : tape[s][d] # None}
  IN {[day |-> d, close |-> tape[s][d]] : d \in Newest(rows, PageLimit)}

Full(page, w) ==
  Cardinality(page) >= PageLimit /\ w.depth < MaxSplitDepth /\ w.first < w.last

\* Mutant: the halves do not meet.
HalvesApart(w) ==
  LET mid == w.first + (w.last - w.first) \div 2
  IN <<[first |-> w.first, last |-> mid - 1, depth |-> w.depth + 1],
       [first |-> mid + 1, last |-> w.last, depth |-> w.depth + 1]>>

\* A window halved, the newer half on top.
Halves(w) ==
  LET mid == w.first + (w.last - w.first) \div 2
  IN <<[first |-> w.first, last |-> mid, depth |-> w.depth + 1],
       [first |-> mid + 1, last |-> w.last, depth |-> w.depth + 1]>>

FetchPage(s) ==
  LET w == Last(job.pending)
      page == Page(s, w)
  IN
  /\ job.stage = "pages" /\ s \in job.symbol /\ job.pending # <<>>
  /\ job' = IF Full(page, w)
            THEN [job EXCEPT !.pending = Front(@) \o Halves(w)]
            ELSE [job EXCEPT !.pending = Front(@), !.got = @ \cup page]
  /\ UNCHANGED <<venueVars, candles, loopVars>>

\* A failing page ends the symbol, and only it.
FetchFails(s, error) ==
  /\ job.stage = "pages" /\ s \in job.symbol /\ job.pending # <<>>
  /\ job' = [job EXCEPT !.stage = "next", !.symbol = {}, !.pending = <<>>, !.got = {},
                        !.outcome[s] = error]
  /\ UNCHANGED <<venueVars, candles, loopVars>>

\* Mutant: today's bar is kept as well, open or closed.
RetainedToday(rows) == {r \in rows : r.day >= job.from}

\* Only bars whose close lies in [from, to] are kept.
Retained(rows) == {r \in rows : r.day >= job.from /\ r.day <= job.to}

\* upsert_candles, one transaction: rows of the same day are replaced.
Upserted(rows, written) ==
  [d \in Calendar |->
    IF \E r \in written : r.day = d THEN (CHOOSE r \in written : r.day = d).close ELSE rows[d]]

StoreBars(s) ==
  /\ job.stage = "pages" /\ s \in job.symbol /\ job.pending = <<>>
  /\ candles' = [candles EXCEPT ![s] = Upserted(@, Retained(job.got))]
  /\ job' = [job EXCEPT !.stage = "next", !.symbol = {}, !.got = {}, !.outcome[s] = "stored"]
  /\ UNCHANGED <<venueVars, loopVars>>

StoreFails(s) ==
  /\ job.stage = "pages" /\ s \in job.symbol /\ job.pending = <<>>
  /\ job' = [job EXCEPT !.stage = "next", !.symbol = {}, !.got = {}, !.outcome[s] = "failed"]
  /\ UNCHANGED <<venueVars, candles, loopVars>>

ServerFailed == {s \in watch : job.outcome[s] = "server"}

\* Mutant: the command line asks again as long as the server fails.
RetryForever ==
  /\ job.stage = "next" /\ job.queue = {}
  /\ job.cli /\ ~job.retried /\ ServerFailed # {}
  /\ job' = [job EXCEPT !.queue = ServerFailed]
  /\ UNCHANGED <<venueVars, candles, loopVars>>

\* The command line asks once more, after a pause, for what the venue's server
\* failed on; `from` and `to` stay.
Retry ==
  /\ job.stage = "next" /\ job.queue = {}
  /\ job.cli /\ ~job.retried /\ ServerFailed # {}
  /\ job' = [job EXCEPT !.retried = TRUE, !.queue = ServerFailed]
  /\ UNCHANGED <<venueVars, candles, loopVars>>

\* Any failed symbol makes the run a failed one.
Report ==
  /\ job.stage = "next" /\ job.queue = {}
  /\ job.cli /\ ~job.retried => ServerFailed = {}
  /\ job' = [job EXCEPT !.stage = IF \A s \in watch : job.outcome[s] = "stored"
                                  THEN "done" ELSE "failed"]
  /\ UNCHANGED <<venueVars, candles, loopVars>>

Venue ==
  \/ CloseSession \/ NextDay
  \/ \E s \in Symbols, p \in Prices : Trade(s, p)

Loop == StartLoop \/ LoopDies

Backfill ==
  \/ Retry \/ Report
  \/ \E s \in Symbols :
       \/ NextSymbol(s) \/ FetchPage(s) \/ StoreBars(s) \/ StoreFails(s)
       \/ FetchFails(s, "server") \/ FetchFails(s, "failed")

Next ==
  \/ Venue \/ Loop \/ Backfill
  \/ \E span \in Spans, cli \in BOOLEAN : StartBackfill(span, cli)

Fairness == WF_vars(Backfill)

Spec == Init /\ [][Next]_vars /\ Fairness

-----------------------------------------------------------------------------
Completed(d) == d < today \/ (d = today /\ closed)

\* "only for periods fully closed before `to`", "must not fabricate bars"
\* (marketdata/mod.rs:53-55): a stored candle is the venue's last word on a
\* day that is over, although the venue also serves the day in progress, and
\* although trading and the calendar go on while a backfill runs.
CandlesAreFinal ==
  \A s \in Symbols, d \in Calendar :
    candles[s][d] # None => Completed(d) /\ candles[s][d] = tape[s][d]

\* "split recursively so no bar can be silently dropped" (kis/chart.rs:12): a
\* symbol reported as stored has every bar of the range, however many rows the
\* windows have; also when it was stored by the retry.
NoBarDropped ==
  \A s \in Symbols :
    job.outcome[s] = "stored" =>
      \A d \in Calendar \cap (job.from .. job.to) : tape[s][d] # None => candles[s][d] # None

\* "snapshots only ever see completed bars" (runtime/mod.rs:92): a window holds
\* one close per day, in order, of days that are over, and each is the day's
\* close unless the loop has missed the last tick of that day.
HistoryIsTrue ==
  \A s \in Symbols : \A i \in DOMAIN history[s] :
    LET entry == history[s][i]
    IN /\ Completed(entry.day)
       /\ i > 1 => history[s][i - 1].day < entry.day
       /\ entry.day \in missed[s] \/ entry.close = tape[s][entry.day]

\* A backfill comes to its report, whatever fails on the way, since each page
\* is split a bounded number of times.
BackfillReports == job.stage \in {"next", "pages"} ~> job.stage \in {"done", "failed"}
=============================================================================
