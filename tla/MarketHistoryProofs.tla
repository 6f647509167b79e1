------------------------ MODULE MarketHistoryProofs ------------------------
(***************************************************************************)
(* Proofs about MarketHistory, for any calendar, any windows and any page  *)
(* limit.                                                                  *)
(*                                                                         *)
(* What is stored is final.  A backfill fixes its last day when it starts, *)
(* to a day that is over (JobInRange), and no trade happens on a day that  *)
(* is over: so whatever was fetched of a day up to that one still is the   *)
(* venue's last word when it is stored (FetchedTrue), though pages are     *)
(* fetched while trading goes on.                                          *)
(*                                                                         *)
(* What the loop has seen is true.  The bar in progress is of the last day *)
(* a tick was received on and bears that tick's price (BarInProgress).     *)
(* When it enters the window its day is over, since a tick of another day  *)
(* has come, and it is newer than every entry of the window.  The window   *)
(* seeded from storage is true because what is stored is final.            *)
(*                                                                         *)
(* No bar is dropped.  While a symbol is fetched, a day with a bar has     *)
(* been fetched or lies in a window still to be asked for                  *)
(* (FetchedOrPending): the halves of a window cover it, and a page that is *)
(* not split holds all rows of its window, as it has fewer than it may     *)
(* have, or as the window was halved until it is no longer than a page     *)
(* (FitWindow).                                                            *)
(***************************************************************************)
EXTENDS MarketHistory, FiniteSetTheorems, SequenceTheorems, TLAPS

Row == [day : Calendar, close : Prices]

CalendarTypes ==
  /\ today \in Nat
  /\ closed \in BOOLEAN
  /\ tape \in [Symbols -> [Calendar -> Prices \cup {None}]]
  /\ candles \in [Symbols -> [Calendar -> Prices \cup {None}]]

\* The job has its fields, and those looked at here are well typed.
JobTypes ==
  /\ job = [stage |-> job.stage, cli |-> job.cli, retried |-> job.retried,
            from |-> job.from, to |-> job.to, first |-> job.first, last |-> job.last,
            queue |-> job.queue, symbol |-> job.symbol, pending |-> job.pending,
            got |-> job.got, outcome |-> job.outcome, started |-> job.started]
  /\ job.from \in Int /\ job.to \in Int
  /\ job.symbol \subseteq Symbols
  /\ job.got \subseteq Row

\* A backfill works on one symbol at a time, and ends with a day that was over
\* when it started.
JobInRange ==
  /\ \A s, t \in job.symbol : s = t
  /\ job.stage \in {"next", "pages"} => job.to <= LastClosed

\* What it has fetched of the days it keeps is what the venue says.
FetchedTrue ==
  job.stage = "pages" =>
    \A s \in job.symbol : \A r \in job.got : r.day <= job.to => r.close = tape[s][r.day]

HistoryInvariant ==
  CalendarTypes /\ JobTypes /\ JobInRange /\ FetchedTrue /\ CandlesAreFinal

USE ChartAssumption, PriceAssumption DEF None, venueVars, loopVars

LEMMA CalendarDays == Calendar \subseteq Nat
BY DEF Calendar

LEMMA InitHolds == Init => HistoryInvariant
<1> SUFFICES ASSUME Init PROVE HistoryInvariant
  OBVIOUS
<1>1. CalendarTypes BY DEF Init, CalendarTypes
<1>2. JobTypes BY DEF Init, JobTypes, Idle
<1>3. JobInRange /\ FetchedTrue BY DEF Init, Idle, JobInRange, FetchedTrue
<1>4. CandlesAreFinal BY DEF Init, CandlesAreFinal
<1> QED BY <1>1, <1>2, <1>3, <1>4 DEF HistoryInvariant

\* A trade is of a day that is not over: it touches neither what is stored nor
\* what a backfill keeps.
LEMMA TradeKeeps ==
  ASSUME HistoryInvariant, NEW s \in Symbols, NEW p \in Prices, Trade(s, p)
  PROVE  HistoryInvariant'
<1> USE DEF HistoryInvariant
<1>1. /\ ~closed /\ tape' = [tape EXCEPT ![s] = [tape[s] EXCEPT ![today] = p]]
      /\ UNCHANGED <<today, closed, candles, job>>
  BY DEF Trade
<1>2. \A t \in Symbols, d \in Calendar : d # today => tape'[t][d] = tape[t][d]
  BY <1>1 DEF CalendarTypes
<1>3. CalendarTypes'
  <2>1. [tape[s] EXCEPT ![today] = p] \in [Calendar -> Prices \cup {None}] BY DEF CalendarTypes
  <2> QED BY <1>1, <2>1 DEF CalendarTypes
<1>4. JobTypes' /\ JobInRange' BY <1>1 DEF JobTypes, JobInRange, LastClosed
<1>5. FetchedTrue'
  <2> SUFFICES ASSUME job.stage = "pages", NEW t \in job.symbol, NEW r \in job.got, r.day <= job.to
               PROVE  r.close = tape'[t][r.day]
    BY <1>1 DEF FetchedTrue
  <2>1. t \in Symbols /\ r \in Row BY DEF JobTypes
  <2>2. r.day \in Calendar /\ r.day \in Nat BY <2>1, CalendarDays DEF Row
  <2>3. r.day # today
    BY <1>1, <2>2 DEF JobInRange, LastClosed, CalendarTypes, JobTypes
  <2> QED BY <1>2, <2>1, <2>2, <2>3 DEF FetchedTrue
<1>6. CandlesAreFinal'
  BY <1>1, <1>2, CalendarDays DEF CandlesAreFinal, Completed, CalendarTypes
<1> QED BY <1>3, <1>4, <1>5, <1>6

\* A day that is over stays so.
LEMMA CalendarKeeps ==
  ASSUME HistoryInvariant, CloseSession \/ NextDay
  PROVE  HistoryInvariant'
<1> USE DEF HistoryInvariant
<1>1. UNCHANGED <<tape, candles, job>> BY DEF CloseSession, NextDay
<1>2. /\ today' \in Nat /\ closed' \in BOOLEAN /\ LastClosed <= LastClosed'
      /\ \A d \in Calendar : Completed(d) => Completed(d)'
  <2>1. CASE CloseSession
    BY <2>1, CalendarDays DEF CloseSession, CalendarTypes, LastClosed, Completed
  <2>2. CASE NextDay
    <3>1. today \in Nat /\ closed /\ today' = today + 1 /\ closed' = FALSE
      BY <2>2 DEF NextDay, CalendarTypes
    <3>2. LastClosed = today /\ LastClosed' = today' - 1
      BY <3>1, Zenon DEF LastClosed
    <3>3. LastClosed <= LastClosed' BY <3>1, <3>2
    <3>4. ASSUME NEW d \in Calendar, Completed(d) PROVE Completed(d)'
      <4>1. d < today \/ d = today BY <3>4, Zenon DEF Completed
      <4>2. d < today' BY <3>1, <4>1, CalendarDays
      <4> QED BY <4>2, Zenon DEF Completed
    <3>5. today' \in Nat BY <3>1
    <3>6. closed' \in BOOLEAN BY <3>1, Zenon
    <3> QED BY <3>3, <3>4, <3>5, <3>6, Zenon
  <2> QED BY <2>1, <2>2
<1>3. LastClosed \in Int /\ LastClosed' \in Int BY <1>2 DEF LastClosed, CalendarTypes
<1>4. CalendarTypes' /\ JobTypes' BY <1>1, <1>2 DEF CalendarTypes, JobTypes
<1>5. JobInRange' BY <1>1, <1>2, <1>3 DEF JobInRange, JobTypes
<1>6. FetchedTrue' BY <1>1 DEF FetchedTrue
<1>7. CandlesAreFinal' BY <1>1, <1>2 DEF CandlesAreFinal
<1> QED BY <1>4, <1>5, <1>6, <1>7

\* The steps of a backfill that store nothing and fetch nothing.
LEMMA JobKeeps ==
  ASSUME HistoryInvariant, UNCHANGED <<venueVars, candles>>, JobTypes',
         \A s, t \in job'.symbol : s = t,
         job'.stage \in {"next", "pages"} => job'.to <= LastClosed,
         job'.stage = "pages" => job'.got = {}
  PROVE  HistoryInvariant'
<1> USE DEF HistoryInvariant
<1>1. CalendarTypes' BY DEF CalendarTypes
<1>2. JobInRange' BY DEF JobInRange, LastClosed
<1>3. FetchedTrue' BY DEF FetchedTrue
<1>4. CandlesAreFinal' BY DEF CandlesAreFinal, Completed
<1> QED BY <1>1, <1>2, <1>3, <1>4

LEMMA PlainStepsKeep ==
  ASSUME HistoryInvariant,
         \/ Retry \/ Report
         \/ \E span \in Spans, cli \in BOOLEAN : StartBackfill(span, cli)
         \/ \E s \in Symbols : NextSymbol(s) \/ StoreFails(s) \/ \E e \in {"server", "failed"} : FetchFails(s, e)
  PROVE  HistoryInvariant'
<1> USE DEF HistoryInvariant
<1>1. ASSUME NEW span \in Spans, NEW cli \in BOOLEAN, StartBackfill(span, cli) PROVE HistoryInvariant'
  <2>1. LastClosed \in Int /\ span \in Nat BY DEF LastClosed, CalendarTypes
  <2>2. /\ job'.stage = "next" /\ job'.to = LastClosed /\ job'.from = LastClosed - span + 1
        /\ job'.got = {} /\ job'.symbol = {}
    BY <1>1 DEF StartBackfill, Idle
  <2>3. job' = [stage |-> "next", cli |-> cli, retried |-> FALSE,
                from |-> LastClosed - span + 1, to |-> LastClosed,
                first |-> today - span, last |-> today,
                queue |-> watch, symbol |-> {}, pending |-> <<>>, got |-> {},
                outcome |-> [s \in Symbols |-> "none"], started |-> job.started + 1]
    BY <1>1 DEF StartBackfill, Idle
  <2>4. JobTypes' BY <2>1, <2>3 DEF JobTypes
  <2>5. job'.to <= LastClosed BY <2>1, <2>2
  <2>6. UNCHANGED <<venueVars, candles>> BY <1>1 DEF StartBackfill
  <2> QED BY <2>2, <2>4, <2>5, <2>6, JobKeeps
<1>2. ASSUME NEW s \in Symbols, NextSymbol(s) PROVE HistoryInvariant'
  <2>1. /\ job.stage = "next" /\ job'.stage = "pages" /\ job'.to = job.to /\ job'.from = job.from
        /\ job'.got = {} /\ job'.symbol = {s}
    BY <1>2 DEF NextSymbol, JobTypes
  <2>2. JobTypes' BY <1>2, <2>1 DEF NextSymbol, JobTypes
  <2> QED BY <1>2, <2>1, <2>2, JobKeeps DEF NextSymbol, JobInRange
<1>3. ASSUME NEW s \in Symbols, StoreFails(s) \/ FetchFails(s, "server") \/ FetchFails(s, "failed")
      PROVE  HistoryInvariant'
  <2>1. /\ job.stage = "pages" /\ job'.stage = "next" /\ job'.to = job.to /\ job'.from = job.from
        /\ job'.got = {} /\ job'.symbol = {}
    BY <1>3 DEF StoreFails, FetchFails, JobTypes
  <2>2. JobTypes' BY <1>3, <2>1 DEF StoreFails, FetchFails, JobTypes
  <2> QED BY <1>3, <2>1, <2>2, JobKeeps DEF StoreFails, FetchFails, JobInRange
<1>4. CASE Retry
  <2>1. /\ job.stage = "next" /\ job'.stage = "next" /\ job'.to = job.to /\ job'.from = job.from
        /\ job'.got = job.got /\ job'.symbol = job.symbol
    BY <1>4 DEF Retry, JobTypes
  <2>2. JobTypes' BY <1>4, <2>1 DEF Retry, JobTypes
  <2> QED BY <1>4, <2>1, <2>2, JobKeeps DEF Retry, JobInRange
<1>5. CASE Report
  <2>1. /\ job'.stage \in {"done", "failed"} /\ job'.to = job.to /\ job'.from = job.from
        /\ job'.got = job.got /\ job'.symbol = job.symbol
    BY <1>5 DEF Report, JobTypes
  <2>2. JobTypes' BY <1>5, <2>1 DEF Report, JobTypes
  <2> QED BY <1>5, <2>1, <2>2, JobKeeps DEF Report, JobInRange
<1> QED BY <1>1, <1>2, <1>3, <1>4, <1>5

\* A page is what the venue says at the time.
LEMMA FetchKeeps ==
  ASSUME HistoryInvariant, NEW s \in Symbols, FetchPage(s)
  PROVE  HistoryInvariant'
<1> USE DEF HistoryInvariant
<1> DEFINE page == Page(s, Last(job.pending))
<1>1. \A r \in page : r \in Row /\ r.close = tape[s][r.day]
  <2> SUFFICES ASSUME NEW r \in page PROVE r \in Row /\ r.close = tape[s][r.day]
    OBVIOUS
  <2>1. PICK d \in Calendar : tape[s][d] # None /\ r = [day |-> d, close |-> tape[s][d]]
    BY DEF Page, Newest
  <2>2. tape[s][d] \in Prices BY <2>1 DEF CalendarTypes
  <2> QED BY <2>1, <2>2 DEF Row
<1>2. /\ UNCHANGED <<today, closed, tape, candles>> /\ s \in job.symbol
      /\ job.stage = "pages"
      /\ \/ job' = [job EXCEPT !.pending = Front(job.pending) \o Halves(Last(job.pending))]
         \/ job' = [job EXCEPT !.pending = Front(job.pending), !.got = job.got \cup page]
  BY DEF FetchPage
<1> HIDE DEF page
<1>3. /\ job'.stage = "pages" /\ job'.to = job.to /\ job'.from = job.from /\ job'.symbol = job.symbol
      /\ job'.got = job.got \/ job'.got = job.got \cup page
  BY <1>2 DEF JobTypes
<1>4. JobTypes'
  <2>1. job'.got \subseteq Row BY <1>1, <1>3 DEF JobTypes
  <2> QED BY <1>2, <1>3, <2>1 DEF JobTypes
<1>5. CalendarTypes' /\ CandlesAreFinal' BY <1>2 DEF CalendarTypes, CandlesAreFinal, Completed
<1>6. JobInRange' BY <1>2, <1>3 DEF JobInRange, LastClosed
<1>7. FetchedTrue' BY <1>1, <1>2, <1>3 DEF FetchedTrue, JobInRange
<1> QED BY <1>4, <1>5, <1>6, <1>7

\* What is written of a day is one of the rows of that day.
LEMMA UpsertedRow ==
  ASSUME NEW rows, NEW written, NEW d \in Calendar
  PROVE  \/ Upserted(rows, written)[d] = rows[d]
         \/ \E r \in written : r.day = d /\ Upserted(rows, written)[d] = r.close
<1>1. CASE \E r \in written : r.day = d
  <2>1. (CHOOSE r \in written : r.day = d) \in written /\ (CHOOSE r \in written : r.day = d).day = d
    BY <1>1
  <2> QED BY <1>1, <2>1 DEF Upserted
<1>2. CASE ~\E r \in written : r.day = d
  BY <1>2 DEF Upserted
<1> QED BY <1>1, <1>2

\* Only days that are over, with the venue's last word on them, are written.
LEMMA StoreKeeps ==
  ASSUME HistoryInvariant, NEW s \in Symbols, StoreBars(s)
  PROVE  HistoryInvariant'
<1> USE DEF HistoryInvariant
<1> DEFINE written == Retained(job.got)
           stored == Upserted(candles[s], written)
<1>1. /\ UNCHANGED <<today, closed, tape>> /\ s \in job.symbol /\ job.stage = "pages"
      /\ candles' = [candles EXCEPT ![s] = stored]
      /\ job'.stage = "next" /\ job'.to = job.to /\ job'.from = job.from
      /\ job'.got = {} /\ job'.symbol = {}
  BY DEF StoreBars, JobTypes
<1>2. JobTypes' BY <1>1 DEF StoreBars, JobTypes
<1>3. JobInRange' /\ FetchedTrue' BY <1>1 DEF JobInRange, FetchedTrue, LastClosed
<1>4. \A r \in written : r \in Row /\ Completed(r.day) /\ r.close = tape[s][r.day]
  <2> SUFFICES ASSUME NEW r \in written
               PROVE  r \in Row /\ Completed(r.day) /\ r.close = tape[s][r.day]
    OBVIOUS
  <2>1. r \in job.got /\ r \in Row /\ r.day <= job.to BY DEF Retained, JobTypes
  <2>2. r.day \in Nat BY <2>1, CalendarDays DEF Row
  <2>3. Completed(r.day)
    <3>1. job.to \in Int /\ job.to <= LastClosed BY <1>1 DEF JobInRange, JobTypes
    <3>2. CASE closed
      <4>1. LastClosed = today BY <3>2, Zenon DEF LastClosed
      <4>2. today \in Nat /\ job.to <= today BY <3>1, <4>1 DEF CalendarTypes
      <4>3. r.day < today \/ r.day = today BY <2>1, <2>2, <3>1, <4>2
      <4> QED BY <3>2, <4>3, Zenon DEF Completed
    <3>3. CASE ~closed BY <2>1, <2>2, <3>1, <3>3 DEF Completed, LastClosed, CalendarTypes
    <3> QED BY <3>2, <3>3
  <2> QED BY <1>1, <2>1, <2>3 DEF FetchedTrue
<1>5. stored \in [Calendar -> Prices \cup {None}]
  <2>1. \A d \in Calendar : stored[d] \in Prices \cup {None}
    <3> HIDE DEF written
    <3> QED BY <1>4, UpsertedRow DEF CalendarTypes, Row
  <2>2. stored = [d \in Calendar |-> stored[d]] BY DEF Upserted
  <2> HIDE DEF stored
  <2> QED BY <2>1, <2>2
<1>6. \A d \in Calendar : stored[d] # None => Completed(d) /\ stored[d] = tape[s][d]
  <2> HIDE DEF written
  <2> QED BY <1>4, UpsertedRow DEF CandlesAreFinal
<1> HIDE DEF stored
<1>7. CalendarTypes' BY <1>1, <1>5 DEF CalendarTypes
<1>8. CandlesAreFinal' BY <1>1, <1>6 DEF CandlesAreFinal, CalendarTypes, Completed
<1> QED BY <1>2, <1>3, <1>7, <1>8

LEMMA HistoryStep ==
  ASSUME HistoryInvariant, [Next]_vars
  PROVE  HistoryInvariant'
<1>1. CASE Venue BY <1>1, TradeKeeps, CalendarKeeps DEF Venue
<1>2. CASE Loop \/ UNCHANGED vars
  BY <1>2 DEF Loop, StartLoop, LoopDies, vars, HistoryInvariant, CalendarTypes, JobTypes, JobInRange,
              FetchedTrue, CandlesAreFinal, Completed, LastClosed
<1>3. CASE Backfill BY <1>3, PlainStepsKeep, FetchKeeps, StoreKeeps DEF Backfill
<1>4. CASE \E span \in Spans, cli \in BOOLEAN : StartBackfill(span, cli)
  BY <1>4, PlainStepsKeep
<1> QED BY <1>1, <1>2, <1>3, <1>4 DEF Next

-----------------------------------------------------------------------------
\* The invariant behind the theorem below.
THEOREM HistoryInvariantHolds == Spec => []HistoryInvariant
<1>1. HistoryInvariant /\ [Next]_vars => HistoryInvariant' BY HistoryStep
<1> QED BY InitHolds, <1>1, PTL DEF Spec

\* A stored candle is final, for every calendar, page limit and window, though
\* trading and the calendar go on while a backfill runs (kis/chart.rs,
\* storage/mod.rs).
THEOREM StoredIsFinal == Spec => []CandlesAreFinal
<1>1. HistoryInvariant => CandlesAreFinal BY DEF HistoryInvariant
<1> QED BY <1>1, HistoryInvariantHolds, PTL

-----------------------------------------------------------------------------
(* The window of the running loop: what it holds are days that are over,   *)
(* each before the day of the bar in progress.                             *)

\* A close is the venue's, unless the loop has missed the day's last tick.
TrueClose(s, entry) == entry.day \in missed[s] \/ entry.close = tape[s][entry.day]

LoopTypes ==
  /\ up \in BOOLEAN /\ today \in Calendar /\ watch \subseteq Symbols
  /\ partial \in [Symbols -> Seq(Row)] /\ history \in [Symbols -> Seq(Row)]
  /\ missed \in [Symbols -> SUBSET Calendar]

NothingDown == ~up => \A s \in Symbols : partial[s] = <<>> /\ history[s] = <<>>

BarInProgress ==
  \A s \in Symbols : partial[s] # <<>> =>
    /\ partial[s][1].day <= today /\ TrueClose(s, partial[s][1])
    /\ \A i \in DOMAIN history[s] : history[s][i].day < partial[s][1].day

LoopInvariant == LoopTypes /\ NothingDown /\ BarInProgress /\ HistoryIsTrue

LEMMA LoopInit == Init => LoopInvariant
<1> SUFFICES ASSUME Init PROVE LoopInvariant
  OBVIOUS
<1> USE DEF Init
<1>1. today \in Calendar BY DEF Calendar
<1>2. \A s \in Symbols : partial[s] = <<>> /\ history[s] = <<>> OBVIOUS
<1>3. LoopTypes
  <2>1. partial \in [Symbols -> Seq(Row)] /\ history \in [Symbols -> Seq(Row)] OBVIOUS
  <2>2. missed \in [Symbols -> SUBSET Calendar] /\ watch \subseteq Symbols /\ up \in BOOLEAN
    OBVIOUS
  <2> QED BY <1>1, <2>1, <2>2 DEF LoopTypes
<1>4. NothingDown /\ BarInProgress /\ HistoryIsTrue
  BY <1>2 DEF NothingDown, BarInProgress, HistoryIsTrue
<1> QED BY <1>3, <1>4 DEF LoopInvariant

LEMMA RowDay ==
  ASSUME NEW bar \in Row
  PROVE  bar.day \in Calendar /\ bar.day \in Nat /\ bar.close \in Prices
BY CalendarDays DEF Row

\* new holds what was in the window, in the same order but for the first
\* `shift` entries, and then the bar.
Shifted(window, bar, new, shift) ==
  \A i \in DOMAIN new :
    \/ i + shift \in DOMAIN window /\ new[i] = window[i + shift]
    \/ i = Len(new) /\ i + shift = Len(window) + 1 /\ new[i] = bar

LEMMA PushedEntries ==
  ASSUME NEW window \in Seq(Row), NEW bar \in Row, NEW new, new = Pushed(window, bar)
  PROVE  /\ new \in Seq(Row)
         /\ \E shift \in {0, 1} : Shifted(window, bar, new, shift)
<1> DEFINE longer == Append(window, bar)
<1>1. /\ longer \in Seq(Row) /\ Len(longer) = Len(window) + 1 /\ longer[Len(window) + 1] = bar
      /\ \A i \in DOMAIN window : longer[i] = window[i]
  OBVIOUS
<1>2. CASE Len(longer) > Capacity
  <2>1. new = Tail(longer) BY <1>2 DEF Pushed
  <2>2. longer # <<>> BY <1>1
  <2>3. new \in Seq(Row) /\ Len(new) = Len(window) /\ \A i \in DOMAIN new : new[i] = longer[i + 1]
    BY <1>1, <2>1, <2>2
  <2> HIDE DEF longer
  <2>4. \A i \in DOMAIN new :
          \/ i + 1 \in DOMAIN window /\ new[i] = window[i + 1]
          \/ i = Len(new) /\ i + 1 = Len(window) + 1 /\ new[i] = bar
    BY <1>1, <2>3
  <2> QED BY <2>3, <2>4 DEF Shifted
<1>3. CASE ~(Len(longer) > Capacity)
  <2>1. new = longer BY <1>3 DEF Pushed
  <2> HIDE DEF longer
  <2>2. \A i \in DOMAIN new :
          \/ i + 0 \in DOMAIN window /\ new[i] = window[i + 0]
          \/ i = Len(new) /\ i + 0 = Len(window) + 1 /\ new[i] = bar
    BY <1>1, <2>1
  <2> QED BY <1>1, <2>1, <2>2 DEF Shifted
<1> QED BY <1>2, <1>3

\* A bar of a day that is over, later than all in the window.
LEMMA PushedTrue ==
  ASSUME NEW s \in Symbols, NEW window \in Seq(Row), NEW bar \in Row, today \in Calendar,
         closed \in BOOLEAN,
         Completed(bar.day), TrueClose(s, bar),
         \A i \in DOMAIN window :
           /\ window[i].day < bar.day /\ Completed(window[i].day) /\ TrueClose(s, window[i])
           /\ i > 1 => window[i - 1].day < window[i].day,
         NEW new, new = Pushed(window, bar)
  PROVE  /\ new \in Seq(Row)
         /\ \A i \in DOMAIN new :
              /\ Completed(new[i].day) /\ TrueClose(s, new[i]) /\ new[i].day <= bar.day
              /\ i > 1 => new[i - 1].day < new[i].day
<1>1. new \in Seq(Row) BY PushedEntries
<1>2. PICK shift \in {0, 1} : Shifted(window, bar, new, shift)
  BY PushedEntries
<1> USE DEF Shifted
<1>a. \A i \in DOMAIN window : window[i] \in Row /\ window[i].day \in Int
  BY RowDay
<1>b. bar.day \in Int BY RowDay
<1>3. ASSUME NEW i \in DOMAIN new
      PROVE  Completed(new[i].day) /\ TrueClose(s, new[i]) /\ new[i].day <= bar.day
  BY <1>2, <1>3, <1>a, <1>b
<1>4. ASSUME NEW i \in DOMAIN new, i > 1 PROVE new[i - 1].day < new[i].day
  <2>1. i - 1 \in DOMAIN new /\ i - 1 < Len(new) /\ i \in Int BY <1>1, <1>4
  <2>2. i - 1 + shift \in DOMAIN window /\ new[i - 1] = window[i - 1 + shift]
    BY <1>2, <2>1
  <2>3. CASE i + shift \in DOMAIN window /\ new[i] = window[i + shift]
    <3>1. i + shift > 1 /\ (i + shift) - 1 = i - 1 + shift BY <2>1, <1>4
    <3> QED BY <2>2, <2>3, <3>1
  <2>4. CASE new[i] = bar BY <2>2, <2>4
  <2> QED BY <1>2, <2>3, <2>4
<1> QED BY <1>1, <1>3, <1>4

\* A set of numbers has a least one.
LEMMA LeastExists ==
  ASSUME NEW S \in SUBSET Nat, S # {}
  PROVE  \E x \in S : \A y \in S : x <= y
<1>1. PICK x \in S : \A y \in S : <<y, x>> \notin OpToRel(<, Nat)
  BY NatLessThanWellFounded, WFMin
<1>2. \A y \in S : ~(y < x) BY <1>1 DEF OpToRel
<1> QED BY <1>2

\* A set of days, counted from the oldest.
LEMMA NthExists ==
  ASSUME NEW days \in SUBSET Nat, NEW top \in Nat, \A d \in days : d <= top,
         0 \notin days, NEW i \in 1 .. Cardinality(days)
  PROVE  \E d \in days : Cardinality({e \in days : e <= d}) = i
<1> DEFINE upTo(d) == {e \in days : e <= d}
           S == {d \in Nat : Cardinality(upTo(d)) >= i}
<1>1. IsFiniteSet(days) /\ Cardinality(days) \in Nat
  BY FS_BoundedSetOfNaturals, FS_CardinalityType
<1>2. \A d \in Nat : IsFiniteSet(upTo(d)) /\ Cardinality(upTo(d)) \in Nat
  BY <1>1, FS_Subset, FS_CardinalityType
<1>3. top \in S
  <2>1. upTo(top) = days OBVIOUS
  <2> QED BY <2>1, <1>1
<1>4. PICK d \in S : \A e \in S : d <= e BY <1>3, LeastExists
<1>5. Cardinality(upTo(d)) >= i /\ d \in Nat /\ \A e \in Nat : Cardinality(upTo(e)) >= i => d <= e
  BY <1>4
<1>6. Cardinality(upTo(0)) = 0
  <2>a. ASSUME NEW e \in days PROVE ~(e <= 0)
    <3>1. e \in Nat /\ e # 0 OBVIOUS
    <3> QED BY <3>1
  <2>1. upTo(0) = {} BY <2>a
  <2> QED BY <2>1, FS_EmptySet, Zenon DEF upTo
<1> HIDE DEF S
<1>7. d # 0
  <2> HIDE DEF upTo
  <2> QED BY <1>5, <1>6
<1>8. d - 1 \in Nat /\ ~(d <= d - 1) BY <1>5, <1>7
<1>9. ~(Cardinality(upTo(d - 1)) >= i)
  <2> HIDE DEF upTo
  <2> QED BY <1>5, <1>8
<1>10. /\ d \in days => upTo(d) = upTo(d - 1) \cup {d} /\ d \notin upTo(d - 1)
       /\ d \notin days => upTo(d) = upTo(d - 1)
  <2>1. \A e \in days : e <= d <=> e <= d - 1 \/ e = d BY <1>5, <1>8
  <2>2. upTo(d) = {e \in days : e <= d - 1 \/ e = d} BY <2>1
  <2>3. ~(d <= d - 1) BY <1>8
  <2> QED BY <2>2, <2>3
<1> HIDE DEF upTo
<1>11. d \in days BY <1>5, <1>9, <1>10
<1>12. Cardinality(upTo(d)) = Cardinality(upTo(d - 1)) + 1
  BY <1>2, <1>8, <1>10, <1>11, FS_AddElement
<1>13. Cardinality(upTo(d)) = i
  BY <1>2, <1>5, <1>8, <1>9, <1>12
<1> QED BY <1>11, <1>13 DEF upTo

LEMMA NthDays ==
  ASSUME NEW days \in SUBSET Calendar
  PROVE  /\ Cardinality(days) \in Nat
         /\ \A i \in 1 .. Cardinality(days) : Nth(days, i) \in days
         /\ \A i, j \in 1 .. Cardinality(days) : i < j => Nth(days, i) < Nth(days, j)
<1>1. days \in SUBSET Nat /\ 0 \notin days /\ Days \in Nat /\ \A d \in days : d <= Days
  BY DEF Calendar
<1>2. IsFiniteSet(days) /\ Cardinality(days) \in Nat
  BY <1>1, FS_BoundedSetOfNaturals, FS_CardinalityType
<1>3. ASSUME NEW i \in 1 .. Cardinality(days)
      PROVE  Nth(days, i) \in days /\ Cardinality({e \in days : e <= Nth(days, i)}) = i
  <2>1. \E d \in days : Cardinality({e \in days : e <= d}) = i BY <1>1, NthExists
  <2> QED BY <2>1 DEF Nth
<1>4. ASSUME NEW i \in 1 .. Cardinality(days), NEW j \in 1 .. Cardinality(days), i < j
      PROVE  Nth(days, i) < Nth(days, j)
  <2> DEFINE upTo(d) == {e \in days : e <= d}
  <2>1. PICK x, y : x = Nth(days, i) /\ y = Nth(days, j) OBVIOUS
  <2>2. x \in Nat /\ y \in Nat /\ Cardinality(upTo(x)) = i /\ Cardinality(upTo(y)) = j
    BY <1>1, <1>3, <2>1
  <2>3. ASSUME y <= x PROVE FALSE
    <3>1. \A e \in days : e \in Nat BY <1>1
    <3>2. upTo(y) \subseteq upTo(x) BY <2>2, <2>3, <3>1
    <3>3. IsFiniteSet(upTo(x)) BY <1>2, FS_Subset
    <3> HIDE DEF upTo
    <3>4. Cardinality(upTo(y)) <= Cardinality(upTo(x)) BY <3>2, <3>3, FS_Subset
    <3> QED BY <1>4, <2>2, <3>4
  <2> QED BY <2>1, <2>2, <2>3
<1> QED BY <1>2, <1>3, <1>4

\* What a loop starts with.
LEMMA SeededTrue ==
  ASSUME HistoryInvariant, today \in Calendar, NEW s \in Symbols, NEW readable,
         NEW new, new = Seeded(s, readable)
  PROVE  /\ new \in Seq(Row)
         /\ \A i \in DOMAIN new :
              /\ Completed(new[i].day) /\ TrueClose(s, new[i])
              /\ i > 1 => new[i - 1].day < new[i].day
<1> DEFINE kept == Newest(Stored(s), Capacity)
<1>1. kept \in SUBSET Calendar /\ \A d \in kept : candles[s][d] # None
  BY DEF Newest, Stored
<1> HIDE DEF kept
<1>2. \A d \in kept :
        /\ [day |-> d, close |-> candles[s][d]] \in Row
        /\ Completed(d) /\ candles[s][d] = tape[s][d]
  BY <1>1 DEF HistoryInvariant, CalendarTypes, CandlesAreFinal, Row
<1>3. CASE s \in readable
  <2>1. new = [i \in 1 .. Cardinality(kept) |->
                 [day |-> Nth(kept, i), close |-> candles[s][Nth(kept, i)]]]
    BY <1>3 DEF Seeded, kept
  <2>2. Cardinality(kept) \in Nat /\ \A i \in 1 .. Cardinality(kept) : Nth(kept, i) \in kept
    BY <1>1, NthDays
  <2>3. \A i \in 1 .. Cardinality(kept) : new[i] \in Row BY <1>2, <2>1, <2>2
  <2>4. new \in Seq(Row) /\ DOMAIN new = 1 .. Cardinality(kept) BY <2>1, <2>2, <2>3
  <2>5. ASSUME NEW i \in DOMAIN new PROVE Completed(new[i].day) /\ TrueClose(s, new[i])
    <3>1. new[i].day = Nth(kept, i) /\ new[i].close = candles[s][Nth(kept, i)] BY <2>1
    <3> QED BY <1>2, <2>2, <2>4, <3>1 DEF TrueClose
  <2>6. ASSUME NEW i \in DOMAIN new, i > 1 PROVE new[i - 1].day < new[i].day
    <3>1. i \in 1 .. Cardinality(kept) /\ i - 1 \in 1 .. Cardinality(kept) /\ i - 1 < i
      BY <2>2, <2>4, <2>6
    <3>2. Nth(kept, i - 1) < Nth(kept, i) BY <1>1, <3>1, NthDays
    <3> QED BY <2>1, <3>1, <3>2
  <2> QED BY <2>4, <2>5, <2>6
<1>4. CASE s \notin readable
  <2>1. new = <<>> BY <1>4 DEF Seeded
  <2> QED BY <2>1
<1> QED BY <1>3, <1>4

\* What is said of the window and of the bar in progress of one symbol.
WindowTrue(s) ==
  \A i \in DOMAIN history[s] :
    /\ Completed(history[s][i].day) /\ TrueClose(s, history[s][i])
    /\ i > 1 => history[s][i - 1].day < history[s][i].day

BarLast(s) ==
  partial[s] # <<>> =>
    /\ partial[s][1].day <= today /\ TrueClose(s, partial[s][1])
    /\ \A i \in DOMAIN history[s] : history[s][i].day < partial[s][1].day

LEMMA BySymbol ==
  /\ HistoryIsTrue <=> \A s \in Symbols : WindowTrue(s)
  /\ BarInProgress <=> \A s \in Symbols : BarLast(s)
BY DEF HistoryIsTrue, WindowTrue, TrueClose, BarInProgress, BarLast

\* A trade of another symbol, or one that the loop is not there to receive.
LEMMA TradeElsewhere ==
  ASSUME LoopInvariant, NEW s \in Symbols, UNCHANGED <<today, closed>>,
         history'[s] = history[s], partial'[s] = partial[s], missed'[s] = missed[s],
         tape'[s] = tape[s]
  PROVE  WindowTrue(s)' /\ BarLast(s)'
BY BySymbol DEF LoopInvariant, WindowTrue, BarLast, TrueClose, Completed

\* A trade of s itself, received or not: its day is not over.
LEMMA TradeHere ==
  ASSUME HistoryInvariant, LoopInvariant, up, NEW s \in Symbols, NEW p \in Prices, Trade(s, p)
  PROVE  WindowTrue(s)' /\ BarLast(s)' /\ history'[s] \in Seq(Row) /\ partial'[s] \in Seq(Row)
<1>a. /\ history \in [Symbols -> Seq(Row)] /\ partial \in [Symbols -> Seq(Row)]
      /\ missed \in [Symbols -> SUBSET Calendar] /\ today \in Calendar /\ today \in Nat
      /\ tape \in [Symbols -> [Calendar -> Prices \cup {None}]] /\ closed = FALSE
  BY CalendarDays DEF LoopInvariant, LoopTypes, HistoryInvariant, CalendarTypes, Trade
<1>1. WindowTrue(s) /\ BarLast(s) BY BySymbol DEF LoopInvariant
<1>2. UNCHANGED <<today, closed>> /\ tape'[s] = [tape[s] EXCEPT ![today] = p]
  BY <1>a DEF Trade
<1>3. /\ tape'[s][today] = p
      /\ \A d \in Calendar \ {today} : tape'[s][d] = tape[s][d]
      /\ \A d \in Calendar \ {today} : d \in missed[s] => d \in missed'[s]
  BY <1>a, <1>2 DEF Trade
<1>4. \A d \in Calendar : Completed(d) <=> d < today BY <1>a DEF Completed
<1>5. \A bar \in Row : bar.day # today /\ TrueClose(s, bar) => TrueClose(s, bar)'
  BY <1>3, RowDay DEF TrueClose
<1>6. \A i \in DOMAIN history[s] :
        /\ history[s][i] \in Row /\ history[s][i].day < today
        /\ history[s][i].day \in Nat /\ history[s][i].day # today
  BY <1>1, <1>4, <1>a, RowDay DEF WindowTrue
<1>7. ASSUME NEW new, new \in Seq(Row), history'[s] = new,
             \A i \in DOMAIN new :
               /\ Completed(new[i].day) /\ TrueClose(s, new[i])
               /\ i > 1 => new[i - 1].day < new[i].day
      PROVE  WindowTrue(s)' /\ \A i \in DOMAIN new : new[i].day < today
  <2>1. \A i \in DOMAIN new : new[i] \in Row /\ new[i].day < today /\ new[i].day # today
    <3>1. \A i \in DOMAIN new : new[i] \in Row BY <1>7
    <3> QED BY <1>4, <1>7, <1>a, <3>1, RowDay
  <2>2. \A i \in DOMAIN new : TrueClose(s, new[i])' BY <1>5, <1>7, <2>1
  <2>3. \A i \in DOMAIN new : Completed(new[i].day)' BY <1>2, <1>7 DEF Completed
  <2> QED BY <1>7, <2>1, <2>2, <2>3 DEF WindowTrue, TrueClose
<1>b. ASSUME history'[s] = history[s] PROVE WindowTrue(s)'
  <2>1. PICK new : new = history[s] OBVIOUS
  <2> QED BY <1>1, <1>7, <1>a, <1>b, <2>1 DEF WindowTrue
<1>8. CASE OnQuote(s, p) /\ missed' = [missed EXCEPT ![s] = @ \ {today}]
  <2>1. PICK bar : bar = [day |-> today, close |-> p] OBVIOUS
  <2>2. bar \in Row /\ TrueClose(s, bar)' BY <1>a, <1>3, <2>1 DEF Row, TrueClose
  <2>3. partial'[s] = <<bar>> BY <1>8, <1>a, <2>1 DEF OnQuote
  <2>4. partial'[s] # <<>> /\ partial'[s][1] = bar /\ partial'[s] \in Seq(Row) BY <2>2, <2>3
  <2>5. CASE partial[s] # <<>> /\ partial[s][1].day # today
    <3>1. PICK old \in Row : old = partial[s][1] BY <1>a, <2>5
    <3>2. old.day < today /\ old.day \in Calendar /\ TrueClose(s, old)
          /\ \A i \in DOMAIN history[s] : history[s][i].day < old.day
      BY <1>1, <1>a, <2>5, <3>1, RowDay DEF BarLast
    <3>3. history'[s] = Pushed(history[s], old) BY <1>8, <1>a, <2>5, <3>1 DEF OnQuote
    <3>4. Completed(old.day) BY <1>4, <3>2
    <3>5. PICK new : new = history'[s] OBVIOUS
    <3>6. /\ new \in Seq(Row)
          /\ \A i \in DOMAIN new :
               /\ Completed(new[i].day) /\ TrueClose(s, new[i])
               /\ i > 1 => new[i - 1].day < new[i].day
      BY <1>1, <1>a, <3>2, <3>3, <3>4, <3>5, PushedTrue DEF WindowTrue
    <3>7. WindowTrue(s)' /\ \A i \in DOMAIN new : new[i].day < today BY <1>7, <3>5, <3>6
    <3>8. BarLast(s)' BY <1>2, <1>a, <2>1, <2>2, <2>4, <3>5, <3>7 DEF BarLast, TrueClose
    <3> QED BY <2>4, <3>5, <3>6, <3>7, <3>8
  <2>6. CASE ~(partial[s] # <<>> /\ partial[s][1].day # today)
    <3>1. history'[s] = history[s] BY <1>8, <1>a, <2>6 DEF OnQuote
    <3>2. WindowTrue(s)' BY <1>b, <3>1
    <3>3. BarLast(s)' BY <1>2, <1>6, <1>a, <2>1, <2>2, <2>4, <3>1 DEF BarLast, TrueClose
    <3> QED BY <1>a, <2>4, <3>1, <3>2, <3>3
  <2> QED BY <2>5, <2>6
<1>9. CASE UNCHANGED <<partial, history>> /\ missed' = [missed EXCEPT ![s] = @ \cup {today}]
  <2>1. WindowTrue(s)' BY <1>b, <1>9
  <2>2. BarLast(s)'
    <3> SUFFICES ASSUME partial[s] # <<>> PROVE BarLast(s)'
      BY <1>9 DEF BarLast
    <3>1. PICK bar \in Row : bar = partial[s][1] BY <1>a
    <3>2. TrueClose(s, bar) BY <1>1, <3>1 DEF BarLast
    <3>3. today \in missed'[s] BY <1>9, <1>a
    <3>4. TrueClose(s, bar)' BY <1>5, <3>2, <3>3 DEF TrueClose
    <3> QED BY <1>1, <1>2, <1>9, <3>1, <3>4 DEF BarLast, TrueClose
  <2> QED BY <1>9, <1>a, <2>1, <2>2
<1> QED BY <1>8, <1>9 DEF Trade

LEMMA TradeLoop ==
  ASSUME HistoryInvariant, LoopInvariant, NEW s \in Symbols, NEW p \in Prices, Trade(s, p)
  PROVE  LoopInvariant'
<1>a. /\ history \in [Symbols -> Seq(Row)] /\ partial \in [Symbols -> Seq(Row)]
      /\ missed \in [Symbols -> SUBSET Calendar] /\ today \in Calendar
      /\ tape \in [Symbols -> [Calendar -> Prices \cup {None}]]
      /\ UNCHANGED <<watch, today, closed, up>>
  BY DEF LoopInvariant, LoopTypes, HistoryInvariant, CalendarTypes, Trade
<1>1. CASE ~up
  <2>1. UNCHANGED <<partial, history, missed>> BY <1>1 DEF Trade
  <2>2. \A t \in Symbols : partial[t] = <<>> /\ history[t] = <<>>
    BY <1>1 DEF LoopInvariant, NothingDown
  <2>3. \A t \in Symbols : WindowTrue(t)' /\ BarLast(t)'
    BY <2>1, <2>2 DEF WindowTrue, BarLast
  <2>4. HistoryIsTrue' /\ BarInProgress'
    BY <2>3 DEF HistoryIsTrue, WindowTrue, TrueClose, BarInProgress, BarLast
  <2> QED BY <1>a, <2>1, <2>4 DEF LoopInvariant, LoopTypes, NothingDown
<1>2. CASE up
  <2>1. \A t \in Symbols \ {s} : /\ history'[t] = history[t] /\ partial'[t] = partial[t]
                                 /\ missed'[t] = missed[t] /\ tape'[t] = tape[t]
    BY <1>a DEF Trade, OnQuote
  <2>2. \A t \in Symbols \ {s} : WindowTrue(t)' /\ BarLast(t)'
    BY <1>a, <2>1, TradeElsewhere
  <2>3. /\ WindowTrue(s)' /\ BarLast(s)'
        /\ history'[s] \in Seq(Row) /\ partial'[s] \in Seq(Row)
    BY <1>2, TradeHere
  <2>4. HistoryIsTrue' /\ BarInProgress'
    BY <2>2, <2>3 DEF HistoryIsTrue, WindowTrue, TrueClose, BarInProgress, BarLast
  <2>5. /\ DOMAIN history' = Symbols /\ history' = [t \in Symbols |-> history'[t]]
        /\ DOMAIN partial' = Symbols /\ partial' = [t \in Symbols |-> partial'[t]]
    BY <1>a DEF Trade, OnQuote
  <2>6. missed' \in [Symbols -> SUBSET Calendar]
    <3>1. \/ missed' = [missed EXCEPT ![s] = missed[s] \ {today}]
          \/ missed' = [missed EXCEPT ![s] = missed[s] \cup {today}]
      BY <1>2 DEF Trade
    <3>2. missed[s] \ {today} \in SUBSET Calendar /\ missed[s] \cup {today} \in SUBSET Calendar
      BY <1>a
    <3> QED BY <1>a, <3>1, <3>2
  <2>7. history' \in [Symbols -> Seq(Row)] /\ partial' \in [Symbols -> Seq(Row)]
    BY <1>a, <2>1, <2>3, <2>5
  <2> QED BY <1>2, <1>a, <2>4, <2>6, <2>7 DEF LoopInvariant, LoopTypes, NothingDown
<1> QED BY <1>1, <1>2

LEMMA StartLoopTrue ==
  ASSUME HistoryInvariant, LoopInvariant, StartLoop
  PROVE  LoopInvariant'
<1>1. PICK readable \in SUBSET watch : history' = [s \in Symbols |-> Seeded(s, readable)]
  BY DEF StartLoop
<1>2. UNCHANGED <<today, closed, tape, missed, watch>> /\ up' = TRUE
      /\ partial' = [s \in Symbols |-> <<>>] /\ today \in Calendar
  BY DEF StartLoop, LoopInvariant, LoopTypes
<1>3. ASSUME NEW s \in Symbols PROVE WindowTrue(s)' /\ BarLast(s)' /\ history'[s] \in Seq(Row)
  <2>1. PICK new : new = history'[s] /\ new = Seeded(s, readable) BY <1>1
  <2>2. /\ new \in Seq(Row)
        /\ \A i \in DOMAIN new :
             /\ Completed(new[i].day) /\ TrueClose(s, new[i])
             /\ i > 1 => new[i - 1].day < new[i].day
    BY <1>2, <2>1, SeededTrue
  <2>3. WindowTrue(s)' BY <1>2, <2>1, <2>2 DEF WindowTrue, TrueClose, Completed
  <2> QED BY <1>2, <2>1, <2>2, <2>3 DEF BarLast
<1>4. HistoryIsTrue' /\ BarInProgress'
  BY <1>3 DEF HistoryIsTrue, WindowTrue, TrueClose, BarInProgress, BarLast
<1>5. LoopTypes'
  <2>1. history' \in [Symbols -> Seq(Row)] BY <1>1, <1>3
  <2>2. partial' \in [Symbols -> Seq(Row)] BY <1>2
  <2> QED BY <1>2, <2>1, <2>2 DEF LoopInvariant, LoopTypes
<1> QED BY <1>2, <1>4, <1>5 DEF LoopInvariant, NothingDown

LEMMA LoopStep ==
  ASSUME HistoryInvariant, LoopInvariant, [Next]_vars
  PROVE  LoopInvariant'
<1>1. ASSUME NEW s \in Symbols, NEW p \in Prices, Trade(s, p) PROVE LoopInvariant'
  BY <1>1, TradeLoop
<1>2. CASE StartLoop BY <1>2, StartLoopTrue
<1>3. CASE LoopDies
  <2>1. \A s \in Symbols : history'[s] = <<>> /\ partial'[s] = <<>> BY <1>3 DEF LoopDies
  <2>2. LoopTypes'
    <3>1. history' \in [Symbols -> Seq(Row)] /\ partial' \in [Symbols -> Seq(Row)]
      BY <1>3 DEF LoopDies
    <3>2. missed' \in [Symbols -> SUBSET Calendar] BY <1>3 DEF LoopDies
    <3> QED BY <1>3, <3>1, <3>2 DEF LoopDies, LoopInvariant, LoopTypes
  <2> QED BY <2>1, <2>2 DEF LoopInvariant, NothingDown, BarInProgress, HistoryIsTrue
<1>4. CASE CloseSession \/ NextDay
  <2>a. today \in Nat /\ closed \in BOOLEAN BY DEF HistoryInvariant, CalendarTypes
  <2>1. /\ UNCHANGED <<watch, tape, up, partial, history, missed>>
        /\ today' \in Calendar /\ today <= today'
        /\ \A d \in Nat : Completed(d) => Completed(d)'
    <3>1. CASE CloseSession BY <2>a, <3>1 DEF CloseSession, Completed, LoopInvariant, LoopTypes
    <3>2. CASE NextDay
      <4>1. Horizon(watch) \in Calendar BY HorizonAssumption DEF LoopInvariant, LoopTypes
      <4>2. today' \in Calendar BY <2>a, <3>2, <4>1 DEF NextDay, Calendar
      <4>3. \A d \in Nat : Completed(d) => d < today' BY <2>a, <3>2 DEF NextDay, Completed
      <4> QED BY <2>a, <3>2, <4>2, <4>3 DEF NextDay, Completed
    <3> QED BY <1>4, <3>1, <3>2
  <2>2. ASSUME NEW s \in Symbols PROVE WindowTrue(s)' /\ BarLast(s)'
    <3>1. WindowTrue(s) /\ BarLast(s) BY BySymbol DEF LoopInvariant
    <3>2. history[s] \in Seq(Row) /\ partial[s] \in Seq(Row) BY DEF LoopInvariant, LoopTypes
    <3>3. \A i \in DOMAIN history[s] : history[s][i].day \in Nat
      <4>1. \A i \in DOMAIN history[s] : history[s][i] \in Row BY <3>2
      <4> QED BY <4>1, RowDay
    <3>4. WindowTrue(s)'
      <4>1. PICK window : window = history[s] OBVIOUS
      <4>2. \A i \in DOMAIN window : Completed(window[i].day)'
        BY <2>1, <3>1, <3>3, <4>1 DEF WindowTrue
      <4> QED BY <2>1, <3>1, <4>1, <4>2 DEF WindowTrue, TrueClose
    <3>5. partial[s] # <<>> => partial[s][1].day \in Nat
      <4>1. partial[s] # <<>> => partial[s][1] \in Row BY <3>2
      <4> QED BY <4>1, RowDay
    <3>6. today' \in Nat BY <2>1, CalendarDays
    <3>7. BarLast(s)' BY <2>1, <2>a, <3>1, <3>5, <3>6 DEF BarLast, TrueClose
    <3> QED BY <3>4, <3>7
  <2>3. HistoryIsTrue' /\ BarInProgress'
    BY <2>2 DEF HistoryIsTrue, WindowTrue, TrueClose, BarInProgress, BarLast
  <2> QED BY <2>1, <2>3 DEF LoopInvariant, LoopTypes, NothingDown
<1>5. CASE Backfill \/ (\E span \in Spans, cli \in BOOLEAN : StartBackfill(span, cli)) \/ UNCHANGED vars
  <2>1. UNCHANGED <<watch, today, closed, tape, up, partial, history, missed>>
    BY <1>5 DEF Backfill, StartBackfill, vars, Retry, Report, NextSymbol, FetchPage, StoreBars,
                StoreFails, FetchFails
  <2> QED
    BY <2>1 DEF LoopInvariant, LoopTypes, NothingDown, BarInProgress, HistoryIsTrue, TrueClose, Completed
<1> QED BY <1>1, <1>2, <1>3, <1>4, <1>5 DEF Next, Venue, Loop

-----------------------------------------------------------------------------
(* No bar is dropped: what is not fetched yet lies in a window that is     *)
(* still to be asked for, and a window is split until a page can hold it.  *)

\* How long a window of each depth may be.
Width == CHOOSE width \in [0 .. MaxSplitDepth -> 1 .. WindowDays] : Halving(width)

FitWindow == {w \in [first : Int, last : Int, depth : 0 .. MaxSplitDepth] :
                w.last - w.first < Width[w.depth]}

In(d, w) == w.first <= d /\ d <= w.last

LEMMA WidthHalves ==
  /\ \A depth \in 0 .. MaxSplitDepth : Width[depth] \in Nat
  /\ Width[0] = WindowDays /\ Width[MaxSplitDepth] <= PageLimit
  /\ \A depth \in 1 .. MaxSplitDepth : Width[depth - 1] <= 2 * Width[depth]
<1>1. Width \in [0 .. MaxSplitDepth -> 1 .. WindowDays] /\ Halving(Width)
  BY SplitAssumption, Zenon DEF Width
<1> HIDE DEF Width
<1> QED BY <1>1 DEF Halving

LEMMA Quotient ==
  ASSUME NEW x \in Nat, NEW n \in Nat \ {0}
  PROVE  x \div n \in Nat /\ (x \div n) * n <= x /\ x < (x \div n) * n + n
OBVIOUS

LEMMA QuotientGrows ==
  ASSUME NEW x \in Nat, NEW y \in Nat, x <= y, NEW n \in Nat \ {0}
  PROVE  x \div n <= y \div n
<1>1. PICK p \in Nat, q \in Nat : p = x \div n /\ q = y \div n BY Quotient
<1>2. p * n <= x /\ y < q * n + n BY <1>1, Quotient
<1>3. ASSUME p > q PROVE FALSE
  <2>1. p >= q + 1 /\ p - (q + 1) \in Nat BY <1>3
  <2>2. (p - (q + 1)) * n \in Nat BY <2>1
  <2>3. p * n = (p - (q + 1)) * n + q * n + n OBVIOUS
  <2>4. p * n \in Nat /\ q * n \in Nat OBVIOUS
  <2> QED BY <1>2, <2>2, <2>3, <2>4
<1> QED BY <1>1, <1>3

\* The windows of a range cover it.
LEMMA WindowsCover ==
  ASSUME NEW from \in Int, NEW to \in Int
  PROVE  /\ Windows(from, to) \in Seq(FitWindow)
         /\ \A d \in from .. to : \E i \in DOMAIN Windows(from, to) : In(d, Windows(from, to)[i])
<1>1. CASE from > to
  <2>1. Windows(from, to) = <<>> BY <1>1 DEF Windows
  <2>2. from .. to = {} BY <1>1
  <2> QED BY <2>1, <2>2
<1>2. CASE from <= to
  <2>1. PICK n : n = (to - from) \div WindowDays + 1 OBVIOUS
  <2>2. to - from \in Nat /\ (to - from) \div WindowDays \in Nat /\ n \in Nat
    BY <1>2, <2>1, Quotient
  <2> DEFINE end(i) == IF from + i * WindowDays - 1 < to THEN from + i * WindowDays - 1 ELSE to
             w(i) == [first |-> from + (i - 1) * WindowDays, last |-> end(i), depth |-> 0]
  <2>3. Windows(from, to) = [i \in 1 .. n |-> w(i)] BY <1>2, <2>1 DEF Windows
  <2>4. ASSUME NEW i \in 1 .. n PROVE w(i) \in FitWindow
    <3>1. PICK a \in Int : a = (i - 1) * WindowDays OBVIOUS
    <3>2. i * WindowDays = a + WindowDays BY <3>1
    <3>3. end(i) \in Int /\ end(i) - (from + a) < WindowDays BY <3>2
    <3>4. 0 \in 0 .. MaxSplitDepth OBVIOUS
    <3> QED BY <3>1, <3>3, <3>4, WidthHalves DEF FitWindow
  <2>5. ASSUME NEW d \in from .. to PROVE \E i \in 1 .. n : In(d, w(i))
    <3>1. d - from \in Nat /\ d - from <= to - from OBVIOUS
    <3>2. PICK q \in Nat : q = (d - from) \div WindowDays BY <3>1, Quotient
    <3>3. q <= (to - from) \div WindowDays BY <2>2, <3>1, <3>2, QuotientGrows
    <3>4. q + 1 \in 1 .. n BY <2>1, <2>2, <3>3
    <3>5. PICK a \in Int : a = q * WindowDays OBVIOUS
    <3>6. a <= d - from /\ d - from < a + WindowDays BY <3>1, <3>2, <3>5, Quotient
    <3>7. ((q + 1) - 1) * WindowDays = a /\ (q + 1) * WindowDays = a + WindowDays BY <3>5
    <3>8. In(d, w(q + 1)) BY <3>6, <3>7 DEF In
    <3> QED BY <3>4, <3>8
  <2> HIDE DEF w
  <2> QED BY <2>2, <2>3, <2>4, <2>5
<1> QED BY <1>1, <1>2

\* The halves of a window cover it, and are short enough for their depth.
LEMMA HalvesCover ==
  ASSUME NEW w \in FitWindow, w.depth < MaxSplitDepth, w.first < w.last
  PROVE  /\ Halves(w) \in Seq(FitWindow) /\ Len(Halves(w)) = 2
         /\ \A d \in Int : In(d, w) => In(d, Halves(w)[1]) \/ In(d, Halves(w)[2])
<1>1. /\ w.first \in Int /\ w.last \in Int /\ w.depth \in 0 .. MaxSplitDepth
      /\ w.last - w.first < Width[w.depth]
  BY DEF FitWindow
<1>2. PICK k \in Nat : k = Width[w.depth + 1] BY <1>1, WidthHalves
<1>3. w.last - w.first < 2 * k
  <2>1. w.depth + 1 \in 1 .. MaxSplitDepth /\ (w.depth + 1) - 1 = w.depth BY <1>1
  <2>2. Width[w.depth] <= 2 * k /\ Width[w.depth] \in Nat BY <1>1, <1>2, <2>1, WidthHalves
  <2> QED BY <1>1, <2>2
<1>4. PICK mid \in Int : mid = w.first + (w.last - w.first) \div 2 BY <1>1
<1>5. /\ w.first <= mid /\ mid < w.last
      /\ mid - w.first < k /\ w.last - (mid + 1) < k
  BY <1>1, <1>3, <1>4
<1>6. PICK older, newer : /\ older = [first |-> w.first, last |-> mid, depth |-> w.depth + 1]
                          /\ newer = [first |-> mid + 1, last |-> w.last, depth |-> w.depth + 1]
  OBVIOUS
<1>7. Halves(w) = <<older, newer>> BY <1>4, <1>6 DEF Halves
<1>8. w.depth + 1 \in 0 .. MaxSplitDepth BY <1>1
<1>9. older \in FitWindow /\ newer \in FitWindow BY <1>1, <1>2, <1>5, <1>6, <1>8 DEF FitWindow
<1>10. \A d \in Int : In(d, w) => In(d, older) \/ In(d, newer) BY <1>1, <1>6 DEF In
<1> QED BY <1>7, <1>9, <1>10

LEMMA GreatestExists ==
  ASSUME NEW days \in SUBSET Calendar, days # {}
  PROVE  \E d \in days : \A e \in days : e <= d
<1> DEFINE S == {Days - d : d \in days}
<1>1. \A d \in days : d \in Int /\ Days - d \in Nat BY DEF Calendar
<1>2. S \in SUBSET Nat /\ S # {} BY <1>1
<1>3. PICK x \in S : \A y \in S : x <= y BY <1>2, LeastExists
<1>4. PICK d \in days : x = Days - d BY <1>3
<1>5. ASSUME NEW e \in days PROVE e <= d
  <2>1. Days - d <= Days - e BY <1>3, <1>4
  <2> QED BY <1>1, <2>1
<1> QED BY <1>5

LEMMA FiniteDays == \A days \in SUBSET Calendar : IsFiniteSet(days)
<1>1. IsFiniteSet(1 .. Days) BY FS_Interval
<1> QED BY <1>1, FS_Subset DEF Calendar

\* Of fewer rows than a page takes, none is left out.
LEMMA NewestAll ==
  ASSUME NEW days \in SUBSET Calendar, NEW n \in Nat, Cardinality(Newest(days, n)) < n
  PROVE  Newest(days, n) = days
<1> DEFINE later(d) == {e \in days : e > d}
<1>1. IsFiniteSet(days) BY FiniteDays
<1>2. SUFFICES ASSUME days \ Newest(days, n) # {} PROVE FALSE
  BY DEF Newest
<1>3. PICK d \in days \ Newest(days, n) : \A e \in days \ Newest(days, n) : e <= d
  BY <1>2, GreatestExists
<1>4. \A e \in days : e \in Nat BY CalendarDays
<1>5. later(d) \subseteq Newest(days, n) BY <1>3, <1>4
<1>6. ~(Cardinality(later(d)) < n) BY <1>3 DEF Newest
<1>7. Newest(days, n) \subseteq days BY DEF Newest
<1>8. IsFiniteSet(Newest(days, n)) /\ IsFiniteSet(later(d)) BY <1>1, <1>7, FS_Subset
<1> HIDE DEF later
<1>9. Cardinality(later(d)) <= Cardinality(Newest(days, n)) BY <1>5, <1>8, FS_Subset
<1> QED BY <1>6, <1>8, <1>9, FS_CardinalityType

\* A page that is not split holds every row of its window.
LEMMA PageWhole ==
  ASSUME HistoryInvariant, NEW s \in Symbols, NEW w \in FitWindow, ~Full(Page(s, w), w)
  PROVE  \A d \in Calendar : In(d, w) /\ tape[s][d] # None => \E r \in Page(s, w) : r.day = d
<1> DEFINE rows == {d \in Calendar \cap (w.first .. w.last) : tape[s][d] # None}
           bar(d) == [day |-> d, close |-> tape[s][d]]
<1>1. /\ w.first \in Int /\ w.last \in Int /\ w.depth \in 0 .. MaxSplitDepth
      /\ w.last - w.first < Width[w.depth]
  BY DEF FitWindow
<1>2. rows \in SUBSET Calendar /\ IsFiniteSet(rows) BY FiniteDays
<1>3. Page(s, w) = {bar(d) : d \in Newest(rows, PageLimit)} BY DEF Page
<1>4. Newest(rows, PageLimit) = rows
  <2>1. CASE ~(Cardinality(Page(s, w)) >= PageLimit)
    <3> DEFINE f == [d \in Newest(rows, PageLimit) |-> bar(d)]
    <3>1. f \in Bijection(Newest(rows, PageLimit), Page(s, w))
      BY <1>3 DEF Bijection, Injection, IsInjective, Surjection
    <3>2. IsFiniteSet(Newest(rows, PageLimit)) BY <1>2, FS_Subset DEF Newest
    <3> HIDE DEF f, rows
    <3>3. Cardinality(Page(s, w)) = Cardinality(Newest(rows, PageLimit))
      BY <3>1, <3>2, FS_Bijection DEF ExistsBijection
    <3>4. Cardinality(Newest(rows, PageLimit)) \in Nat BY <3>2, FS_CardinalityType
    <3>5. Cardinality(Newest(rows, PageLimit)) < PageLimit BY <2>1, <3>3, <3>4
    <3> QED BY <1>2, <3>5, NewestAll
  <2>2. CASE w.depth = MaxSplitDepth \/ w.first >= w.last
    <3>1. w.last - w.first < PageLimit BY <1>1, <2>2, WidthHalves
    <3>2. ASSUME NEW d \in rows PROVE Cardinality({e \in rows : e > d}) < PageLimit
      <4>1. d \in Int /\ w.first <= d /\ d <= w.last BY CalendarDays, <1>1
      <4>2. {e \in rows : e > d} \subseteq (d + 1) .. w.last BY <1>1, <4>1
      <4>3. IsFiniteSet((d + 1) .. w.last) /\ Cardinality((d + 1) .. w.last) <= w.last - d
        <5>1. PICK a \in Int, b \in Int : a = d + 1 /\ b = w.last BY <1>1, <4>1
        <5>2. IsFiniteSet(a .. b) /\ Cardinality(a .. b) = IF a > b THEN 0 ELSE b - a + 1
          BY FS_Interval
        <5> QED BY <4>1, <5>1, <5>2
      <4>4. /\ Cardinality({e \in rows : e > d}) \in Nat
            /\ Cardinality({e \in rows : e > d}) <= Cardinality((d + 1) .. w.last)
        BY <4>2, <4>3, FS_Subset, FS_CardinalityType
      <4>5. Cardinality((d + 1) .. w.last) \in Nat BY <4>3, FS_CardinalityType
      <4> HIDE DEF rows
      <4> QED BY <1>1, <3>1, <4>1, <4>3, <4>4, <4>5
    <3> QED BY <3>2 DEF Newest
  <2> QED BY <1>1, <2>1, <2>2 DEF Full
<1>5. ASSUME NEW d \in Calendar, In(d, w), tape[s][d] # None
      PROVE  \E r \in Page(s, w) : r.day = d
  <2>1. d \in rows BY <1>1, <1>5, CalendarDays DEF In
  <2>2. bar(d) \in Page(s, w) BY <1>3, <1>4, <2>1
  <2> QED BY <2>2
<1> QED BY <1>5

\* The windows still to be asked for, and what the symbols have come to.
ChartTypes ==
  /\ job.pending \in Seq(FitWindow)
  /\ job.outcome \in [Symbols -> {"none", "stored", "server", "failed"}]
  /\ job.first \in Int /\ job.last \in Int

\* The dates asked for span the days that are kept, which are over.
SpanCovers ==
  /\ job.to <= LastClosed
  /\ job.stage \in {"next", "pages"} => job.first <= job.from /\ job.to <= job.last

\* A day with a bar has been fetched or lies in a window still to be asked for.
FetchedOrPending ==
  job.stage = "pages" =>
    \A s \in job.symbol : \A d \in Calendar \cap (job.from .. job.to) :
      tape[s][d] # None =>
        \/ \E r \in job.got : r.day = d
        \/ \E i \in DOMAIN job.pending : In(d, job.pending[i])

ChartInvariant == ChartTypes /\ SpanCovers /\ FetchedOrPending /\ NoBarDropped

LEMMA ChartInit == Init => ChartInvariant
<1> SUFFICES ASSUME Init PROVE ChartInvariant
  OBVIOUS
<1>1. /\ job.stage = "idle" /\ job.pending = <<>> /\ job.first = 0 /\ job.last = 0 /\ job.to = 0
      /\ job.outcome = [s \in Symbols |-> "none"] /\ today = 1 /\ closed = FALSE
  BY DEF Init, Idle
<1>2. ChartTypes BY <1>1 DEF ChartTypes
<1>3. SpanCovers BY <1>1 DEF SpanCovers, LastClosed
<1>4. FetchedOrPending /\ NoBarDropped BY <1>1 DEF FetchedOrPending, NoBarDropped
<1> QED BY <1>2, <1>3, <1>4 DEF ChartInvariant

\* The days of the range are over, for the venue and for the calendar.
LEMMA VenueKeepsChart ==
  ASSUME HistoryInvariant, ChartInvariant, Venue
  PROVE  ChartInvariant'
<1>a. /\ today \in Nat /\ closed \in BOOLEAN /\ job.from \in Int /\ job.to \in Int
      /\ job.symbol \subseteq Symbols
      /\ tape \in [Symbols -> [Calendar -> Prices \cup {None}]]
  BY DEF HistoryInvariant, CalendarTypes, JobTypes
<1>1. UNCHANGED <<job, candles>> BY DEF Venue, Trade, CloseSession, NextDay
<1>2. LastClosed \in Int /\ LastClosed' \in Int /\ LastClosed <= LastClosed'
  <2>1. CASE CloseSession BY <1>a, <2>1 DEF CloseSession, LastClosed
  <2>2. CASE NextDay
    <3>1. closed /\ today' = today + 1 /\ ~closed' BY <2>2 DEF NextDay
    <3>2. LastClosed = today BY <3>1, Zenon DEF LastClosed
    <3>3. LastClosed' = today' - 1 BY <3>1, Zenon DEF LastClosed
    <3> QED BY <1>a, <3>1, <3>2, <3>3
  <2>3. ASSUME NEW s \in Symbols, NEW p \in Prices, Trade(s, p)
        PROVE  LastClosed \in Int /\ LastClosed' = LastClosed
    BY <1>a, <2>3 DEF Trade, LastClosed
  <2> QED BY <2>1, <2>2, <2>3 DEF Venue
<1>3. \A s \in Symbols, d \in Calendar : d <= job.to => tape'[s][d] = tape[s][d]
  <2>1. CASE CloseSession \/ NextDay BY <2>1 DEF CloseSession, NextDay
  <2>2. ASSUME NEW s \in Symbols, NEW p \in Prices, Trade(s, p)
        PROVE  \A t \in Symbols, d \in Calendar : d <= job.to => tape'[t][d] = tape[t][d]
    <3>1. /\ ~closed /\ tape' = [tape EXCEPT ![s] = [tape[s] EXCEPT ![today] = p]]
      BY <2>2 DEF Trade
    <3>2. job.to <= today - 1 BY <3>1 DEF ChartInvariant, SpanCovers, LastClosed
    <3>3. \A d \in Calendar : d <= job.to => d # today BY <1>a, <3>2, CalendarDays
    <3> QED BY <1>a, <3>1, <3>3
  <2> QED BY <2>1, <2>2 DEF Venue
<1>4. ChartTypes' /\ SpanCovers' BY <1>1, <1>2, <1>a DEF ChartInvariant, ChartTypes, SpanCovers
<1>5. \A d \in Calendar \cap (job.from .. job.to) : d <= job.to BY <1>a
<1>6. FetchedOrPending' BY <1>1, <1>3, <1>5, <1>a DEF ChartInvariant, FetchedOrPending
<1>7. NoBarDropped' BY <1>1, <1>3, <1>5 DEF ChartInvariant, NoBarDropped
<1> QED BY <1>4, <1>6, <1>7 DEF ChartInvariant

\* A step of the job that stores nothing, and reports no symbol as stored.
LEMMA JobKeepsChart ==
  ASSUME ChartInvariant, UNCHANGED <<venueVars, candles>>, ChartTypes',
         job'.to \in {job.to, LastClosed}, LastClosed \in Int,
         job'.stage \in {"next", "pages"} => job'.first <= job'.from /\ job'.to <= job'.last,
         job'.stage # "pages",
         \/ \A s \in Symbols : job'.outcome[s] # "stored"
         \/ /\ job'.from = job.from /\ job'.to = job.to
            /\ \A s \in Symbols : job'.outcome[s] = "stored" => job.outcome[s] = "stored"
  PROVE  ChartInvariant'
<1>1. SpanCovers' BY DEF ChartInvariant, SpanCovers, LastClosed
<1>2. FetchedOrPending' BY DEF FetchedOrPending
<1>3. NoBarDropped' BY DEF ChartInvariant, NoBarDropped
<1> QED BY <1>1, <1>2, <1>3 DEF ChartInvariant

LEMMA PlainKeepsChart ==
  ASSUME HistoryInvariant, ChartInvariant,
         \/ Retry \/ Report
         \/ \E span \in Spans, cli \in BOOLEAN : StartBackfill(span, cli)
         \/ \E s \in Symbols : StoreFails(s) \/ FetchFails(s, "server") \/ FetchFails(s, "failed")
  PROVE  ChartInvariant'
<1> USE DEF ChartInvariant, ChartTypes
<1>a. LastClosed \in Int /\ today \in Nat /\ job.from \in Int /\ job.to \in Int
  BY DEF HistoryInvariant, CalendarTypes, JobTypes, LastClosed
<1>1. ASSUME NEW span \in Spans, NEW cli \in BOOLEAN, StartBackfill(span, cli) PROVE ChartInvariant'
  <2>1. /\ job'.stage = "next" /\ job'.pending = <<>> /\ job'.outcome = [s \in Symbols |-> "none"]
        /\ job'.first = today - span /\ job'.last = today
        /\ job'.from = LastClosed - span + 1 /\ job'.to = LastClosed
        /\ UNCHANGED <<venueVars, candles>>
    BY <1>1 DEF StartBackfill, Idle
  <2>2. LastClosed = today \/ LastClosed = today - 1 BY DEF LastClosed
  <2>3. span \in Nat OBVIOUS
  <2>4. ChartTypes' BY <1>a, <2>1, <2>3
  <2>5. job'.first <= job'.from /\ job'.to <= job'.last BY <1>a, <2>1, <2>2, <2>3
  <2> HIDE DEF ChartInvariant, ChartTypes
  <2> QED BY <1>a, <2>1, <2>4, <2>5, JobKeepsChart
<1>2. ASSUME NEW s \in Symbols, StoreFails(s) \/ FetchFails(s, "server") \/ FetchFails(s, "failed")
      PROVE  ChartInvariant'
  <2>1. PICK error \in {"server", "failed"} : StoreFails(s) \/ FetchFails(s, error) BY <1>2
  <2>2. /\ job.stage = "pages" /\ job'.stage = "next" /\ UNCHANGED <<venueVars, candles>>
        /\ job'.first = job.first /\ job'.last = job.last
        /\ job'.from = job.from /\ job'.to = job.to
        /\ job'.pending \in {job.pending, <<>>}
        /\ \E e \in {"server", "failed"} : job'.outcome = [job.outcome EXCEPT ![s] = e]
    BY <2>1 DEF StoreFails, FetchFails, HistoryInvariant, JobTypes
  <2>3. ChartTypes'
    <3>1. job.pending \in Seq(FitWindow) OBVIOUS
    <3>2. <<>> \in Seq(FitWindow) OBVIOUS
    <3>3. job'.pending \in Seq(FitWindow) BY <2>2, <3>1, <3>2
    <3>4. job'.outcome \in [Symbols -> {"none", "stored", "server", "failed"}] BY <2>2
    <3> QED BY <2>2, <3>3, <3>4
  <2>4. \A t \in Symbols : job'.outcome[t] = "stored" => job.outcome[t] = "stored" BY <2>2
  <2>5. job'.first <= job'.from /\ job'.to <= job'.last BY <2>2 DEF SpanCovers
  <2> HIDE DEF ChartInvariant, ChartTypes
  <2> QED BY <1>a, <2>2, <2>3, <2>4, <2>5, JobKeepsChart
<1>3. CASE Retry \/ Report
  <2>1. /\ job.stage = "next" /\ job'.stage \in {"next", "done", "failed"}
        /\ UNCHANGED <<venueVars, candles>>
        /\ job'.first = job.first /\ job'.last = job.last
        /\ job'.from = job.from /\ job'.to = job.to
        /\ job'.pending = job.pending /\ job'.outcome = job.outcome
    BY <1>3 DEF Retry, Report, HistoryInvariant, JobTypes
  <2>2. ChartTypes' BY <2>1
  <2>3. job'.first <= job'.from /\ job'.to <= job'.last BY <2>1 DEF SpanCovers
  <2> HIDE DEF ChartInvariant, ChartTypes
  <2> QED BY <1>a, <2>1, <2>2, <2>3, JobKeepsChart
<1> QED BY <1>1, <1>2, <1>3

\* The next symbol: its windows cover the range.
LEMMA NextKeepsChart ==
  ASSUME HistoryInvariant, ChartInvariant, NEW s \in Symbols, NextSymbol(s)
  PROVE  ChartInvariant'
<1>1. /\ job.stage = "next" /\ job'.stage = "pages"
      /\ UNCHANGED <<today, closed, tape, candles>>
      /\ job'.first = job.first /\ job'.last = job.last
      /\ job'.from = job.from /\ job'.to = job.to
      /\ job'.pending = Windows(job.first, job.last) /\ job'.outcome = job.outcome
  BY DEF NextSymbol, HistoryInvariant, JobTypes
<1>2. job.first \in Int /\ job.last \in Int /\ job.from \in Int /\ job.to \in Int
  BY DEF ChartInvariant, ChartTypes, HistoryInvariant, JobTypes
<1>3. PICK windows : windows = Windows(job.first, job.last) OBVIOUS
<1>4. /\ windows \in Seq(FitWindow)
      /\ \A d \in job.first .. job.last : \E i \in DOMAIN windows : In(d, windows[i])
  BY <1>2, <1>3, WindowsCover
<1>5. ChartTypes' BY <1>1, <1>3, <1>4 DEF ChartInvariant, ChartTypes
<1>6. SpanCovers' BY <1>1 DEF ChartInvariant, SpanCovers, LastClosed
<1>7. \A d \in job.from .. job.to : d \in job.first .. job.last
  BY <1>1, <1>2 DEF ChartInvariant, SpanCovers
<1>8. FetchedOrPending'
  <2>1. \A d \in job.from .. job.to : \E i \in DOMAIN windows : In(d, windows[i])
    BY <1>4, <1>7
  <2> QED BY <1>1, <1>3, <2>1 DEF FetchedOrPending
<1>9. NoBarDropped' BY <1>1 DEF ChartInvariant, NoBarDropped
<1> QED BY <1>5, <1>6, <1>8, <1>9 DEF ChartInvariant

\* Two windows put on top of the stack.
LEMMA TwoMore ==
  ASSUME NEW T, NEW front \in Seq(T), NEW two \in Seq(T), Len(two) = 2
  PROVE  /\ front \o two \in Seq(T) /\ Len(front \o two) = Len(front) + 2
         /\ \A i \in 1 .. Len(front) : (front \o two)[i] = front[i]
         /\ (front \o two)[Len(front) + 1] = two[1]
         /\ (front \o two)[Len(front) + 2] = two[2]
<1>1. PICK k \in Nat : k = Len(front) OBVIOUS
<1>2. PICK both : both = front \o two OBVIOUS
<1>3. /\ both \in Seq(T) /\ Len(both) = k + 2
      /\ \A i \in 1 .. k + 2 : both[i] = IF i <= k THEN front[i] ELSE two[i - k]
  <2>1. /\ front \o two \in Seq(T) /\ Len(front \o two) = Len(front) + Len(two)
        /\ \A i \in 1 .. Len(front) + Len(two) :
             (front \o two)[i] = IF i <= Len(front) THEN front[i] ELSE two[i - Len(front)]
    BY ConcatProperties, Zenon
  <2> QED BY <1>1, <1>2, <2>1, Zenon
<1>4. \A i \in 1 .. k : both[i] = front[i] BY <1>3
<1>5. k + 1 \in 1 .. k + 2 /\ ~(k + 1 <= k) /\ (k + 1) - k = 1 OBVIOUS
<1>6. k + 2 \in 1 .. k + 2 /\ ~(k + 2 <= k) /\ (k + 2) - k = 2 OBVIOUS
<1>7. both[k + 1] = two[1] BY <1>3, <1>5
<1>8. both[k + 2] = two[2] BY <1>3, <1>6
<1> QED BY <1>1, <1>2, <1>3, <1>4, <1>7, <1>8

\* A page takes the place of its window, or the halves do.
LEMMA FetchKeepsChart ==
  ASSUME HistoryInvariant, ChartInvariant, NEW s \in Symbols, FetchPage(s)
  PROVE  ChartInvariant'
<1>a. job.pending \in Seq(FitWindow) /\ job.pending # <<>> /\ s \in job.symbol
      /\ job.symbol \subseteq Symbols /\ \A x, y \in job.symbol : x = y
  BY DEF FetchPage, ChartInvariant, ChartTypes, HistoryInvariant, JobTypes, JobInRange
<1>1. PICK n \in Nat : n = Len(job.pending) /\ n > 0 BY <1>a
<1>2. PICK w \in FitWindow : w = job.pending[n] /\ w = Last(job.pending)
  BY <1>1, <1>a DEF Last
<1>3. PICK front : front = Front(job.pending) OBVIOUS
<1>4. /\ front \in Seq(FitWindow) /\ Len(front) = n - 1
      /\ \A i \in 1 .. n - 1 : front[i] = job.pending[i]
  BY <1>1, <1>3, <1>a DEF Front
<1>5. /\ job.stage = "pages" /\ job'.stage = "pages"
      /\ UNCHANGED <<today, closed, tape, candles>>
      /\ job'.first = job.first /\ job'.last = job.last /\ job'.symbol = job.symbol
      /\ job'.from = job.from /\ job'.to = job.to /\ job'.outcome = job.outcome
      /\ IF Full(Page(s, w), w)
           THEN job'.pending = front \o Halves(w) /\ job'.got = job.got
           ELSE job'.pending = front /\ job'.got = job.got \cup Page(s, w)
  BY <1>2, <1>3 DEF FetchPage, HistoryInvariant, JobTypes
<1>6. SpanCovers' /\ NoBarDropped'
  BY <1>5 DEF ChartInvariant, SpanCovers, NoBarDropped, LastClosed
<1>7. SUFFICES /\ job'.pending \in Seq(FitWindow)
               /\ \A d \in Calendar : tape[s][d] # None =>
                    \A i \in DOMAIN job.pending : In(d, job.pending[i]) =>
                      \/ \E r \in job'.got : r.day = d
                      \/ \E j \in DOMAIN job'.pending : In(d, job'.pending[j])
  <2> SUFFICES ASSUME job'.pending \in Seq(FitWindow),
                      \A d \in Calendar : tape[s][d] # None =>
                        \A i \in DOMAIN job.pending : In(d, job.pending[i]) =>
                          \/ \E r \in job'.got : r.day = d
                          \/ \E j \in DOMAIN job'.pending : In(d, job'.pending[j])
               PROVE  ChartInvariant'
    OBVIOUS
  <2>1. ChartTypes' BY <1>5 DEF ChartInvariant, ChartTypes
  <2>2. job.got \subseteq job'.got BY <1>5
  <2>3. FetchedOrPending' BY <1>5, <1>a, <2>2 DEF ChartInvariant, FetchedOrPending
  <2> QED BY <1>6, <2>1, <2>3 DEF ChartInvariant
<1>8. CASE Full(Page(s, w), w)
  <2>1. w.depth < MaxSplitDepth /\ w.first < w.last BY <1>8 DEF Full
  <2>2. PICK halves : halves = Halves(w) OBVIOUS
  <2>3. halves \in Seq(FitWindow) /\ Len(halves) = 2
        /\ \A d \in Int : In(d, w) => In(d, halves[1]) \/ In(d, halves[2])
    BY <2>1, <2>2, HalvesCover
  <2>4. PICK new : new = front \o halves /\ new = job'.pending BY <1>5, <1>8, <2>2
  <2>5. /\ new \in Seq(FitWindow) /\ Len(new) = n + 1
        /\ \A i \in 1 .. n - 1 : new[i] = job.pending[i]
        /\ new[n] = halves[1] /\ new[n + 1] = halves[2]
    <3>1. front \in Seq(FitWindow) /\ Len(front) + 1 = n /\ Len(front) + 2 = n + 1 BY <1>1, <1>4
    <3>2. /\ new \in Seq(FitWindow) /\ Len(new) = Len(front) + 2
          /\ \A i \in 1 .. Len(front) : new[i] = front[i]
          /\ new[Len(front) + 1] = halves[1] /\ new[Len(front) + 2] = halves[2]
      <4>1. halves \in Seq(FitWindow) /\ Len(halves) = 2 BY <2>3
      <4>2. /\ front \o halves \in Seq(FitWindow) /\ Len(front \o halves) = Len(front) + 2
            /\ \A i \in 1 .. Len(front) : (front \o halves)[i] = front[i]
            /\ (front \o halves)[Len(front) + 1] = halves[1]
            /\ (front \o halves)[Len(front) + 2] = halves[2]
        BY <3>1, <4>1, TwoMore
      <4>3. new = front \o halves BY <2>4
      <4> QED BY <4>2, <4>3, Zenon
    <3>3. 1 .. n - 1 = 1 .. Len(front) BY <1>1, <1>4
    <3> QED BY <1>4, <3>1, <3>2, <3>3, Zenon
  <2>6. ASSUME NEW d \in Calendar, NEW i \in DOMAIN job.pending, In(d, job.pending[i])
        PROVE  \E j \in DOMAIN new : In(d, new[j])
    <3>1. CASE i = n
      <4>a. d \in Int BY CalendarDays
      <4>b. In(d, w) BY <1>2, <2>6, <3>1
      <4>1. In(d, new[n]) \/ In(d, new[n + 1]) BY <2>3, <2>5, <4>a, <4>b
      <4>2. n \in DOMAIN new /\ n + 1 \in DOMAIN new BY <1>1, <2>5
      <4> QED BY <4>1, <4>2
    <3>2. CASE i # n
      <4>1. i \in 1 .. n - 1 /\ i \in DOMAIN new BY <1>1, <1>a, <2>5, <3>2
      <4> QED BY <2>5, <2>6, <4>1
    <3> QED BY <3>1, <3>2
  <2> QED BY <2>4, <2>5, <2>6
<1>9. CASE ~Full(Page(s, w), w)
  <2>1. job'.pending = front /\ job'.got = job.got \cup Page(s, w) BY <1>5, <1>9
  <2>2. ASSUME NEW d \in Calendar, tape[s][d] # None, NEW i \in DOMAIN job.pending,
               In(d, job.pending[i])
        PROVE  \/ \E r \in job'.got : r.day = d
               \/ \E j \in DOMAIN job'.pending : In(d, job'.pending[j])
    <3>1. CASE i = n
      <4>1. In(d, w) BY <1>2, <2>2, <3>1
      <4>2. \E r \in Page(s, w) : r.day = d BY <1>9, <2>2, <4>1, PageWhole
      <4> QED BY <2>1, <4>2
    <3>2. CASE i # n
      <4>1. i \in 1 .. n - 1 BY <1>1, <1>a, <3>2
      <4>2. i \in DOMAIN front /\ front[i] = job.pending[i] BY <1>1, <1>4, <4>1
      <4> QED BY <2>1, <2>2, <4>2
    <3> QED BY <3>1, <3>2
  <2> QED BY <1>4, <2>1, <2>2
<1> QED BY <1>8, <1>9

\* What was fetched of the range is written.
LEMMA StoreKeepsChart ==
  ASSUME HistoryInvariant, ChartInvariant, NEW s \in Symbols, StoreBars(s)
  PROVE  ChartInvariant'
<1> DEFINE written == Retained(job.got)
           stored == Upserted(candles[s], written)
<1>1. /\ job.stage = "pages" /\ job'.stage = "next" /\ s \in job.symbol /\ job.pending = <<>>
      /\ UNCHANGED <<today, closed, tape>> /\ candles' = [candles EXCEPT ![s] = stored]
      /\ job'.first = job.first /\ job'.last = job.last
      /\ job'.from = job.from /\ job'.to = job.to /\ job'.pending = job.pending
      /\ job'.outcome = [job.outcome EXCEPT ![s] = "stored"]
  BY DEF StoreBars, HistoryInvariant, JobTypes
<1>2. /\ candles \in [Symbols -> [Calendar -> Prices \cup {None}]] /\ job.got \subseteq Row
      /\ job.from \in Int /\ job.to \in Int
  BY DEF HistoryInvariant, CalendarTypes, JobTypes
<1>3. ChartTypes'
  <2>1. job'.outcome \in [Symbols -> {"none", "stored", "server", "failed"}]
    BY <1>1 DEF ChartInvariant, ChartTypes
  <2> QED BY <1>1, <2>1 DEF ChartInvariant, ChartTypes
<1>4. SpanCovers' BY <1>1 DEF ChartInvariant, SpanCovers, LastClosed
<1>5. FetchedOrPending' BY <1>1 DEF FetchedOrPending
<1>6. ASSUME NEW d \in Calendar \cap (job.from .. job.to), tape[s][d] # None
      PROVE  stored[d] # None
  <2>1. PICK r \in job.got : r.day = d
    BY <1>1, <1>6 DEF ChartInvariant, FetchedOrPending
  <2>2. r \in written BY <1>2, <2>1 DEF Retained
  <2>3. PICK q \in written : q.day = d /\ stored[d] = q.close
    <3>1. (CHOOSE q \in written : q.day = d) \in written
          /\ (CHOOSE q \in written : q.day = d).day = d
      BY <2>1, <2>2
    <3> QED BY <2>1, <2>2, <3>1 DEF Upserted
  <2>4. q \in Row BY <1>2, <2>3 DEF Retained
  <2>5. q.close \in Prices BY <2>4, RowDay
  <2> QED BY <2>3, <2>5
<1>7. NoBarDropped'
  <2> HIDE DEF stored
  <2> SUFFICES ASSUME NEW t \in Symbols, job'.outcome[t] = "stored",
                      NEW d \in Calendar \cap (job.from .. job.to), tape[t][d] # None
               PROVE  candles'[t][d] # None
    BY <1>1 DEF NoBarDropped
  <2>1. CASE t = s BY <1>1, <1>2, <1>6, <2>1
  <2>2. CASE t # s
    <3>1. job.outcome[t] = "stored" /\ candles'[t] = candles[t]
      BY <1>1, <1>2, <2>2 DEF ChartInvariant, ChartTypes
    <3> QED BY <3>1 DEF ChartInvariant, NoBarDropped
  <2> QED BY <2>1, <2>2
<1> QED BY <1>3, <1>4, <1>5, <1>7 DEF ChartInvariant

LEMMA ChartStep ==
  ASSUME HistoryInvariant, ChartInvariant, [Next]_vars
  PROVE  ChartInvariant'
<1>1. CASE Venue BY <1>1, VenueKeepsChart
<1>2. CASE Loop \/ UNCHANGED vars
  BY <1>2 DEF Loop, StartLoop, LoopDies, vars, ChartInvariant, ChartTypes, SpanCovers,
              FetchedOrPending, NoBarDropped, LastClosed
<1>3. CASE Backfill
  BY <1>3, PlainKeepsChart, NextKeepsChart, FetchKeepsChart, StoreKeepsChart DEF Backfill
<1>4. CASE \E span \in Spans, cli \in BOOLEAN : StartBackfill(span, cli)
  BY <1>4, PlainKeepsChart
<1> QED BY <1>1, <1>2, <1>3, <1>4 DEF Next

\* Both invariants hold of every behaviour.
THEOREM LoopInvariantHolds == Spec => [](HistoryInvariant /\ LoopInvariant)
<1>1. Spec => []HistoryInvariant BY HistoryInvariantHolds
<1>2. Init => LoopInvariant BY LoopInit
<1>3. HistoryInvariant /\ LoopInvariant /\ [Next]_vars => LoopInvariant' BY LoopStep
<1> QED BY <1>1, <1>2, <1>3, PTL DEF Spec

\* "snapshots only ever see completed bars" (runtime/mod.rs:92): whatever the
\* calendar, the capacity of the window and the ticks that are lost, a window
\* holds one close per day that is over, in order, and a close that is not the
\* day's is of a day whose last tick the loop missed.
THEOREM WindowsAreTrue == Spec => []HistoryIsTrue
<1>1. LoopInvariant => HistoryIsTrue BY DEF LoopInvariant
<1> QED BY <1>1, LoopInvariantHolds, PTL

\* The windows still to be asked for make up for the days not fetched yet.
THEOREM ChartInvariantHolds == Spec => [](HistoryInvariant /\ ChartInvariant)
<1>1. Spec => []HistoryInvariant BY HistoryInvariantHolds
<1>2. Init => ChartInvariant BY ChartInit
<1>3. HistoryInvariant /\ ChartInvariant /\ [Next]_vars => ChartInvariant' BY ChartStep
<1> QED BY <1>1, <1>2, <1>3, PTL DEF Spec

\* "split recursively so no bar can be silently dropped" (kis/chart.rs:12):
\* whatever the length of a window, the rows of a page and the depth of the
\* splitting, as long as a window halved that often is no longer than a page, a
\* symbol reported as stored has every bar of the range.
THEOREM NoBarIsDropped == Spec => []NoBarDropped
<1>1. ChartInvariant => NoBarDropped BY DEF ChartInvariant
<1> QED BY <1>1, ChartInvariantHolds, PTL
=============================================================================
