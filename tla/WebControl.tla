----------------------------- MODULE WebControl -----------------------------
(***************************************************************************)
(* The web control with the watchlist that its handlers, its screening     *)
(* pass and the backfill of the command line edit (runtime/server.rs,      *)
(* storage/mod.rs, main.rs).  Each edit is one statement of the database;  *)
(* between two of them everybody else takes steps.  The order of the list  *)
(* is left out, as are the audit events of the operator's commands.        *)
(***************************************************************************)
EXTENDS ControlJobs, FiniteSets

CONSTANTS
  Symbols,
  Configured,  \* the watchlist of the settings
  Top,         \* the symbols a screening pass asks for
  MaxCommands  \* bound on the commands of the operator, the seeding included

ASSUME WatchlistAssumption ==
  Configured \subseteq Symbols /\ Top \in Nat /\ MaxCommands \in Nat

VARIABLES
  rows,        \* the watchlist table
  pass,        \* the screening pass of a request, if it is for one
  seeding,     \* what the command line has still to insert
  commands

listVars == <<rows, pass, seeding, commands>>
webVars == <<vars, listVars>>

NewPass ==
  [step    |-> "ranking",
   ranked  |-> {},     \* the answer of the venue
   toDrop  |-> {},
   toAdd   |-> {},
   touched |-> {}]     \* history: what others edited since the pass read the
                       \* list, and what it failed to edit itself

WebInit ==
  /\ Init
  /\ rows = {}
  /\ pass = [r \in Requests |-> NewPass]
  /\ seeding = {}
  /\ commands = 0

\* The passes at their edits, after somebody not in own has edited s.
Touched(s, own) ==
  [r \in Requests |->
    IF r \notin own /\ pass[r].step = "editing"
    THEN [pass[r] EXCEPT !.touched = @ \cup {s}] ELSE pass[r]]

-----------------------------------------------------------------------------
(* run_screen.                                                             *)

Screens(r, step) ==
  /\ kind[r] \in Unannounced /\ phase[r] = "running" /\ pass[r].step = step

\* The busiest symbols, as the venue ranks them: perhaps none.
Rank(r) ==
  /\ Screens(r, "ranking")
  /\ \E ranked \in SUBSET Symbols :
       /\ Cardinality(ranked) <= Top
       /\ pass' = [pass EXCEPT ![r].step = "reading", ![r].ranked = ranked]
  /\ UNCHANGED <<rows, seeding, commands>>

ReadList(r) ==
  /\ Screens(r, "reading")
  /\ pass' = [pass EXCEPT ![r].step = "editing",
                          ![r].toDrop = rows \ pass[r].ranked,
                          ![r].toAdd = pass[r].ranked]
  /\ UNCHANGED <<rows, seeding, commands>>

Drop(r, s) ==
  /\ Screens(r, "editing") /\ s \in pass[r].toDrop
  /\ rows' = rows \ {s}
  /\ pass' = [Touched(s, {r}) EXCEPT ![r].toDrop = @ \ {s}]
  /\ UNCHANGED <<seeding, commands>>

\* A symbol that is there already stays where it is.
Add(r, s) ==
  /\ Screens(r, "editing") /\ pass[r].toDrop = {} /\ s \in pass[r].toAdd
  /\ rows' = rows \cup {s}
  /\ pass' = [Touched(s, {r}) EXCEPT ![r].toAdd = @ \ {s}]
  /\ UNCHANGED <<seeding, commands>>

\* A symbol that cannot be dropped ends the pass (mutant).
EditFailsEnding(r, s) ==
  /\ Screens(r, "editing")
  /\ s \in IF pass[r].toDrop # {} THEN pass[r].toDrop ELSE pass[r].toAdd
  /\ pass' = [pass EXCEPT ![r].toDrop = {}, ![r].toAdd = {},
                          ![r].touched = @ \cup {s}]
  /\ UNCHANGED <<rows, seeding, commands>>

\* unwrap_or(false): the edit that fails is passed over.
EditFails(r, s) ==
  /\ Screens(r, "editing")
  /\ s \in IF pass[r].toDrop # {} THEN pass[r].toDrop ELSE pass[r].toAdd
  /\ pass' = [pass EXCEPT ![r].toDrop = @ \ {s}, ![r].toAdd = @ \ {s},
                          ![r].touched = @ \cup {s}]
  /\ UNCHANGED <<rows, seeding, commands>>

\* The pass ends with a count of the list.
Total(r) ==
  /\ Screens(r, "editing") /\ pass[r].toDrop = {} /\ pass[r].toAdd = {}
  /\ pass' = [pass EXCEPT ![r] = [NewPass EXCEPT !.step = "done"]]
  /\ UNCHANGED <<rows, seeding, commands>>

\* The venue does not answer, or one of the two reads fails.
ScreenFails(r) ==
  /\ \/ Screens(r, "ranking") \/ Screens(r, "reading")
     \/ Screens(r, "editing") /\ pass[r].toDrop = {} /\ pass[r].toAdd = {}
  /\ pass' = [pass EXCEPT ![r] = [NewPass EXCEPT !.step = "failed"]]
  /\ UNCHANGED <<rows, seeding, commands>>

Screen(r) ==
  /\ \/ Rank(r) \/ ReadList(r) \/ Total(r) \/ ScreenFails(r)
     \/ \E s \in Symbols : Drop(r, s) \/ Add(r, s) \/ EditFails(r, s)
  /\ UNCHANGED vars

\* A job of another kind, or the frame of a screening pass.
Job(r) ==
  /\ Step(r)
  /\ kind[r] \in Unannounced /\ phase[r] = "running" =>
       pass[r].step \in Outcomes /\ outcome'[r] = pass[r].step
  /\ UNCHANGED listVars

-----------------------------------------------------------------------------
(* The other editors.                                                      *)

\* "add" or "remove" of a symbol by the operator.
Command(s) ==
  /\ commands < MaxCommands
  /\ commands' = commands + 1
  /\ rows' \in {rows \cup {s}, rows \ {s}}
  /\ pass' = Touched(s, {})
  /\ UNCHANGED <<vars, seeding>>

\* A list that is empty is seeded from the settings, by the command line only.
SeedWatchlist ==
  /\ commands < MaxCommands
  /\ seeding = {} /\ rows = {}
  /\ commands' = commands + 1
  /\ seeding' = Configured
  /\ UNCHANGED <<vars, rows, pass>>

Seed(s) ==
  /\ s \in seeding
  /\ rows' = rows \cup {s}
  /\ seeding' = seeding \ {s}
  /\ pass' = Touched(s, {})
  /\ UNCHANGED <<vars, commands>>

\* The process ends half-way, or one of its inserts fails; the list is not
\* empty any more, so nothing inserts the rest later.
SeedDies ==
  /\ seeding # {}
  /\ seeding' = {}
  /\ UNCHANGED <<vars, rows, pass, commands>>

WebNext ==
  \/ \E r \in Requests : Screen(r) \/ Job(r)
  \/ \E s \in Symbols : Command(s) \/ Seed(s)
  \/ SeedWatchlist \/ SeedDies

WebSpec == WebInit /\ [][WebNext]_webVars

\* A handler past its check and a task go on: every job is finite.
WebFairness == \A r \in Requests :
  /\ WF_webVars(Screen(r))
  /\ WF_webVars(phase[r] # "new" /\ Job(r))

FairWebSpec == WebSpec /\ WebFairness

-----------------------------------------------------------------------------
\* A screening pass that has made its edits has applied the ranking: the
\* watchlist holds what the venue ranked and nothing else, except for symbols
\* that the operator, the seeding or another pass has edited since it read the
\* list, or that it could not edit itself (runtime/server.rs:403-462).
ScreeningApplied ==
  \A r \in Requests :
    pass[r].step = "editing" /\ pass[r].toDrop = {} /\ pass[r].toAdd = {} =>
      rows \ pass[r].touched = pass[r].ranked \ pass[r].touched

Passes ==
  [step : {"ranking", "reading", "editing"} \cup Outcomes, ranked : SUBSET Symbols,
   toDrop : SUBSET Symbols, toAdd : SUBSET Symbols, touched : SUBSET Symbols]

PassOK ==
  /\ rows \subseteq Symbols /\ seeding \subseteq Symbols
  /\ pass \in [Requests -> Passes]

\* What the ranking does not say yet about the list.
Left(r) == pass[r].toDrop \cup pass[r].toAdd \cup pass[r].touched

\* At any point of a pass, each symbol that is not left agrees with the ranking.
EditsAccounted ==
  \A r \in Requests : pass[r].step = "editing" =>
    rows \ Left(r) = pass[r].ranked \ Left(r)

\* Symbols to drop are not ranked, and those to add are; both only at the edits.
EditsAgree ==
  \A r \in Requests :
    /\ pass[r].toDrop \cap pass[r].ranked = {} /\ pass[r].toAdd \subseteq pass[r].ranked
    /\ pass[r].step # "editing" => pass[r].toDrop = {} /\ pass[r].toAdd = {}

\* The inductive invariant of the watchlist.
ListInvariant == PassOK /\ EditsAccounted /\ EditsAgree

\* The status comes to rest: it does not say running for ever.
StatusSettles ==
  \A k \in Kinds : status[k] = "running" ~> status[k] \in Outcomes
=============================================================================
