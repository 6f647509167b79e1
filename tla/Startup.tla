------------------------------ MODULE Startup ------------------------------
(***************************************************************************)
(* How the process starts (main.rs): settings are loaded from the          *)
(* environment and validated (config.rs), the broker is chosen, the        *)
(* database is opened and its schema migrated (storage/mod.rs,             *)
(* storage/migrations.rs), and one market loop, or none, is started.       *)
(* assemble_broker (runtime/assembly.rs) is the selection a KIS-backed     *)
(* runtime would use; main chooses its broker by a match of its own.       *)
(*                                                                         *)
(* A value that does not parse, in whichever variable, is "malformed";     *)
(* what stays is what the choice of broker and loop depends on.            *)
(***************************************************************************)
EXTENDS Naturals

CONSTANT NoSettings     \* settings are not read, or no longer needed

\* What the environment says (Settings, and the variables main reads itself).
Settings ==
  [mode : {"paper", "live"}, confirmed : BOOLEAN, environment : {"mock", "real"},
   backend : {"memory", "kis"}, credentials : BOOLEAN, account : BOOLEAN,
   quotes : {"none", "demo", "kis"}, malformed : BOOLEAN,
   simulation : BOOLEAN, demoLoop : BOOLEAN, strategyKnown : BOOLEAN]

ASSUME NoSettingsAssumption == NoSettings \notin Settings

\* The migrations a database has behind it, in order.
LatestSchema == 4

VARIABLES
  stage,      \* "loading", "opening", "starting", "up", "exited" or "down"
  settings,   \* the settings read, while the start depends on them
  schema,     \* last migration applied to the database
  loop        \* the loop this process runs

startVars == <<stage, settings, schema, loop>>

StartupInit ==
  /\ stage = "loading"
  /\ settings \in Settings
  /\ schema \in 0 .. LatestSchema
  /\ loop = "none"

\* validate() without its rule for paper trading (mutant).
ValidPaperUnchecked(s) ==
  /\ s.mode = "live" => s.confirmed /\ s.environment = "real"
  /\ s.quotes = "kis" => s.credentials

\* Settings::validate.
Valid(s) ==
  /\ s.mode = "live" => s.confirmed /\ s.environment = "real"
  /\ s.mode = "paper" /\ s.backend = "kis" => s.environment = "mock"
  /\ s.quotes = "kis" => s.credentials

\* Settings::load: parse, then validate.
Loads(s) == ~s.malformed /\ Valid(s)

\* assemble_broker: "memory", the domain of a KIS broker, or "refused".
Assembled(s) ==
  CASE s.mode = "paper" /\ s.backend = "memory" -> "memory"
    [] s.mode = "paper" /\ s.backend = "kis" /\ s.environment = "mock" /\ s.account -> "mock"
    [] s.mode = "live" /\ s.backend = "kis" /\ s.environment = "real"
         /\ s.confirmed /\ s.account -> "real"
    [] OTHER -> "refused"

\* The broker main starts with: it knows the memory backend only.
Chosen(s) == IF s.backend = "memory" THEN "memory" ELSE "refused"

\* Which loop main starts.
LoopOf(s) ==
  IF s.simulation THEN "sim"
  ELSE IF s.quotes = "kis" THEN "realtime"
  ELSE IF s.demoLoop \/ s.quotes = "demo" THEN "demo" ELSE "none"

-----------------------------------------------------------------------------
\* Settings refused, or a backend that is not wired: exit code 2.
RefuseSettings ==
  /\ stage = "loading"
  /\ ~Loads(settings) \/ Chosen(settings) = "refused"
  /\ stage' = "exited"
  /\ UNCHANGED <<settings, schema, loop>>

AcceptSettings ==
  /\ stage = "loading"
  /\ Loads(settings)
  /\ Chosen(settings) # "refused"
  /\ stage' = "opening"
  /\ UNCHANGED <<settings, schema, loop>>

\* migrations::apply: the next pending migration, in its own transaction.
Migrate ==
  /\ stage = "opening"
  /\ schema < LatestSchema
  /\ schema' = schema + 1
  /\ UNCHANGED <<stage, settings, loop>>

Opened ==
  /\ stage = "opening"
  /\ schema = LatestSchema
  /\ stage' = "starting"
  /\ UNCHANGED <<settings, schema, loop>>

\* The loop is built; a strategy key the registry does not know panics.
\* From here on nothing depends on the settings.
StartLoop ==
  /\ stage = "starting"
  /\ IF LoopOf(settings) \in {"sim", "realtime"} /\ ~settings.strategyKnown
       THEN stage' = "exited" /\ UNCHANGED <<settings, loop>>
       ELSE /\ stage' = "up"
            /\ loop' = LoopOf(settings)
            /\ settings' = NoSettings
  /\ UNCHANGED schema

\* The process is killed and comes back under "restart: unless-stopped", with
\* the same environment, so through the same choices, and the same database.
Killed == stage = "up" /\ stage' = "down" /\ UNCHANGED <<settings, schema, loop>>

Restarted == stage = "down" /\ stage' = "up" /\ UNCHANGED <<settings, schema, loop>>

Start == RefuseSettings \/ AcceptSettings \/ Migrate \/ Opened \/ StartLoop

-----------------------------------------------------------------------------
\* The rules stand twice, in validate and in assemble_broker ("if the two
\* ever disagree", assembly.rs:56-57).  Given an account they agree on every
\* combination of settings but live trading on the memory backend, which the
\* load accepts; and only confirmed live settings lead to the real domain.
LayersAgree ==
  stage = "loading" /\ Loads(settings) =>
    LET s == settings
    IN
    /\ Assembled(s) = "real" => s.mode = "live" /\ s.confirmed
    /\ Assembled(s) = "refused" <=>
         IF s.backend = "kis" THEN ~s.account ELSE s.mode = "live"
=============================================================================
