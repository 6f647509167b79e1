---------------------------- MODULE ControlJobs ----------------------------
(***************************************************************************)
(* The web control of background jobs: runtime/server.rs starts a backtest, *)
(* a parameter search, a backfill or a screening pass for a request, and   *)
(* backtest_runner.rs, optimize_runner.rs and backfill.rs run the job in a *)
(* task of its own and settle the status the page shows.                   *)
(*                                                                         *)
(* There is one status per kind of job, behind a lock that is taken for    *)
(* one read or one write.  Between them the handlers await the database    *)
(* and the worker threads interleave, so each step below is one access.    *)
(* What a job computes is its outcome only; WebControl adds what the       *)
(* screening pass does.                                                    *)
(***************************************************************************)
EXTENDS Naturals

CONSTANTS
  Requests,    \* requests in the life of the process
  Kinds,       \* kinds of job, each with a status of its own
  Validated,   \* kinds whose configuration is validated: the backtest
  Unannounced, \* kinds that start without an audit event: the screener
  Venue        \* kinds that need the venue's credentials: these and the backfill

ASSUME KindAssumption ==
  Validated \subseteq Kinds \ Venue /\ Unannounced \subseteq Venue /\ Venue \subseteq Kinds

VARIABLES
  credentials, \* the process has the venue's credentials
  status,      \* the status per kind
  kind,        \* what a request asks for
  phase,       \* how far a request and its job are
  outcome,     \* how the job of a request ended
  audit,       \* the events <<request, "start" or "end">> in the database
  met          \* history variable: requests that were past the check at the
               \* same time as another one for the same kind

vars == <<credentials, status, kind, phase, outcome, audit, met>>

Outcomes == {"done", "failed"}
Statuses == {"idle", "running"} \cup Outcomes
Phases == {"new", "refused", "checked", "audited", "running", "settling", "over"}

\* Past the check, and not settled; with a job that has started.
Underway == {r \in Requests : phase[r] \in {"checked", "audited", "running", "settling"}}
Active(k) == {r \in Requests : kind[r] = k /\ phase[r] \in {"running", "settling"}}

Init ==
  /\ credentials \in BOOLEAN
  /\ status = [k \in Kinds |-> "idle"]
  /\ kind \in [Requests -> Kinds]
  /\ phase = [r \in Requests |-> "new"]
  /\ outcome = [r \in Requests |-> "done"]
  /\ audit = {}
  /\ met = {}

CanRun(k) == credentials \/ k \notin Venue

Advance(r, p) == phase' = [phase EXCEPT ![r] = p]

\* 404, 400: an unknown strategy, a malformed symbol.
RefuseRequest(r) ==
  /\ phase[r] = "new"
  /\ kind[r] \notin Venue
  /\ Advance(r, "refused")
  /\ UNCHANGED <<credentials, status, kind, outcome, audit, met>>

\* 400, 412: no credentials; the backfill writes it over its status.
RefuseCredentials(r) ==
  /\ phase[r] = "new"
  /\ ~CanRun(kind[r])
  /\ status' = IF kind[r] \in Unannounced THEN status ELSE [status EXCEPT ![kind[r]] = "failed"]
  /\ Advance(r, "refused")
  /\ UNCHANGED <<credentials, kind, outcome, audit, met>>

\* The refusal is shown as a status of its own (mutant).
RefuseLabelled(r) ==
  /\ phase[r] = "new"
  /\ CanRun(kind[r])
  /\ status[kind[r]] = "running"
  /\ status' = [status EXCEPT ![kind[r]] = "refused"]
  /\ Advance(r, "refused")
  /\ UNCHANGED <<credentials, kind, outcome, audit, met>>

\* 409 while the status says that a job is running.
Refuse(r) ==
  /\ phase[r] = "new"
  /\ CanRun(kind[r])
  /\ status[kind[r]] = "running"
  /\ Advance(r, "refused")
  /\ UNCHANGED <<credentials, status, kind, outcome, audit, met>>

\* The check passed: any other status.
PassCheck(r) ==
  /\ phase[r] = "new"
  /\ CanRun(kind[r])
  /\ status[kind[r]] # "running"
  /\ Advance(r, "checked")
  /\ LET others == {q \in Underway : kind[q] = kind[r]}
     IN  met' = met \cup others \cup (IF others = {} THEN {} ELSE {r})
  /\ UNCHANGED <<credentials, status, kind, outcome, audit>>

\* 400 for a bad configuration, which is written over the status.
RefuseConfig(r) ==
  /\ phase[r] = "checked"
  /\ kind[r] \in Validated
  /\ status' = [status EXCEPT ![kind[r]] = "failed"]
  /\ Advance(r, "refused")
  /\ UNCHANGED <<credentials, kind, outcome, audit, met>>

\* The job starts although its event was not written (mutant).
RecordStartIgnored(r) ==
  /\ phase[r] = "checked"
  /\ kind[r] \notin Unannounced
  /\ Advance(r, "audited")
  /\ UNCHANGED <<credentials, status, kind, outcome, audit, met>>

RecordStart(r) ==
  /\ phase[r] = "checked"
  /\ kind[r] \notin Unannounced
  /\ audit' = audit \cup {<<r, "start">>}
  /\ Advance(r, "audited")
  /\ UNCHANGED <<credentials, status, kind, outcome, met>>

\* 500: the event was not written, and no job starts.
RecordStartFails(r) ==
  /\ phase[r] = "checked"
  /\ kind[r] \notin Unannounced
  /\ Advance(r, "refused")
  /\ UNCHANGED <<credentials, status, kind, outcome, audit, met>>

\* The job reports that it runs only from its task (mutant).
StartUnmarked(r) ==
  /\ phase[r] = IF kind[r] \in Unannounced THEN "checked" ELSE "audited"
  /\ Advance(r, "running")
  /\ UNCHANGED <<credentials, status, kind, outcome, audit, met>>

\* The status is set before the task is spawned.
Start(r) ==
  /\ phase[r] = IF kind[r] \in Unannounced THEN "checked" ELSE "audited"
  /\ status' = [status EXCEPT ![kind[r]] = "running"]
  /\ Advance(r, "running")
  /\ UNCHANGED <<credentials, kind, outcome, audit, met>>

\* A job whose last event cannot be written ends there (mutant).
FinishAborting(r) ==
  /\ phase[r] = "running"
  /\ outcome' \in {[outcome EXCEPT ![r] = o] : o \in Outcomes}
  /\ \/ audit' = audit \cup {<<r, "end">>} /\ Advance(r, "settling")
     \/ audit' = audit /\ Advance(r, "over")
  /\ UNCHANGED <<credentials, status, kind, met>>

\* The job ends, and its event is written if the database lets it.
Finish(r) ==
  /\ phase[r] = "running"
  /\ outcome' \in {[outcome EXCEPT ![r] = o] : o \in Outcomes}
  /\ audit' \in {audit, audit \cup {<<r, "end">>}}
  /\ Advance(r, "settling")
  /\ UNCHANGED <<credentials, status, kind, met>>

\* A failure is shown only if there is one (mutant).
SettleFailures(r) ==
  /\ phase[r] = "settling"
  /\ status' = IF outcome[r] = "failed" THEN [status EXCEPT ![kind[r]] = "failed"] ELSE status
  /\ Advance(r, "over")
  /\ UNCHANGED <<credentials, kind, outcome, audit, met>>

\* The status shows the outcome, whatever it has become meanwhile.
Settle(r) ==
  /\ phase[r] = "settling"
  /\ status' = [status EXCEPT ![kind[r]] = outcome[r]]
  /\ Advance(r, "over")
  /\ UNCHANGED <<credentials, kind, outcome, audit, met>>

\* Of the handler of a request, and then of its task.
Step(r) ==
  \/ RefuseRequest(r) \/ RefuseCredentials(r)
  \/ Refuse(r) \/ PassCheck(r) \/ RefuseConfig(r)
  \/ RecordStart(r) \/ RecordStartFails(r)
  \/ Start(r) \/ Finish(r) \/ Settle(r)

Next == \E r \in Requests : Step(r)

Spec == Init /\ [][Next]_vars

-----------------------------------------------------------------------------
TypeOK ==
  /\ credentials \in BOOLEAN
  /\ status \in [Kinds -> Statuses]
  /\ kind \in [Requests -> Kinds]
  /\ phase \in [Requests -> Phases]
  /\ outcome \in [Requests -> Outcomes]
  /\ audit \subseteq Requests \X {"start", "end"}
  /\ met \subseteq Requests

\* A status that says running is never stale: a job of that kind is active, so
\* that requests are not refused for ever (a lost end event, a failed job and
\* jobs that overlap included).
RunningMeansBusy ==
  \A k \in Kinds : status[k] = "running" => Active(k) # {}

\* An active job shows as running unless another request for its kind came past
\* the check while it was underway: only such a request can hide a job.
HiddenOnlyByOverlap ==
  \A k \in Kinds : \A r \in Active(k) \ met : status[k] = "running"

\* No backtest, search or backfill runs that is not in the audit trail: the
\* start event is awaited before the task is spawned, and a request whose event
\* cannot be written is refused (runtime/server.rs:331-339, 672-680).  Nothing
\* is claimed of the screener, which announces no start; its only event, the
\* one at its end, may be lost (server.rs:394).
StartsAudited ==
  \A r \in Requests :
    kind[r] \notin Unannounced /\ phase[r] \in {"running", "settling", "over"} =>
      <<r, "start">> \in audit

\* A job that needs credentials has them: no refusal for their lack falls on
\* the status of a job that runs.
Credentialed == \A r \in Underway : CanRun(kind[r])

\* Any two requests for one kind that are past the check have met.
Overlaps ==
  \A q, r \in Underway : q # r /\ kind[q] = kind[r] => q \in met

\* The audit trail before the start.
AnnouncedBefore ==
  \A r \in Requests :
    phase[r] = "audited" => <<r, "start">> \in audit /\ kind[r] \notin Unannounced

\* The inductive invariant.
JobsInvariant ==
  /\ TypeOK /\ RunningMeansBusy /\ HiddenOnlyByOverlap
  /\ StartsAudited /\ Overlaps /\ AnnouncedBefore /\ Credentialed
=============================================================================
