-------------------------- MODULE WebControlProofs --------------------------
(***************************************************************************)
(* Proofs about ControlJobs and WebControl for any requests, any kinds of  *)
(* job and any symbols: a running status always has a job behind it, only  *)
(* an overlap hides a job, and a screening pass applies its ranking.       *)
(* Overlaps is what makes the second inductive: whoever overwrites a       *)
(* status of another's active job has met it.  WebControl takes the steps  *)
(* of ControlJobs and others that leave its variables alone, so what holds *)
(* of the one holds of the other.                                          *)
(***************************************************************************)
EXTENDS WebControl, TLAPS

LEMMA InitHolds == Init => JobsInvariant
BY DEF Init, JobsInvariant, TypeOK, RunningMeansBusy, HiddenOnlyByOverlap, StartsAudited,
       Overlaps, AnnouncedBefore, Credentialed, CanRun, Active, Underway, Statuses, Outcomes, Phases

LEMMA StepHolds == JobsInvariant /\ [Next]_vars => JobsInvariant'
<1> USE DEF JobsInvariant, TypeOK, RunningMeansBusy, HiddenOnlyByOverlap, StartsAudited,
            Overlaps, AnnouncedBefore, Credentialed, CanRun, Active, Underway, Statuses, Outcomes, Phases, Advance
<1> SUFFICES ASSUME JobsInvariant, [Next]_vars PROVE JobsInvariant'
  OBVIOUS
<1>1. ASSUME NEW r \in Requests, Refuse(r) PROVE JobsInvariant'
  BY <1>1 DEF Refuse
<1>2. ASSUME NEW r \in Requests, PassCheck(r) PROVE JobsInvariant'
  BY <1>2 DEF PassCheck
<1>3. ASSUME NEW r \in Requests, RefuseConfig(r) PROVE JobsInvariant'
  BY <1>3 DEF RefuseConfig
<1>4. ASSUME NEW r \in Requests, RecordStart(r) PROVE JobsInvariant'
  BY <1>4 DEF RecordStart
<1>5. ASSUME NEW r \in Requests, RecordStartFails(r) PROVE JobsInvariant'
  BY <1>5 DEF RecordStartFails
<1>6. ASSUME NEW r \in Requests, Start(r) PROVE JobsInvariant'
  BY <1>6 DEF Start
<1>7. ASSUME NEW r \in Requests, Finish(r) PROVE JobsInvariant'
  BY <1>7 DEF Finish
<1>8. ASSUME NEW r \in Requests, Settle(r) PROVE JobsInvariant'
  BY <1>8 DEF Settle
<1>9. ASSUME NEW r \in Requests, RefuseRequest(r) PROVE JobsInvariant'
  BY <1>9 DEF RefuseRequest
<1>10. ASSUME NEW r \in Requests, RefuseCredentials(r) PROVE JobsInvariant'
  BY <1>10 DEF RefuseCredentials
<1>11. CASE UNCHANGED vars
  BY <1>11 DEF vars
<1> QED BY <1>1, <1>2, <1>3, <1>4, <1>5, <1>6, <1>7, <1>8, <1>9, <1>10, <1>11 DEF Next, Step

LEMMA WebImplementsJobs == WebSpec => Spec
<1>1. WebInit => Init BY DEF WebInit
<1>2. [WebNext]_webVars => [Next]_vars
  BY DEF WebNext, Screen, Job, Command, Seed, SeedWatchlist, SeedDies, Next, vars, webVars
<1> QED BY <1>1, <1>2, PTL DEF WebSpec, Spec

\* The inductive invariant holds whatever the handlers and jobs do.
THEOREM JobsInvariantHolds == WebSpec => []JobsInvariant
BY InitHolds, StepHolds, WebImplementsJobs, PTL DEF Spec

\* The status, the phases and the audit trail have their types throughout.
THEOREM JobTypes == WebSpec => []TypeOK
<1>1. JobsInvariant => TypeOK BY DEF JobsInvariant
<1> QED BY <1>1, JobsInvariantHolds, PTL

\* A running status is never stale (BackfillStatus::Running).
THEOREM RunningIsBusy == WebSpec => []RunningMeansBusy
<1>1. JobsInvariant => RunningMeansBusy BY DEF JobsInvariant
<1> QED BY <1>1, JobsInvariantHolds, PTL

\* Only a request that came between hides an active job.
THEOREM OnlyOverlapHides == WebSpec => []HiddenOnlyByOverlap
<1>1. JobsInvariant => HiddenOnlyByOverlap BY DEF JobsInvariant
<1> QED BY <1>1, JobsInvariantHolds, PTL

\* Every backtest, search and backfill that runs has its start in the audit
\* trail (control_backtest, control_optimize, control_backfill); a screening
\* need not have any event there.
THEOREM JobStartsAudited == WebSpec => []StartsAudited
<1>1. JobsInvariant => StartsAudited BY DEF JobsInvariant
<1> QED BY <1>1, JobsInvariantHolds, PTL

-----------------------------------------------------------------------------
(* Screening.                                                              *)

LEMMA ListInitHolds == WebInit => ListInvariant
BY DEF WebInit, ListInvariant, PassOK, NewPass, Passes, EditsAccounted, EditsAgree, Left

\* What a step that changes one pass and no list has to keep.
LEMMA OnePassChanges ==
  ASSUME ListInvariant, NEW r \in Requests, NEW p \in Passes,
         pass' = [pass EXCEPT ![r] = p], rows' = rows, seeding' = seeding,
         p.step = "editing" =>
           rows \ (p.toDrop \cup p.toAdd \cup p.touched)
             = p.ranked \ (p.toDrop \cup p.toAdd \cup p.touched),
         p.toDrop \cap p.ranked = {}, p.toAdd \subseteq p.ranked,
         p.step # "editing" => p.toDrop = {} /\ p.toAdd = {}
  PROVE  ListInvariant'
<1> USE DEF ListInvariant, PassOK
<1>1. pass'[r] = p /\ \A q \in Requests \ {r} : pass'[q] = pass[q]
  OBVIOUS
<1>2. PassOK'
  OBVIOUS
<1>3. EditsAccounted'
  BY <1>1 DEF EditsAccounted, Left
<1>4. EditsAgree'
  BY <1>1 DEF EditsAgree
<1> QED BY <1>2, <1>3, <1>4

LEMMA ListStepHolds == ListInvariant /\ [WebNext]_webVars => ListInvariant'
<1> USE DEF ListInvariant, PassOK, Passes, NewPass, EditsAccounted, EditsAgree, Left, Screens, Touched
<1> SUFFICES ASSUME ListInvariant, [WebNext]_webVars PROVE ListInvariant'
  OBVIOUS
<1>1. ASSUME NEW r \in Requests, Rank(r) PROVE ListInvariant'
  <2>1. PICK ranked \in SUBSET Symbols :
          pass' = [pass EXCEPT ![r].step = "reading", ![r].ranked = ranked]
    BY <1>1 DEF Rank
  <2> DEFINE p == [pass[r] EXCEPT !.step = "reading", !.ranked = ranked]
  <2>2. pass' = [pass EXCEPT ![r] = p] /\ rows' = rows /\ seeding' = seeding
    BY <1>1, <2>1 DEF Rank
  <2>3. p \in Passes
    BY <2>1
  <2> QED BY <1>1, <2>1, <2>2, <2>3, OnePassChanges DEF Rank
<1>2. ASSUME NEW r \in Requests, ReadList(r) PROVE ListInvariant'
  <2> DEFINE p == [pass[r] EXCEPT !.step = "editing", !.toDrop = rows \ pass[r].ranked,
                                !.toAdd = pass[r].ranked]
  <2>1. pass' = [pass EXCEPT ![r] = p] /\ rows' = rows /\ seeding' = seeding
    BY <1>2 DEF ReadList
  <2>2. p \in Passes
    BY <1>2 DEF ReadList
  <2> QED BY <1>2, <2>1, <2>2, OnePassChanges DEF ReadList
<1>3. ASSUME NEW r \in Requests, NEW s \in Symbols, Drop(r, s) PROVE ListInvariant'
  BY <1>3 DEF Drop
<1>4. ASSUME NEW r \in Requests, NEW s \in Symbols, Add(r, s) PROVE ListInvariant'
  BY <1>4 DEF Add
<1>5. ASSUME NEW r \in Requests, NEW s \in Symbols, EditFails(r, s) PROVE ListInvariant'
  <2> DEFINE p == [pass[r] EXCEPT !.toDrop = @ \ {s}, !.toAdd = @ \ {s},
                                !.touched = @ \cup {s}]
  <2>1. pass' = [pass EXCEPT ![r] = p] /\ rows' = rows /\ seeding' = seeding
    BY <1>5 DEF EditFails
  <2>2. pass[r] \in Passes
    OBVIOUS
  <2>3. p.step = pass[r].step /\ p.ranked = pass[r].ranked /\ p.toDrop = pass[r].toDrop \ {s}
        /\ p.toAdd = pass[r].toAdd \ {s} /\ p.touched = pass[r].touched \cup {s}
    BY <2>2
  <2>4. p \in Passes
    BY <2>2
  <2>5. p.step = "editing" =>
           rows \ (p.toDrop \cup p.toAdd \cup p.touched)
             = p.ranked \ (p.toDrop \cup p.toAdd \cup p.touched)
    BY <2>2, <2>3
  <2>6. p.toDrop \cap p.ranked = {} /\ p.toAdd \subseteq p.ranked
        /\ (p.step # "editing" => p.toDrop = {} /\ p.toAdd = {})
    BY <2>2, <2>3
  <2> HIDE DEF p
  <2> QED BY <2>1, <2>4, <2>5, <2>6, OnePassChanges
<1>6. ASSUME NEW r \in Requests, Total(r) PROVE ListInvariant'
  <2> DEFINE p == [NewPass EXCEPT !.step = "done"]
  <2>1. pass' = [pass EXCEPT ![r] = p] /\ rows' = rows /\ seeding' = seeding
    BY <1>6 DEF Total
  <2>2. p \in Passes
    BY DEF Outcomes
  <2> QED BY <2>1, <2>2, OnePassChanges
<1>7. ASSUME NEW r \in Requests, ScreenFails(r) PROVE ListInvariant'
  <2> DEFINE p == [NewPass EXCEPT !.step = "failed"]
  <2>1. pass' = [pass EXCEPT ![r] = p] /\ rows' = rows /\ seeding' = seeding
    BY <1>7 DEF ScreenFails
  <2>2. p \in Passes
    BY DEF Outcomes
  <2> QED BY <2>1, <2>2, OnePassChanges
<1>8. ASSUME NEW r \in Requests, Job(r) PROVE ListInvariant'
  BY <1>8 DEF Job, listVars
<1>9. ASSUME NEW s \in Symbols, Command(s) PROVE ListInvariant'
  BY <1>9 DEF Command
<1>10. ASSUME NEW s \in Symbols, Seed(s) PROVE ListInvariant'
  BY <1>10 DEF Seed
<1>11. CASE SeedWatchlist \/ SeedDies
  BY <1>11, WatchlistAssumption DEF SeedWatchlist, SeedDies
<1>12. CASE UNCHANGED webVars
  BY <1>12 DEF webVars, listVars
<1> QED
  BY <1>1, <1>2, <1>3, <1>4, <1>5, <1>6, <1>7, <1>8, <1>9, <1>10, <1>11, <1>12
  DEF WebNext, Screen

\* A pass that has made its edits has applied the ranking, whoever edits the
\* watchlist meanwhile (run_screen).
THEOREM RankingApplied == WebSpec => []ScreeningApplied
<1>1. ListInvariant => ScreeningApplied
  BY DEF ListInvariant, PassOK, EditsAccounted, EditsAgree, Left, ScreeningApplied
<1> QED BY <1>1, ListInitHolds, ListStepHolds, PTL DEF WebSpec
=============================================================================
