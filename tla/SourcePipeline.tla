--------------------------- MODULE SourcePipeline ---------------------------
(***************************************************************************)
(* One source's collection: run_source_if_due of app/scheduler/runtime.py, *)
(* the ingestion runs of app/ingestion/service.py it plans, fetches and    *)
(* finishes, and normalize_run, which turns their raw records into facts.  *)
(* What follows a fact is ProductRefresh.                                  *)
(*                                                                         *)
(* A run stands for its idempotency key, the time bucket (and scope) it    *)
(* was planned in.  A raw record stands for its content: it is stored      *)
(* once, and belongs to the run that stored it first.  One action is one   *)
(* database transaction; a batch holds one record.  Backoff only decides   *)
(* when a source is due: here it may be due at any moment.                 *)
(***************************************************************************)
EXTENDS Naturals

CONSTANTS
  Procs,      \* processes with a source worker: the leader, a former leader
  Fragile,    \* processes whose lock connection may be lost
  Items,      \* contents the source can return
  Bad,        \* contents the normalizer rejects
  National,   \* TRUE: scores are relative to the national cohort, all Items
  MaxBucket,  \* bound: time buckets
  MaxFaults,  \* bound: failures, crashes and lost connections
  None

Buckets == 1..MaxBucket

ASSUME PipelineAssumption ==
  /\ None \notin Procs
  /\ None \notin Buckets
  /\ Fragile \subseteq Procs
  /\ Bad \subseteq Items
  /\ National \in BOOLEAN
  /\ MaxBucket \in Nat \ {0}
  /\ MaxFaults \in Nat

VARIABLES
  bucket,   \* the clock
  run,      \* ingestion_run, by idempotency key
  reason,   \* stage that source_state.reason names
  owner,    \* raw_record.run_id of each content, None: not stored
  fate,     \* what became of a raw record
  cohort,   \* the records a record's score was last computed with
  holder,   \* owner of the source's job lock
  job,      \* each process's source job
  faults,   \* failures so far
  credited, \* history: runs completed and not reopened since
  dropped   \* history: runs cut off by a crash or by a failed refetch

state == <<run, reason>>
raws == <<owner, fate, cohort>>
history == <<credited, dropped>>
vars == <<bucket, state, raws, holder, job, faults, history>>

\* run.error_summary by its prefix; "none" is no text or any other text
Stages == {"none", "fetch", "raw", "normalize", "interrupted"}
PipelineStages == {"raw", "normalize"}

NoRun == [status |-> "absent", stage |-> "none", fetched |-> "none", cut |-> FALSE]
NoResult == [status |-> "none", items |-> {}, cut |-> FALSE]
Idle == [step |-> "idle", key |-> None, retry |-> FALSE, result |-> NoResult]

\* run_raw_count is set once the fetch is finalized: errors reach fail_pipeline
Counted == {"begin", "normalize", "check", "mark", "complete", "release"}
\* between the start of a run and its end
AtWork == {"fetch", "persist", "work", "fail"} \union Counted

RawsOf(k) == {i \in Items : owner[i] = k}

Init ==
  /\ bucket = 1
  /\ run = [k \in Buckets |-> NoRun]
  /\ reason = "none"
  /\ owner = [i \in Items |-> None]
  /\ fate = [i \in Items |-> "raw"]
  /\ cohort = [i \in Items |-> {}]
  /\ holder = None
  /\ job = [p \in Procs |-> Idle]
  /\ faults = 0
  /\ credited = {}
  /\ dropped = {}

-----------------------------------------------------------------------------
Goto(p, step) == job' = [job EXCEPT ![p].step = step]

Unlock(p) == holder' = IF holder = p THEN None ELSE holder

\* mutant of EndJob: the job's record outlives it
EndJobKeepingRun(p) ==
  /\ Goto(p, "idle")
  /\ Unlock(p)

EndJob(p) ==
  /\ job' = [job EXCEPT ![p] = Idle]
  /\ Unlock(p)

Fault ==
  /\ faults < MaxFaults
  /\ faults' = faults + 1

Tick ==
  /\ bucket < MaxBucket
  /\ bucket' = bucket + 1
  /\ UNCHANGED <<state, raws, holder, job, faults, history>>

-----------------------------------------------------------------------------
(* Planning, before any lock.                                              *)

\* the source is due: its state is read, and its session closed
CheckDue(p) ==
  /\ job[p].step = "idle"
  /\ job' = [job EXCEPT ![p] = [Idle EXCEPT !.step = "find",
                                            !.retry = reason \in PipelineStages]]
  /\ UNCHANGED <<bucket, state, raws, holder, faults, history>>

Pending == {k \in Buckets : /\ run[k].status \in {"failed", "scheduled", "skipped"}
                            /\ run[k].stage \in PipelineStages}

\* pending_pipeline_run takes the latest start, which need not be the latest key
FindRun(p) ==
  /\ job[p].step = "find"
  /\ \E k \in Buckets :
       /\ IF job[p].retry /\ Pending # {} THEN k \in Pending ELSE k = bucket
       /\ job' = [job EXCEPT ![p].step = "schedule", ![p].key = k]
  /\ UNCHANGED <<bucket, state, raws, holder, faults, history>>

\* mutant of Reusable: a failed run keeps its idempotency key for good
ReusableUnlessFailed(k) == run[k].status \in {"scheduled", "skipped"}

Reusable(k) ==
  \/ run[k].status \in {"scheduled", "skipped"}
  \/ run[k].status = "failed" /\ run[k].stage \in PipelineStages

Schedule(p) ==
  LET k == job[p].key IN
  /\ job[p].step = "schedule"
  /\ \/ /\ run[k].status = "absent" \/ Reusable(k)
        /\ run' = [run EXCEPT ![k].status = "scheduled"]
        /\ Goto(p, "lock")
     \/ /\ run[k].status # "absent" /\ ~Reusable(k)
        /\ job' = [job EXCEPT ![p] = Idle]
        /\ UNCHANGED run
  /\ UNCHANGED <<bucket, reason, raws, holder, faults, history>>

LockJob(p) ==
  /\ job[p].step = "lock"
  /\ \/ /\ holder = None
        /\ holder' = p
        /\ Goto(p, "heavy")
     \/ /\ holder # None
        /\ Goto(p, "skip")
        /\ UNCHANGED holder
  /\ UNCHANGED <<bucket, state, raws, faults, history>>

\* eden:heavy-write is shared with every other job: free at times
LockHeavy(p) ==
  /\ job[p].step = "heavy"
  /\ Goto(p, "inspect")
  /\ UNCHANGED <<bucket, state, raws, holder, faults, history>>

HeavyBusy(p) ==
  /\ job[p].step = "heavy"
  /\ Goto(p, "skip")
  /\ UNCHANGED <<bucket, state, raws, holder, faults, history>>

\* skip_scheduled_run reads the row without a lock ...
SkipRead(p) ==
  /\ job[p].step = "skip"
  /\ IF run[job[p].key].status = "scheduled"
       THEN /\ Goto(p, IF run[job[p].key].stage \in PipelineStages THEN "skipping" ELSE "noting")
            /\ UNCHANGED holder
       ELSE EndJob(p)
  /\ UNCHANGED <<bucket, state, raws, faults, history>>

\* mutant of SkipWrite: the note replaces whatever the row said
SkipWriteForgetting(p) ==
  /\ job[p].step \in {"skipping", "noting"}
  /\ run' = [run EXCEPT ![job[p].key].status = "skipped",
                        ![job[p].key].stage = "none"]
  /\ EndJob(p)
  /\ UNCHANGED <<bucket, reason, raws, faults, history>>

\* ... and writes it back: a pipeline stage it has read survives the note, one
\* recorded in between does so only where the note is what the row said before
SkipWrite(p) ==
  LET k == job[p].key IN
  /\ job[p].step \in {"skipping", "noting"}
  /\ \E s \in IF job[p].step = "noting" THEN {run[k].stage, "none"} ELSE {run[k].stage} :
       run' = [run EXCEPT ![k].status = "skipped", ![k].stage = s]
  /\ EndJob(p)
  /\ UNCHANGED <<bucket, reason, raws, faults, history>>

-----------------------------------------------------------------------------
(* Collecting, under the job lock and the heavy-write lock.                *)

\* the row is inspected, and started in a transaction of its own
Inspect(p) ==
  /\ job[p].step = "inspect"
  /\ Goto(p, IF run[job[p].key].stage = "normalize" THEN "resume" ELSE "start")
  /\ UNCHANGED <<bucket, state, raws, holder, faults, history>>

\* a run that is no longer scheduled: ValueError, no failure is recorded
Start(p) ==
  LET k == job[p].key IN
  /\ job[p].step \in {"start", "resume"}
  /\ \/ /\ run[k].status = "scheduled"
        /\ run' = [run EXCEPT ![k].status = "running"]
        /\ Goto(p, IF job[p].step = "start" THEN "fetch" ELSE "begin")
        /\ credited' = credited \ {k}
        /\ UNCHANGED holder
     \/ /\ run[k].status # "scheduled"
        /\ EndJob(p)
        /\ UNCHANGED <<run, credited>>
  /\ UNCHANGED <<bucket, reason, raws, faults, dropped>>

\* cut: partial_errors, a page or an operation is missing
Results ==
  {r \in [status : {"available", "degraded", "unavailable"},
          items : SUBSET Items, cut : BOOLEAN] :
     CASE r.status = "available"   -> ~r.cut /\ (National => r.items = Items)
       [] r.status = "degraded"    -> National /\ ~r.cut => r.items = Items
       [] r.status = "unavailable" -> r.items = {} /\ r.cut}

Fetch(p) ==
  /\ job[p].step = "fetch"
  /\ \E r \in Results :
       job' = [job EXCEPT ![p].step = "persist", ![p].result = r]
  /\ UNCHANGED <<bucket, state, raws, holder, faults, history>>

\* the raw records a run may have stored before are not looked at again
Drop(k) == dropped' = IF RawsOf(k) = {} THEN dropped ELSE dropped \union {k}

\* _record_run_failure at stage "fetch"
FetchFails(p) ==
  LET k == job[p].key IN
  /\ job[p].step = "fetch"
  /\ Fault
  /\ run' = [run EXCEPT ![k].status = "failed", ![k].stage = "fetch"]
  /\ reason' = "fetch"
  /\ Drop(k)
  /\ EndJob(p)
  /\ UNCHANGED <<bucket, raws, credited>>

\* a content that is stored already stays with the run that stored it
Persist(p) ==
  /\ job[p].step = "persist"
  /\ \E i \in job[p].result.items :
       /\ owner' = [owner EXCEPT ![i] = IF @ = None THEN job[p].key ELSE @]
       /\ job' = [job EXCEPT ![p].result.items = @ \ {i}]
  /\ UNCHANGED <<bucket, state, fate, cohort, holder, faults, history>>

\* mutant of PersistFails: the source is not told
PersistFailsQuietly(p) ==
  /\ job[p].step = "persist"
  /\ Fault
  /\ run' = [run EXCEPT ![job[p].key].status = "failed", ![job[p].key].stage = "raw"]
  /\ EndJob(p)
  /\ UNCHANGED <<bucket, reason, raws, history>>

\* a batch or the end of the fetch fails twice: stage "pipeline:raw"
PersistFails(p) ==
  LET k == job[p].key IN
  /\ job[p].step = "persist"
  /\ Fault
  /\ run' = [run EXCEPT ![k].status = "failed", ![k].stage = "raw"]
  /\ reason' = "raw"
  /\ EndJob(p)
  /\ UNCHANGED <<bucket, raws, history>>

\* a failed fetch updates the source at once, a good one when it completes
Finalize(p) ==
  LET k == job[p].key
      r == job[p].result
      status == CASE r.status = "available" -> "succeeded"
                  [] r.status = "degraded" /\ RawsOf(k) # {} -> "partial"
                  [] OTHER -> "failed" IN
  /\ job[p].step = "persist"
  /\ r.items = {}
  /\ run' = [run EXCEPT ![k] = [status |-> status, stage |-> "none",
                                fetched |-> r.status, cut |-> r.cut]]
  /\ IF status = "failed"
       THEN reason' = "none" /\ Drop(k)
       ELSE UNCHANGED <<reason, dropped>>
  /\ job' = [job EXCEPT ![p].step = "work", ![p].result = NoResult]
  /\ UNCHANGED <<bucket, raws, holder, faults, credited>>

\* _pipeline_work, after the cursor is saved
Work(p) ==
  LET k == job[p].key
      retrying == run[k].status = "failed" /\ run[k].stage \in PipelineStages IN
  /\ job[p].step = "work"
  /\ Goto(p, IF run[k].status \notin {"succeeded", "partial"} /\ ~retrying THEN "release"
             ELSE IF RawsOf(k) # {} \/ retrying THEN "begin" ELSE "complete")
  /\ UNCHANGED <<bucket, state, raws, holder, faults, history>>

-----------------------------------------------------------------------------
(* Normalizing and completing.                                             *)

\* an exception past the fetch: the locks go before the handler runs
Raise(p) ==
  /\ Goto(p, "fail")
  /\ Unlock(p)

\* normalize_run resets the status to what the fetch result says
NormalizeBegin(p) ==
  LET k == job[p].key
      status == CASE run[k].fetched = "degraded" -> "partial"
                  [] run[k].fetched = "unavailable" -> "failed"
                  [] run[k].fetched = "available" -> "succeeded"
                  [] run[k].fetched = "none" /\ run[k].stage = "none" -> "succeeded"
                  [] OTHER -> run[k].status IN
  /\ job[p].step = "begin"
  /\ run' = [run EXCEPT ![k].status = status]
  /\ Goto(p, "normalize")
  /\ UNCHANGED <<bucket, reason, raws, holder, faults, history>>

\* a dead letter that is quarantined stays so
AddDeadLetter(f) == IF f = "quarantined" THEN f ELSE "dead"

\* an incomplete national cohort is left out; otherwise each record becomes a
\* fact or a dead letter, and a run without any fact fails
Normalize(p) ==
  LET k == job[p].key
      mine == RawsOf(k)
      good == mine \ Bad
      rejected == {i \in mine \intersect Bad : AddDeadLetter(fate[i]) = "dead"} IN
  /\ job[p].step = "normalize"
  /\ \/ /\ National /\ run[k].cut
        /\ run' = [run EXCEPT ![k].status = "partial", ![k].stage = "none",
                              ![k].fetched = "degraded"]
        /\ fate' = [i \in Items |-> IF i \in mine /\ fate[i] = "raw" THEN "left" ELSE fate[i]]
        /\ UNCHANGED cohort
     \/ /\ ~(National /\ run[k].cut)
        /\ run' = [run EXCEPT ![k].status = IF rejected = {} THEN @
                                            ELSE IF good = {} THEN "failed" ELSE "partial"]
        /\ fate' = [i \in Items |-> IF i \in good THEN "fact"
                                    ELSE IF i \in mine THEN AddDeadLetter(fate[i]) ELSE fate[i]]
        /\ cohort' = [i \in Items |-> IF National /\ i \in good THEN good ELSE cohort[i]]
  /\ Goto(p, "check")
  /\ UNCHANGED <<bucket, reason, owner, holder, faults, history>>

\* mutant of Check: a retry does not mark the products again
CheckFirstTryOnly(p) ==
  LET k == job[p].key IN
  /\ job[p].step = "check"
  /\ IF run[k].status = "failed" THEN Raise(p)
     ELSE /\ Goto(p, IF ~job[p].retry /\ (\E i \in RawsOf(k) : fate[i] = "fact")
                       THEN "mark" ELSE "complete")
          /\ UNCHANGED holder
  /\ UNCHANGED <<bucket, state, raws, faults, history>>

\* no usable fact is an error; products are marked when there is a fact
Check(p) ==
  LET k == job[p].key IN
  /\ job[p].step = "check"
  /\ IF run[k].status = "failed" THEN Raise(p)
     ELSE /\ Goto(p, IF \E i \in RawsOf(k) : fate[i] = "fact" THEN "mark" ELSE "complete")
          /\ UNCHANGED holder
  /\ UNCHANGED <<bucket, state, raws, faults, history>>

\* mark_products_dirty: the next build reads every fact there is
Mark(p) ==
  /\ job[p].step = "mark"
  /\ fate' = [i \in Items |-> IF fate[i] = "fact" THEN "shown" ELSE fate[i]]
  /\ Goto(p, "complete")
  /\ UNCHANGED <<bucket, state, owner, cohort, holder, faults, history>>

\* complete_pipeline
Complete(p) ==
  LET k == job[p].key IN
  /\ job[p].step = "complete"
  /\ \/ /\ run[k].status = "failed"
        /\ Raise(p)
        /\ UNCHANGED <<state, credited>>
     \/ /\ run[k].status # "failed"
        /\ run' = [run EXCEPT
             ![k].status = CASE @ # "running" -> @
                             [] run[k].fetched = "degraded" -> "partial"
                             [] OTHER -> "succeeded",
             ![k].stage = "none"]
        /\ reason' = "none"
        /\ credited' = credited \union {k}
        /\ Goto(p, "release")
        /\ UNCHANGED holder
  /\ UNCHANGED <<bucket, raws, faults, dropped>>

\* RELEASE_LOCK raises on a connection that is lost
Release(p) ==
  /\ job[p].step = "release"
  /\ IF holder = p THEN EndJob(p) ELSE Raise(p)
  /\ UNCHANGED <<bucket, state, raws, faults, history>>

\* fail_pipeline, whatever the run was by then
Fail(p) ==
  LET k == job[p].key IN
  /\ job[p].step = "fail"
  /\ run' = [run EXCEPT ![k].status = "failed", ![k].stage = "normalize"]
  /\ reason' = "normalize"
  /\ credited' = credited \ {k}
  /\ EndJob(p)
  /\ UNCHANGED <<bucket, raws, faults, dropped>>

-----------------------------------------------------------------------------
(* Failures and the work of others.                                        *)

\* a database error once the fetch is finalized
Error(p) ==
  /\ job[p].step \in Counted
  /\ Fault
  /\ Raise(p)
  /\ UNCHANGED <<bucket, state, raws, history>>

\* the process dies, or an error no handler records: before the fetch, while
\* the cursor is saved, or while a failure is recorded
Stop(p) ==
  /\ job[p].step # "idle"
  /\ Fault
  /\ EndJob(p)
  /\ IF job[p].step \in AtWork \ {"release"} THEN Drop(job[p].key) ELSE UNCHANGED dropped
  /\ UNCHANGED <<bucket, state, raws, credited>>

LoseLock(p) ==
  /\ holder = p
  /\ Fault
  /\ holder' = None
  /\ UNCHANGED <<bucket, state, raws, job, history>>

\* recover_abandoned_runs, for a run that no process has worked on for two hours
Recover(k) ==
  /\ run[k].status = "running"
  /\ ~ \E p \in Procs : job[p].key = k /\ job[p].step \in AtWork
  /\ run' = [run EXCEPT ![k].status = "failed", ![k].stage = "interrupted"]
  /\ UNCHANGED <<bucket, reason, raws, holder, job, faults, history>>

\* the dead-letter job gives a record up after its last attempt
Quarantine(i) ==
  /\ fate[i] = "dead"
  /\ fate' = [fate EXCEPT ![i] = "quarantined"]
  /\ UNCHANGED <<bucket, state, owner, cohort, holder, job, faults, history>>

Step(p) ==
  \/ CheckDue(p) \/ FindRun(p) \/ Schedule(p) \/ LockJob(p) \/ SkipRead(p) \/ SkipWrite(p)
  \/ Inspect(p) \/ Start(p) \/ Fetch(p) \/ Persist(p) \/ Finalize(p) \/ Work(p)
  \/ NormalizeBegin(p) \/ Normalize(p) \/ Check(p) \/ Mark(p) \/ Complete(p)
  \/ Release(p) \/ Fail(p)

Next ==
  \/ Tick
  \/ \E p \in Procs :
       \/ Step(p) \/ LockHeavy(p) \/ HeavyBusy(p)
       \/ FetchFails(p) \/ PersistFails(p) \/ Error(p) \/ Stop(p)
  \/ \E p \in Fragile : LoseLock(p)
  \/ \E k \in Buckets : Recover(k)
  \/ \E i \in Items : Quarantine(i)

Spec == Init /\ [][Next]_vars

\* Jobs are polled and go on, the dead-letter job comes round, and the shared
\* heavy-write lock is not found busy for ever.
Fairness ==
  /\ \A p \in Procs : WF_vars(Step(p)) /\ SF_vars(LockHeavy(p))
  /\ \A i \in Items : WF_vars(Quarantine(i))

FairSpec == Spec /\ Fairness

-----------------------------------------------------------------------------
Statuses == {"absent", "scheduled", "running", "succeeded", "partial", "failed", "skipped"}
Steps == {"idle", "find", "schedule", "lock", "heavy", "skip", "skipping",
          "noting", "inspect", "start", "resume"} \union AtWork

\* Every variable has its type, and a job names a run from the moment it has
\* chosen one until it ends.
TypeOK ==
  /\ bucket \in Buckets
  /\ run \in [Buckets -> [status : Statuses, stage : Stages, cut : BOOLEAN,
                          fetched : {"none", "available", "degraded", "unavailable"}]]
  /\ reason \in Stages
  /\ owner \in [Items -> Buckets \union {None}]
  /\ fate \in [Items -> {"raw", "left", "dead", "quarantined", "fact", "shown"}]
  /\ cohort \in [Items -> SUBSET Items]
  /\ holder \in Procs \union {None}
  /\ job \in [Procs -> [step : Steps, key : Buckets \union {None}, retry : BOOLEAN,
                        result : [status : {"none", "available", "degraded", "unavailable"},
                                  items : SUBSET Items, cut : BOOLEAN]]]
  /\ \A p \in Procs : job[p].key = None <=> job[p].step \in {"idle", "find"}
  /\ faults \in 0..MaxFaults
  /\ credited \subseteq Buckets
  /\ dropped \subseteq Buckets

\* A raw record that is neither shown nor set aside will still be normalized:
\* its run is at work, or recorded at a stage from which a retry resumes it.
\* Only a crash, or a refetch that failed, leaves a record behind.
NothingStranded ==
  \A i \in Items :
    owner[i] # None /\ fate[i] \in {"raw", "fact"} =>
      \/ owner[i] \in dropped \union Pending
      \/ \E p \in Procs : job[p].key = owner[i] /\ job[p].step \in AtWork

\* complete_pipeline: "Commit source success only after normalization and
\* products finish" - across retries, crashes and two leaders, no record of a
\* completed run is unnormalized, or a fact its products were not told of.
CompletedIsShown ==
  \A i \in Items : owner[i] \in credited => fate[i] \notin {"raw", "fact"}

\* Every raw record is shown or set aside in the end, however often the jobs
\* fail and the locks are busy, unless its run was dropped.
RawsProcessed ==
  \A i \in Items : owner[i] # None ~>
    (fate[i] \in {"left", "dead", "quarantined", "shown"} \/ owner[i] \in dropped)

\* fail_pipeline: "Make a failed downstream stage visible and eligible for
\* bounded retry."  A retry is looked for only when the source's reason names
\* a pipeline stage.
FailedStageEligible ==
  \A k \in Buckets :
    run[k].status = "failed" /\ run[k].stage \in PipelineStages
      => reason \in PipelineStages

\* ... and the retry is bounded: a source does not stay with the same failed
\* stage, which keeps it from being fetched, for ever.
RetryIsBounded == (reason \in PipelineStages) ~> (reason \notin PipelineStages)

\* test_raw_database_disconnect_retries_once_then_records_resumable_stage: a
\* failed run that has committed raw records is recorded at a resumable stage.
FailedRawsResumable ==
  \A k \in Buckets :
    run[k].status = "failed" /\ (\E i \in RawsOf(k) : fate[i] = "raw")
      => run[k].stage \in PipelineStages \union {"interrupted"}

\* _skip_incomplete_national_cohort: "Never replace national relative scores
\* with a truncated region population."
CohortIsNational ==
  National => \A i \in Items : cohort[i] \in {{}, Items}
=============================================================================
