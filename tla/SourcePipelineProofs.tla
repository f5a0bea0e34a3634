------------------------ MODULE SourcePipelineProofs ------------------------
(***************************************************************************)
(* Proofs about SourcePipeline for every set of processes and contents,    *)
(* and any number of time buckets and failures.                            *)
(***************************************************************************)
EXTENDS SourcePipeline, TLAPS

USE PipelineAssumption

ResultRecord == [status : {"none", "available", "degraded", "unavailable"},
                 items : SUBSET Items, cut : BOOLEAN]
JobRecord == [step : Steps, key : Buckets \union {None}, retry : BOOLEAN,
              result : ResultRecord]
RunRecord == [status : Statuses, stage : Stages, cut : BOOLEAN,
              fetched : {"none", "available", "degraded", "unavailable"}]

Unplanned == {"idle", "find"}

Sound(j) ==
  /\ j \in JobRecord
  /\ j.key = None <=> j.step \in Unplanned

JobTyped ==
  /\ job \in [Procs -> JobRecord]
  /\ \A p \in Procs : Sound(job[p])

LEMMA StepsHold ==
  /\ Unplanned \subseteq Steps
  /\ AtWork \subseteq Steps
  /\ {"schedule", "lock", "heavy", "skip", "skipping", "noting", "inspect", "start",
      "resume", "fetch", "persist", "work", "fail", "begin", "normalize", "check", "mark",
      "complete", "release"} \subseteq Steps \ Unplanned
  BY DEF Steps, AtWork, Counted, Unplanned

LEMMA IdleSound == Sound(Idle)
  BY DEF Sound, Idle, NoResult, JobRecord, ResultRecord, Steps, Unplanned

\* TypeOK in the terms of these proofs.
LEMMA TypeParts ==
  TypeOK <=> /\ bucket \in Buckets
             /\ run \in [Buckets -> RunRecord]
             /\ reason \in Stages
             /\ owner \in [Items -> Buckets \union {None}]
             /\ fate \in [Items -> {"raw", "left", "dead", "quarantined", "fact", "shown"}]
             /\ cohort \in [Items -> SUBSET Items]
             /\ holder \in Procs \union {None}
             /\ JobTyped
             /\ faults \in 0..MaxFaults
             /\ credited \subseteq Buckets
             /\ dropped \subseteq Buckets
  BY DEF TypeOK, JobTyped, Sound, JobRecord, ResultRecord, RunRecord, Unplanned

LEMMA TypePartsNext ==
  TypeOK' <=> /\ bucket' \in Buckets
              /\ run' \in [Buckets -> RunRecord]
              /\ reason' \in Stages
              /\ owner' \in [Items -> Buckets \union {None}]
              /\ fate' \in [Items -> {"raw", "left", "dead", "quarantined", "fact", "shown"}]
              /\ cohort' \in [Items -> SUBSET Items]
              /\ holder' \in Procs \union {None}
              /\ JobTyped'
              /\ faults' \in 0..MaxFaults
              /\ credited' \subseteq Buckets
              /\ dropped' \subseteq Buckets
  BY DEF TypeOK, JobTyped, Sound, JobRecord, ResultRecord, RunRecord, Unplanned

\* Giving one process a well-formed job keeps the jobs well formed.
LEMMA JobType ==
  ASSUME JobTyped, NEW p \in Procs, NEW j, Sound(j), job' = [job EXCEPT ![p] = j]
  PROVE  JobTyped'
  BY DEF JobTyped, Sound

LEMMA GotoType ==
  ASSUME JobTyped, NEW p \in Procs, NEW s \in Steps,
         s \in Unplanned <=> job[p].step \in Unplanned, Goto(p, s)
  PROVE  JobTyped'
  <1> DEFINE j == [job[p] EXCEPT !.step = s]
  <1>1. Sound(j)
    BY DEF JobTyped, Sound, JobRecord
  <1>2. job' = [job EXCEPT ![p] = j]
    BY DEF Goto
  <1>3. QED
    BY <1>1, <1>2, JobType

LEMMA UnlockType ==
  ASSUME TypeOK, NEW p \in Procs, Unlock(p)
  PROVE  holder' \in Procs \union {None}
  BY DEF TypeOK, Unlock

LEMMA EndJobType ==
  ASSUME TypeOK, NEW p \in Procs, EndJob(p)
  PROVE  JobTyped' /\ holder' \in Procs \union {None}
  BY TypeParts, IdleSound, JobType, UnlockType DEF EndJob

LEMMA RaiseType ==
  ASSUME TypeOK, NEW p \in Procs, job[p].step \notin Unplanned, Raise(p)
  PROVE  JobTyped' /\ holder' \in Procs \union {None}
  BY TypeParts, StepsHold, GotoType, UnlockType DEF Raise

LEMMA FaultType ==
  ASSUME TypeOK, Fault
  PROVE  faults' \in 0..MaxFaults
  BY DEF TypeOK, Fault

\* A job past its planning has a run.
LEMMA KeyType ==
  ASSUME TypeOK, NEW p \in Procs, job[p].step \notin Unplanned
  PROVE  job[p] \in JobRecord /\ job[p].key \in Buckets
  BY TypeParts DEF JobTyped, Sound, JobRecord

LEMMA DropType ==
  ASSUME TypeOK, NEW k \in Buckets, Drop(k)
  PROVE  dropped' \subseteq Buckets
  BY DEF TypeOK, Drop

LEMMA TypeInitially == Init => TypeOK
<1> SUFFICES ASSUME Init PROVE TypeOK
  OBVIOUS
<1>1. JobTyped
  BY IdleSound DEF Init, JobTyped, Sound
<1>2. run \in [Buckets -> RunRecord]
  BY DEF Init, NoRun, RunRecord, Statuses, Stages
<1>3. bucket \in Buckets
  BY DEF Init, Buckets
<1>4. QED
  BY <1>1, <1>2, <1>3, TypeParts DEF Init, Stages

\* A run whose status and stage are replaced by others stays well formed.
LEMMA RunType ==
  ASSUME TypeOK, NEW k \in Buckets, NEW x \in Statuses, NEW y \in Stages,
         run' = [run EXCEPT ![k].status = x, ![k].stage = y]
  PROVE  run' \in [Buckets -> RunRecord]
<1>1. run \in [Buckets -> RunRecord]
  BY TypeParts
<1>2. [run[k] EXCEPT !.status = x, !.stage = y] \in RunRecord
  BY <1>1 DEF RunRecord
<1>3. run' = [run EXCEPT ![k] = [run[k] EXCEPT !.status = x, !.stage = y]]
  BY <1>1 DEF RunRecord
<1>4. QED
  BY <1>1, <1>2, <1>3

LEMMA StatusType ==
  ASSUME TypeOK, NEW k \in Buckets, NEW x \in Statuses,
         run' = [run EXCEPT ![k].status = x]
  PROVE  run' \in [Buckets -> RunRecord]
  BY TypeParts DEF RunRecord

\* A job that is planned, and stays so, keeps the jobs well formed.
LEMMA OnwardType ==
  ASSUME TypeOK, NEW p \in Procs, NEW s \in Steps \ Unplanned,
         job[p].step \notin Unplanned, Goto(p, s)
  PROVE  JobTyped'
  BY TypeParts, GotoType

LEMMA StartType ==
  ASSUME TypeOK, NEW p \in Procs, Start(p)
  PROVE  TypeOK'
<1>1. job[p].step \notin Unplanned /\ job[p].key \in Buckets
  BY KeyType DEF Start, Unplanned
<1>2. CASE run[job[p].key].status = "scheduled"
  <2>1. JobTyped'
    BY <1>1, <1>2, OnwardType, StepsHold DEF Start
  <2>2. run' \in [Buckets -> RunRecord]
    BY <1>1, <1>2, TypeParts DEF Start, RunRecord, Statuses
  <2>3. QED
    BY <1>2, <2>1, <2>2, TypeParts, TypePartsNext DEF Start, raws
<1>3. CASE run[job[p].key].status # "scheduled"
  <2>1. EndJob(p)
    BY <1>3 DEF Start
  <2>2. QED
    BY <1>3, <2>1, EndJobType, TypeParts, TypePartsNext DEF Start, raws
<1>4. QED
  BY <1>2, <1>3

\* Planning and the skip of a run.
LEMMA PlanningType ==
  ASSUME TypeOK, NEW p \in Procs,
         \/ CheckDue(p) \/ FindRun(p) \/ Schedule(p) \/ LockJob(p) \/ LockHeavy(p)
         \/ HeavyBusy(p) \/ SkipRead(p) \/ SkipWrite(p)
  PROVE  TypeOK'
<1>0. JobTyped
  BY TypeParts
<1>1. CASE CheckDue(p)
  <2> DEFINE b == reason \in PipelineStages
             j == [Idle EXCEPT !.step = "find", !.retry = b]
  <2>1. Sound(j)
    <3>1. b \in BOOLEAN
      OBVIOUS
    <3> HIDE DEF b
    <3>2. QED
      BY <3>1, IdleSound DEF Sound, JobRecord, Steps, Unplanned, Idle
  <2>2. job' = [job EXCEPT ![p] = j]
    BY <1>1 DEF CheckDue
  <2>3. JobTyped'
    BY <1>0, <2>1, <2>2, JobType
  <2>4. QED
    BY <1>1, <2>3, TypeParts, TypePartsNext DEF CheckDue, state, raws, history
<1>2. CASE FindRun(p)
  <2>1. PICK k \in Buckets : job' = [job EXCEPT ![p].step = "schedule", ![p].key = k]
    BY <1>2 DEF FindRun
  <2> DEFINE j == [job[p] EXCEPT !.step = "schedule", !.key = k]
  <2>2. Sound(j)
    BY <1>0, StepsHold DEF JobTyped, Sound, JobRecord, Unplanned
  <2>3. job' = [job EXCEPT ![p] = j]
    BY <1>0, <2>1 DEF JobTyped, JobRecord
  <2>4. JobTyped'
    BY <1>0, <2>2, <2>3, JobType
  <2>5. QED
    BY <1>2, <2>4, TypeParts, TypePartsNext DEF FindRun, state, raws, history
<1>3. CASE Schedule(p)
  <2>1. job[p].step \notin Unplanned /\ job[p].key \in Buckets
    BY <1>3, KeyType DEF Schedule, Unplanned
  <2>2. run' \in [Buckets -> RunRecord]
    BY <1>3, <2>1, TypeParts DEF Schedule, RunRecord, Statuses
  <2>3. CASE Goto(p, "lock")
    BY <1>3, <2>1, <2>2, <2>3, OnwardType, StepsHold, TypeParts, TypePartsNext DEF Schedule, raws, history
  <2>4. CASE job' = [job EXCEPT ![p] = Idle]
    <3>1. JobTyped'
      BY <1>0, <2>4, IdleSound, JobType
    <3>2. QED
      BY <1>3, <2>2, <3>1, TypeParts, TypePartsNext DEF Schedule, raws, history
  <2>5. QED
    BY <1>3, <2>3, <2>4 DEF Schedule
<1>4. CASE LockJob(p)
  <2>1. job[p].step \notin Unplanned
    BY <1>4 DEF LockJob, Unplanned
  <2>2. JobTyped'
    BY <1>4, <2>1, OnwardType, StepsHold DEF LockJob
  <2>3. QED
    BY <1>4, <2>2, TypeParts, TypePartsNext DEF LockJob, state, raws, history
<1>5. CASE LockHeavy(p) \/ HeavyBusy(p)
  <2>1. job[p].step \notin Unplanned
    BY <1>5 DEF LockHeavy, HeavyBusy, Unplanned
  <2>2. JobTyped'
    BY <1>5, <2>1, OnwardType, StepsHold DEF LockHeavy, HeavyBusy
  <2>3. QED
    BY <1>5, <2>2, TypeParts, TypePartsNext DEF LockHeavy, HeavyBusy, state, raws, history
<1>6. CASE SkipRead(p)
  <2>1. job[p].step \notin Unplanned
    BY <1>6 DEF SkipRead, Unplanned
  <2>2. JobTyped' /\ holder' \in Procs \union {None}
    BY <1>6, <2>1, OnwardType, EndJobType, StepsHold, TypeParts DEF SkipRead
  <2>3. QED
    BY <1>6, <2>2, TypeParts, TypePartsNext DEF SkipRead, state, raws, history
<1>7. CASE SkipWrite(p)
  <2>1. job[p].step \notin Unplanned /\ job[p].key \in Buckets
    BY <1>7, KeyType DEF SkipWrite, Unplanned
  <2>2. run' \in [Buckets -> RunRecord]
    <3> DEFINE k == job[p].key
    <3>1. run[k] \in RunRecord
      BY <2>1, TypeParts
    <3>2. PICK x \in {run[k].stage, "none"} :
             run' = [run EXCEPT ![k].status = "skipped", ![k].stage = x]
      BY <1>7 DEF SkipWrite
    <3>3. x \in Stages /\ "skipped" \in Statuses
      BY <3>1 DEF RunRecord, Stages, Statuses
    <3>4. QED
      BY <2>1, <3>2, <3>3, RunType
  <2>3. QED
    BY <1>7, <2>2, EndJobType, TypeParts, TypePartsNext DEF SkipWrite, raws, history
<1>8. QED
  BY <1>1, <1>2, <1>3, <1>4, <1>5, <1>6, <1>7

\* The fetch, from the inspection of the row to the finished run.
LEMMA FetchingType ==
  ASSUME TypeOK, NEW p \in Procs,
         \/ Inspect(p) \/ Fetch(p) \/ FetchFails(p) \/ Persist(p) \/ PersistFails(p)
         \/ Finalize(p)
  PROVE  TypeOK'
<1>0. JobTyped
  BY TypeParts
<1>k. job[p] \in JobRecord /\ job[p].key \in Buckets /\ job[p].step \notin Unplanned
  BY KeyType DEF Inspect, Fetch, FetchFails, Persist, PersistFails, Finalize, Unplanned
<1>1. CASE Inspect(p)
  <2>1. JobTyped'
    BY <1>1, <1>k, OnwardType, StepsHold DEF Inspect
  <2>2. QED
    BY <1>1, <2>1, TypeParts, TypePartsNext DEF Inspect, state, raws, history
<1>2. CASE Fetch(p)
  <2>1. PICK r \in ResultRecord : job' = [job EXCEPT ![p].step = "persist", ![p].result = r]
    BY <1>2 DEF Fetch, Results, ResultRecord
  <2> DEFINE j == [job[p] EXCEPT !.step = "persist", !.result = r]
  <2>2. Sound(j)
    BY <1>k, StepsHold DEF Sound, JobRecord, Unplanned
  <2>3. job' = [job EXCEPT ![p] = j]
    BY <1>0, <2>1 DEF JobTyped, JobRecord
  <2>4. JobTyped'
    BY <1>0, <2>2, <2>3, JobType
  <2>5. QED
    BY <1>2, <2>4, TypeParts, TypePartsNext DEF Fetch, state, raws, history
<1>3. CASE FetchFails(p)
  <2>1. run' \in [Buckets -> RunRecord] /\ reason' \in Stages
    BY <1>3, <1>k, TypeParts DEF FetchFails, RunRecord, Statuses, Stages
  <2>2. JobTyped' /\ holder' \in Procs \union {None}
    BY <1>3, EndJobType DEF FetchFails
  <2>3. dropped' \subseteq Buckets /\ faults' \in 0..MaxFaults
    BY <1>3, <1>k, DropType, FaultType DEF FetchFails
  <2>4. QED
    BY <1>3, <2>1, <2>2, <2>3, TypeParts, TypePartsNext DEF FetchFails, raws
<1>4. CASE Persist(p)
  <2>1. PICK i \in Items :
           /\ owner' = [owner EXCEPT ![i] = IF @ = None THEN job[p].key ELSE @]
           /\ job' = [job EXCEPT ![p].result.items = @ \ {i}]
    BY <1>4, <1>k DEF Persist, JobRecord, ResultRecord
  <2> DEFINE r == [job[p].result EXCEPT !.items = @ \ {i}]
             j == [job[p] EXCEPT !.result = r]
  <2>2. r \in ResultRecord
    BY <1>k DEF JobRecord, ResultRecord
  <2>3. Sound(j)
    <3> HIDE DEF r
    <3>1. QED
      BY <1>k, <2>2 DEF Sound, JobRecord
  <2>4. job' = [job EXCEPT ![p] = j]
    BY <1>0, <2>1 DEF JobTyped, JobRecord
  <2>5. JobTyped'
    BY <1>0, <2>3, <2>4, JobType
  <2>6. owner' \in [Items -> Buckets \union {None}]
    BY <1>k, <2>1, TypeParts
  <2>7. QED
    BY <1>4, <2>5, <2>6, TypeParts, TypePartsNext DEF Persist, state, history
<1>5. CASE PersistFails(p)
  <2>1. run' \in [Buckets -> RunRecord] /\ reason' \in Stages
    BY <1>5, <1>k, TypeParts DEF PersistFails, RunRecord, Statuses, Stages
  <2>2. JobTyped' /\ holder' \in Procs \union {None} /\ faults' \in 0..MaxFaults
    BY <1>5, EndJobType, FaultType DEF PersistFails
  <2>3. QED
    BY <1>5, <2>1, <2>2, TypeParts, TypePartsNext DEF PersistFails, raws, history
<1>6. CASE Finalize(p)
  <2> DEFINE k == job[p].key
             x == CASE job[p].result.status = "available" -> "succeeded"
                    [] job[p].result.status = "degraded" /\ RawsOf(k) # {} -> "partial"
                    [] OTHER -> "failed"
             j == [job[p] EXCEPT !.step = "work", !.result = NoResult]
  <2>1. x \in Statuses
    BY DEF Statuses
  <2>2. [status |-> x, stage |-> "none", fetched |-> job[p].result.status,
         cut |-> job[p].result.cut] \in RunRecord
    <3> HIDE DEF x
    <3>1. QED
      BY <1>k, <2>1 DEF RunRecord, JobRecord, ResultRecord, Stages
  <2>3. run' \in [Buckets -> RunRecord]
    <3>1. run' = [run EXCEPT ![k] = [status |-> x, stage |-> "none",
                    fetched |-> job[p].result.status, cut |-> job[p].result.cut]]
      BY <1>6 DEF Finalize
    <3> HIDE DEF x
    <3>2. QED
      BY <1>k, <2>2, <3>1, TypeParts
  <2>4. Sound(j)
    BY <1>k, StepsHold, IdleSound DEF Sound, JobRecord, Unplanned, Idle
  <2>5. job' = [job EXCEPT ![p] = j]
    BY <1>0, <1>6 DEF Finalize, JobTyped, JobRecord
  <2>6. JobTyped'
    BY <1>0, <2>4, <2>5, JobType
  <2>7. reason' \in Stages /\ dropped' \subseteq Buckets
    BY <1>6, <1>k, DropType, TypeParts DEF Finalize, Stages
  <2>8. QED
    BY <1>6, <2>3, <2>6, <2>7, TypeParts, TypePartsNext DEF Finalize, raws
<1>7. QED
  BY <1>1, <1>2, <1>3, <1>4, <1>5, <1>6

LEMMA NormalizeType ==
  ASSUME TypeOK, NEW p \in Procs, Normalize(p)
  PROVE  TypeOK'
<1> DEFINE k == job[p].key
           mine == RawsOf(k)
           good == mine \ Bad
<1>k. k \in Buckets /\ job[p].step \notin Unplanned
  BY KeyType DEF Normalize, Unplanned
<1>m. mine \subseteq Items /\ good \subseteq Items
  BY DEF RawsOf
<1>f. fate \in [Items -> {"raw", "left", "dead", "quarantined", "fact", "shown"}]
        /\ cohort \in [Items -> SUBSET Items]
  BY TypeParts
<1>1. JobTyped'
  BY <1>k, OnwardType, StepsHold DEF Normalize
<1>2. CASE National /\ run[k].cut
  <2>1. run' \in [Buckets -> RunRecord]
    <3>1. run[k] \in RunRecord
      BY <1>k, TypeParts
    <3> DEFINE r == [run[k] EXCEPT !.status = "partial", !.stage = "none",
                                   !.fetched = "degraded"]
    <3>2. r \in RunRecord
      BY <3>1 DEF RunRecord, Statuses, Stages
    <3>3. run' = [run EXCEPT ![k].status = "partial", ![k].stage = "none",
                             ![k].fetched = "degraded"]
      BY <1>2, Zenon DEF Normalize
    <3>4. run' = [run EXCEPT ![k] = r]
      BY <3>3, TypeParts DEF RunRecord
    <3>5. QED
      BY <3>2, <3>4, TypeParts
  <2>2. fate' = [i \in Items |-> IF i \in mine /\ fate[i] = "raw" THEN "left" ELSE fate[i]]
          /\ cohort' = cohort
    BY <1>2 DEF Normalize
  <2>3. fate' \in [Items -> {"raw", "left", "dead", "quarantined", "fact", "shown"}]
    <3> HIDE DEF mine
    <3>1. QED
      BY <1>f, <2>2
  <2>4. QED
    BY <1>1, <2>1, <2>2, <2>3, TypeParts, TypePartsNext DEF Normalize, history
<1>3. CASE ~(National /\ run[k].cut)
  <2>1. run' \in [Buckets -> RunRecord]
    BY <1>3, <1>k, TypeParts DEF Normalize, RunRecord, Statuses
  <2>2. fate' = [i \in Items |-> IF i \in good THEN "fact"
                                 ELSE IF i \in mine THEN AddDeadLetter(fate[i]) ELSE fate[i]]
          /\ cohort' = [i \in Items |-> IF National /\ i \in good THEN good ELSE cohort[i]]
    BY <1>3 DEF Normalize
  <2>3. /\ fate' \in [Items -> {"raw", "left", "dead", "quarantined", "fact", "shown"}]
        /\ cohort' \in [Items -> SUBSET Items]
    <3> HIDE DEF mine, good
    <3>1. QED
      BY <1>f, <1>m, <2>2 DEF AddDeadLetter
  <2>4. QED
    BY <1>1, <2>1, <2>2, <2>3, TypeParts, TypePartsNext DEF Normalize, history
<1>4. QED
  BY <1>2, <1>3

\* The rest of a collection: what to do, normalization and the end.
LEMMA FinishingType ==
  ASSUME TypeOK, NEW p \in Procs,
         \/ Work(p) \/ NormalizeBegin(p) \/ Check(p) \/ Mark(p) \/ Complete(p)
         \/ Release(p) \/ Fail(p)
  PROVE  TypeOK'
<1>k. job[p] \in JobRecord /\ job[p].key \in Buckets /\ job[p].step \notin Unplanned
  BY KeyType DEF Work, NormalizeBegin, Check, Mark, Complete, Release, Fail, Unplanned
<1> DEFINE k == job[p].key
<1>1. CASE Work(p)
  <2>1. JobTyped'
    BY <1>1, <1>k, OnwardType, StepsHold DEF Work
  <2>2. QED
    BY <1>1, <2>1, TypeParts, TypePartsNext DEF Work, state, raws, history
<1>2. CASE NormalizeBegin(p)
  <2>1. JobTyped'
    BY <1>2, <1>k, OnwardType, StepsHold DEF NormalizeBegin
  <2>2. PICK x \in Statuses : run' = [run EXCEPT ![k].status = x]
    <3> DEFINE x == CASE run[k].fetched = "degraded" -> "partial"
                      [] run[k].fetched = "unavailable" -> "failed"
                      [] run[k].fetched = "available" -> "succeeded"
                      [] run[k].fetched = "none" /\ run[k].stage = "none" -> "succeeded"
                      [] OTHER -> run[k].status
    <3>1. x \in Statuses
      BY <1>k, TypeParts DEF RunRecord, Statuses
    <3>2. run' = [run EXCEPT ![k].status = x]
      BY <1>2 DEF NormalizeBegin
    <3>3. QED
      BY <3>1, <3>2
  <2>3. run' \in [Buckets -> RunRecord]
    BY <1>k, <2>2, StatusType
  <2>4. QED
    BY <1>2, <2>1, <2>3, TypeParts, TypePartsNext DEF NormalizeBegin, raws, history
<1>3. CASE Check(p)
  <2>1. JobTyped' /\ holder' \in Procs \union {None}
    BY <1>3, <1>k, OnwardType, RaiseType, StepsHold, TypeParts DEF Check
  <2>2. QED
    BY <1>3, <2>1, TypeParts, TypePartsNext DEF Check, state, raws, history
<1>4. CASE Mark(p)
  <2>1. JobTyped'
    BY <1>4, <1>k, OnwardType, StepsHold DEF Mark
  <2>2. fate' \in [Items -> {"raw", "left", "dead", "quarantined", "fact", "shown"}]
    BY <1>4, TypeParts DEF Mark
  <2>3. QED
    BY <1>4, <2>1, <2>2, TypeParts, TypePartsNext DEF Mark, state, history
<1>5. CASE Complete(p)
  <2>1. CASE run[k].status = "failed"
    BY <1>5, <1>k, <2>1, RaiseType, TypeParts, TypePartsNext DEF Complete, state, raws
  <2>2. CASE run[k].status # "failed"
    <3>1. JobTyped' /\ holder' = holder
      BY <1>5, <1>k, <2>2, OnwardType, StepsHold DEF Complete
    <3> DEFINE x == CASE run[k].status # "running" -> run[k].status
                      [] run[k].fetched = "degraded" -> "partial"
                      [] OTHER -> "succeeded"
    <3>2. x \in Statuses
      BY <1>k, TypeParts DEF RunRecord, Statuses
    <3>3. run' = [run EXCEPT ![k].status = x, ![k].stage = "none"]
      BY <1>5, <2>2 DEF Complete
    <3>4. run' \in [Buckets -> RunRecord]
      <4>1. "none" \in Stages
        BY DEF Stages
      <4> HIDE DEF x
      <4>2. QED
        BY <1>k, <3>2, <3>3, <4>1, RunType
    <3>5. reason' \in Stages /\ credited' \subseteq Buckets
      BY <1>5, <1>k, <2>2, TypeParts DEF Complete, Stages
    <3>6. QED
      BY <1>5, <3>1, <3>4, <3>5, TypeParts, TypePartsNext DEF Complete, raws
  <2>3. QED
    BY <2>1, <2>2
<1>6. CASE Release(p)
  <2>1. JobTyped' /\ holder' \in Procs \union {None}
    BY <1>6, <1>k, EndJobType, RaiseType DEF Release
  <2>2. QED
    BY <1>6, <2>1, TypeParts, TypePartsNext DEF Release, state, raws, history
<1>7. CASE Fail(p)
  <2>1. JobTyped' /\ holder' \in Procs \union {None}
    BY <1>7, EndJobType DEF Fail
  <2>2. "failed" \in Statuses /\ "normalize" \in Stages
    BY DEF Statuses, Stages
  <2>3. run' \in [Buckets -> RunRecord] /\ reason' \in Stages
    BY <1>7, <1>k, <2>2, RunType DEF Fail
  <2>4. QED
    BY <1>7, <2>1, <2>3, TypeParts, TypePartsNext DEF Fail, raws
<1>8. QED
  BY <1>1, <1>2, <1>3, <1>4, <1>5, <1>6, <1>7

\* Failures, recovery and the clock.
LEMMA DisturbanceType ==
  ASSUME TypeOK,
         \/ Tick
         \/ \E p \in Procs : Error(p) \/ Stop(p) \/ LoseLock(p)
         \/ \E k \in Buckets : Recover(k)
         \/ \E i \in Items : Quarantine(i)
  PROVE  TypeOK'
<1>1. CASE Tick
  <2>1. bucket' \in Buckets
    <3>1. bucket \in Buckets
      BY TypeParts
    <3>2. QED
      BY <1>1, <3>1 DEF Tick, Buckets, PipelineAssumption
  <2>2. JobTyped'
    BY <1>1, TypeParts DEF Tick, JobTyped
  <2>3. QED
    BY <1>1, <2>1, <2>2, TypeParts, TypePartsNext DEF Tick, state, raws, history
<1>2. ASSUME NEW p \in Procs, Error(p)
      PROVE  TypeOK'
  <2>1. job[p].step \notin Unplanned
    BY <1>2 DEF Error, Counted, Unplanned
  <2>2. JobTyped' /\ holder' \in Procs \union {None} /\ faults' \in 0..MaxFaults
    BY <1>2, <2>1, RaiseType, FaultType DEF Error
  <2>3. QED
    BY <1>2, <2>2, TypeParts, TypePartsNext DEF Error, state, raws, history
<1>3. ASSUME NEW p \in Procs, Stop(p)
      PROVE  TypeOK'
  <2>1. JobTyped' /\ holder' \in Procs \union {None} /\ faults' \in 0..MaxFaults
    BY <1>3, EndJobType, FaultType DEF Stop
  <2>2. dropped' \subseteq Buckets
    <3>1. CASE job[p].step \in AtWork \ {"release"}
      <4>1. job[p].key \in Buckets
        BY <3>1, KeyType DEF AtWork, Counted, Unplanned
      <4>2. QED
        BY <1>3, <3>1, <4>1, DropType DEF Stop
    <3>2. CASE job[p].step \notin AtWork \ {"release"}
      BY <1>3, <3>2, TypeParts DEF Stop
    <3>3. QED
      BY <3>1, <3>2
  <2>3. QED
    BY <1>3, <2>1, <2>2, TypeParts, TypePartsNext DEF Stop, state, raws
<1>4. ASSUME NEW p \in Procs, LoseLock(p)
      PROVE  TypeOK'
  <2>1. JobTyped' /\ faults' \in 0..MaxFaults
    BY <1>4, TypeParts, FaultType DEF LoseLock, JobTyped
  <2>2. QED
    BY <1>4, <2>1, TypeParts, TypePartsNext DEF LoseLock, state, raws, history
<1>5. ASSUME NEW k \in Buckets, Recover(k)
      PROVE  TypeOK'
  <2>1. "failed" \in Statuses /\ "interrupted" \in Stages
    BY DEF Statuses, Stages
  <2>2. run' \in [Buckets -> RunRecord]
    BY <1>5, <2>1, RunType DEF Recover
  <2>3. JobTyped'
    BY <1>5, TypeParts DEF Recover, JobTyped
  <2>4. QED
    BY <1>5, <2>2, <2>3, TypeParts, TypePartsNext DEF Recover, raws, history
<1>6. ASSUME NEW i \in Items, Quarantine(i)
      PROVE  TypeOK'
  <2>1. fate' \in [Items -> {"raw", "left", "dead", "quarantined", "fact", "shown"}]
    BY <1>6, TypeParts DEF Quarantine
  <2>2. JobTyped'
    BY <1>6, TypeParts DEF Quarantine, JobTyped
  <2>3. QED
    BY <1>6, <2>1, <2>2, TypeParts, TypePartsNext DEF Quarantine, state, history
<1>7. QED
  BY <1>1, <1>2, <1>3, <1>4, <1>5, <1>6

LEMMA TypeKept == TypeOK /\ [Next]_vars => TypeOK'
<1> SUFFICES ASSUME TypeOK, [Next]_vars PROVE TypeOK'
  OBVIOUS
<1>1. ASSUME NEW p \in Procs, Step(p)
      PROVE  TypeOK'
  BY <1>1, PlanningType, FetchingType, StartType, NormalizeType, FinishingType DEF Step
<1>2. ASSUME NEW p \in Procs, LockHeavy(p) \/ HeavyBusy(p)
      PROVE  TypeOK'
  BY <1>2, PlanningType
<1>3. ASSUME NEW p \in Procs, FetchFails(p) \/ PersistFails(p)
      PROVE  TypeOK'
  BY <1>3, FetchingType
<1>4. CASE Tick \/ (\E p \in Procs : Error(p) \/ Stop(p) \/ LoseLock(p))
      \/ (\E k \in Buckets : Recover(k)) \/ (\E i \in Items : Quarantine(i))
  BY <1>4, DisturbanceType
<1>5. CASE UNCHANGED vars
  <2>1. JobTyped'
    BY <1>5, TypeParts DEF vars, JobTyped
  <2>2. QED
    BY <1>5, <2>1, TypeParts, TypePartsNext DEF vars, state, raws, history
<1>6. QED
  BY <1>1, <1>2, <1>3, <1>4, <1>5 DEF Next

\* Every variable keeps its type, and a job names a run from the moment it has
\* chosen one until it ends.
THEOREM TypeCorrect == Spec => []TypeOK
  BY TypeInitially, TypeKept, PTL DEF Spec

-----------------------------------------------------------------------------
(* CompletedIsShown, for processes that keep their job lock while they use  *)
(* it.  The invariant says of every job how far its run's records are, and  *)
(* that the steps which may change them are taken under the job lock.       *)

Locked == {"heavy", "inspect", "start", "resume"} \union (AtWork \ {"fail"})
Open == AtWork \ {"fail", "release"}

LocksKept == \A p \in Procs : job[p].step \in Locked => holder = p

Progress(p) ==
  /\ job[p].step \in Open => job[p].key \notin credited
  /\ job[p].step \in {"check", "mark"} => \A i \in RawsOf(job[p].key) : fate[i] # "raw"
  /\ job[p].step = "complete" => \A i \in RawsOf(job[p].key) : fate[i] \notin {"raw", "fact"}

Collected ==
  /\ LocksKept
  /\ \A p \in Procs : Progress(p)
  /\ CompletedIsShown

IInv == TypeOK /\ Collected

\* Only p's job may change, and only p may take or give back the lock.
Own(p) ==
  /\ \A q \in Procs \ {p} : job'[q] = job[q]
  /\ \/ holder' = holder
     \/ holder = p /\ holder' = None
     \/ holder = None /\ holder' = p

LEMMA OpenSteps ==
  /\ Open = {"fetch", "persist", "work", "begin", "normalize", "check", "mark", "complete"}
  /\ Locked = Open \union {"heavy", "inspect", "start", "resume", "release"}
  BY DEF Open, Locked, AtWork, Counted

LEMMA GotoEffect ==
  ASSUME TypeOK, NEW p \in Procs, NEW s, Goto(p, s)
  PROVE  /\ job'[p].step = s
         /\ job'[p].key = job[p].key
         /\ \A q \in Procs \ {p} : job'[q] = job[q]
  BY TypeParts DEF Goto, JobTyped, JobRecord

LEMMA EndJobEffect ==
  ASSUME TypeOK, NEW p \in Procs, EndJob(p)
  PROVE  job'[p].step = "idle" /\ Own(p)
  BY TypeParts DEF EndJob, Unlock, Own, JobTyped, Idle

LEMMA RaiseEffect ==
  ASSUME TypeOK, NEW p \in Procs, Raise(p)
  PROVE  job'[p].step = "fail" /\ Own(p)
  BY GotoEffect DEF Raise, Unlock, Own

\* A job that is neither at work nor holds a lock promises nothing.
LEMMA AtRest ==
  ASSUME NEW p \in Procs, job'[p].step \notin Open
  PROVE  Progress(p)'
  BY OpenSteps DEF Progress

\* A step of p that leaves all records alone keeps what the others know.
LEMMA QuietStep ==
  ASSUME Collected, NEW p \in Procs, Own(p),
         owner' = owner, fate' = fate, credited' \subseteq credited,
         job'[p].step \in Locked => holder' = p,
         Progress(p)'
  PROVE  Collected'
<1>1. LocksKept'
  BY DEF Collected, LocksKept, Own
<1>2. ASSUME NEW q \in Procs
      PROVE  Progress(q)'
  <2>1. CASE q # p
    BY <2>1 DEF Collected, Progress, Own, RawsOf
  <2>2. QED
    BY <2>1
<1>3. CompletedIsShown'
  BY DEF Collected, CompletedIsShown
<1>4. QED
  BY <1>1, <1>2, <1>3 DEF Collected

\* A step of the holder of the lock: no other job is in a position to mind.
LEMMA LockedStep ==
  ASSUME Collected, NEW p \in Procs, job[p].step \in Locked,
         \A q \in Procs \ {p} : job'[q] = job[q],
         holder' = holder, Progress(p)', CompletedIsShown'
  PROVE  Collected'
<1>1. LocksKept'
  BY DEF Collected, LocksKept
<1>2. ASSUME NEW q \in Procs, q # p
      PROVE  Progress(q)'
  <2>1. job[q].step \notin Locked
    BY <1>2 DEF Collected, LocksKept
  <2>2. job'[q].step \notin Open
    BY <1>2, <2>1, OpenSteps
  <2>3. QED
    BY <2>2, AtRest
<1>3. QED
  BY <1>1, <1>2 DEF Collected

\* Planning, and everything that ends a job or hands it to the error handler.
LEMMA ResigningKeeps ==
  ASSUME IInv, NEW p \in Procs, Own(p), job'[p].step \notin Locked,
         owner' = owner, fate' = fate, credited' \subseteq credited
  PROVE  Collected'
<1>1. Progress(p)'
  BY AtRest, OpenSteps
<1>2. QED
  BY <1>1, QuietStep DEF IInv

LEMMA PlanningKeeps ==
  ASSUME IInv, NEW p \in Procs,
         \/ CheckDue(p) \/ FindRun(p) \/ Schedule(p) \/ LockJob(p) \/ LockHeavy(p)
         \/ HeavyBusy(p) \/ SkipRead(p) \/ SkipWrite(p) \/ Inspect(p)
  PROVE  Collected'
<1>0. TypeOK /\ job \in [Procs -> JobRecord]
  BY TypeParts DEF IInv, JobTyped
<1>r. owner' = owner /\ fate' = fate /\ credited' \subseteq credited
  BY DEF CheckDue, FindRun, Schedule, LockJob, LockHeavy, HeavyBusy, SkipRead, SkipWrite,
         Inspect, raws, history
<1>1. CASE CheckDue(p)
  <2>1. Own(p) /\ job'[p].step = "find"
    BY <1>0, <1>1 DEF CheckDue, Own, Idle
  <2>2. QED
    BY <1>r, <2>1, ResigningKeeps, OpenSteps
<1>2. CASE FindRun(p)
  <2>1. PICK k \in Buckets : job' = [job EXCEPT ![p].step = "schedule", ![p].key = k]
    BY <1>2 DEF FindRun
  <2>2. job'[p].step = "schedule" /\ (\A q \in Procs \ {p} : job'[q] = job[q])
    BY <1>0, <2>1 DEF JobRecord
  <2>3. Own(p)
    BY <1>2, <2>2 DEF FindRun, Own
  <2>4. QED
    BY <1>r, <2>2, <2>3, ResigningKeeps, OpenSteps
<1>3. CASE Schedule(p)
  <2>1. CASE Goto(p, "lock")
    <3>1. Own(p) /\ job'[p].step = "lock"
      BY <1>0, <1>3, <2>1, GotoEffect DEF Schedule, Own
    <3>2. QED
      BY <1>r, <3>1, ResigningKeeps, OpenSteps
  <2>2. CASE job' = [job EXCEPT ![p] = Idle]
    <3>1. Own(p) /\ job'[p].step = "idle"
      BY <1>0, <1>3, <2>2 DEF Schedule, Own, Idle
    <3>2. QED
      BY <1>r, <3>1, ResigningKeeps, OpenSteps
  <2>3. QED
    BY <1>3, <2>1, <2>2 DEF Schedule
<1>4. CASE LockJob(p)
  <2>1. Own(p) /\ (\/ job'[p].step = "heavy" /\ holder' = p
                   \/ job'[p].step = "skip")
    BY <1>0, <1>4, GotoEffect DEF LockJob, Own
  <2>2. Progress(p)'
    BY <2>1, AtRest, OpenSteps
  <2>3. QED
    BY <1>r, <2>1, <2>2, QuietStep, OpenSteps DEF IInv
<1>5. CASE LockHeavy(p) \/ Inspect(p)
  <2>1. Own(p) /\ job'[p].step \in {"inspect", "resume", "start"}
    BY <1>0, <1>5, GotoEffect DEF LockHeavy, Inspect, Own
  <2>2. holder = p /\ holder' = holder
    BY <1>5, OpenSteps DEF LockHeavy, Inspect, IInv, Collected, LocksKept
  <2>3. Progress(p)'
    BY <2>1, AtRest, OpenSteps
  <2>4. QED
    BY <1>r, <2>1, <2>2, <2>3, QuietStep DEF IInv
<1>6. CASE HeavyBusy(p)
  <2>1. Own(p) /\ job'[p].step = "skip"
    BY <1>0, <1>6, GotoEffect DEF HeavyBusy, Own
  <2>2. QED
    BY <1>r, <2>1, ResigningKeeps, OpenSteps
<1>7. CASE SkipRead(p) \/ SkipWrite(p)
  <2>1. Own(p) /\ job'[p].step \in {"skipping", "noting", "idle"}
    BY <1>0, <1>7, GotoEffect, EndJobEffect DEF SkipRead, SkipWrite, Own
  <2>2. QED
    BY <1>r, <2>1, ResigningKeeps, OpenSteps
<1>8. QED
  BY <1>1, <1>2, <1>3, <1>4, <1>5, <1>6, <1>7

\* Steps of a run that leave its records alone.
LEMMA RunningKeeps ==
  ASSUME IInv, NEW p \in Procs,
         \/ Start(p) \/ Fetch(p) \/ Finalize(p) \/ Work(p) \/ NormalizeBegin(p) \/ Check(p)
  PROVE  Collected'
<1>0. TypeOK /\ job \in [Procs -> JobRecord] /\ Collected
  BY TypeParts DEF IInv, JobTyped
<1>r. owner' = owner /\ fate' = fate /\ credited' \subseteq credited
  BY DEF Start, Fetch, Finalize, Work, NormalizeBegin, Check, raws, history
<1>h. holder = p
  BY <1>0, OpenSteps DEF Start, Fetch, Finalize, Work, NormalizeBegin, Check, Collected, LocksKept
<1>p. Progress(p)
  BY <1>0 DEF Collected
<1>1. CASE Start(p)
  <2>1. CASE run[job[p].key].status = "scheduled"
    <3>1. /\ job'[p].step \in {"fetch", "begin"} /\ job'[p].key = job[p].key
          /\ Own(p) /\ holder' = p
      BY <1>0, <1>1, <1>h, <2>1, GotoEffect DEF Start, Own
    <3>2. job[p].key \notin credited'
      BY <1>1, <2>1 DEF Start
    <3>3. Progress(p)'
      BY <3>1, <3>2 DEF Progress
    <3>4. QED
      BY <1>0, <1>r, <3>1, <3>3, QuietStep
  <2>2. CASE run[job[p].key].status # "scheduled"
    BY <1>0, <1>1, <1>r, <2>2, EndJobEffect, ResigningKeeps, OpenSteps DEF Start
  <2>3. QED
    BY <2>1, <2>2
<1>2. CASE Fetch(p) \/ Finalize(p)
  <2>1. /\ job'[p].step \in {"persist", "work"} /\ job'[p].key = job[p].key
        /\ Own(p) /\ holder' = p /\ credited' = credited
        /\ job[p].step \in Open
    BY <1>0, <1>2, <1>h, OpenSteps DEF Fetch, Finalize, Own, JobRecord, history
  <2>2. Progress(p)'
    BY <1>p, <2>1 DEF Progress
  <2>3. QED
    BY <1>0, <1>r, <2>1, <2>2, QuietStep
<1>3. CASE Work(p)
  <2>1. /\ \/ job'[p].step \in {"release", "begin"}
           \/ job'[p].step = "complete" /\ RawsOf(job[p].key) = {}
        /\ job'[p].key = job[p].key /\ job[p].step = "work"
        /\ Own(p) /\ holder' = p /\ credited' = credited
    BY <1>0, <1>3, <1>h, GotoEffect DEF Work, Own, history
  <2>2. Progress(p)'
    BY <1>p, <1>r, <2>1, OpenSteps DEF Progress, RawsOf
  <2>3. QED
    BY <1>0, <1>r, <2>1, <2>2, QuietStep
<1>4. CASE NormalizeBegin(p)
  <2>1. /\ job'[p].step = "normalize" /\ job'[p].key = job[p].key /\ job[p].step = "begin"
        /\ Own(p) /\ holder' = p /\ credited' = credited
    BY <1>0, <1>4, <1>h, GotoEffect DEF NormalizeBegin, Own, history
  <2>2. Progress(p)'
    BY <1>p, <2>1, OpenSteps DEF Progress
  <2>3. QED
    BY <1>0, <1>r, <2>1, <2>2, QuietStep
<1>5. CASE Check(p)
  <2>1. CASE Raise(p)
    BY <1>0, <1>r, <2>1, RaiseEffect, ResigningKeeps, OpenSteps
  <2>2. CASE ~Raise(p)
    <3>1. /\ \/ job'[p].step = "mark"
             \/ job'[p].step = "complete" /\ \A i \in RawsOf(job[p].key) : fate[i] # "fact"
          /\ job'[p].key = job[p].key /\ job[p].step = "check"
          /\ Own(p) /\ holder' = p /\ credited' = credited
      BY <1>0, <1>5, <1>h, <2>2, GotoEffect DEF Check, Own, history
    <3>2. Progress(p)'
      BY <1>p, <1>r, <3>1, OpenSteps DEF Progress, RawsOf
    <3>3. QED
      BY <1>0, <1>r, <3>1, <3>2, QuietStep
  <2>3. QED
    BY <2>1, <2>2
<1>6. QED
  BY <1>1, <1>2, <1>3, <1>4, <1>5

\* Steps that store, normalize, show or complete records.
LEMMA RecordsKeep ==
  ASSUME IInv, NEW p \in Procs,
         Persist(p) \/ Normalize(p) \/ Mark(p) \/ Complete(p)
  PROVE  Collected'
<1>0. TypeOK /\ job \in [Procs -> JobRecord] /\ Collected /\ Progress(p) /\ CompletedIsShown
  BY TypeParts DEF IInv, JobTyped, Collected
<1>k. job[p].key \in Buckets
  BY <1>0, KeyType DEF Persist, Normalize, Mark, Complete, Unplanned
<1>l. job[p].step \in Open /\ job[p].step \in Locked /\ job[p].key \notin credited
  BY <1>0, OpenSteps DEF Persist, Normalize, Mark, Complete, Progress
<1>1. CASE Persist(p)
  <2>1. /\ job'[p].step = "persist" /\ job'[p].key = job[p].key
        /\ \A q \in Procs \ {p} : job'[q] = job[q]
        /\ holder' = holder /\ credited' = credited /\ fate' = fate
    BY <1>0, <1>1 DEF Persist, JobRecord, history
  <2>2. Progress(p)'
    BY <1>l, <2>1 DEF Progress
  <2>3. \A i \in Items : owner'[i] \in {owner[i], job[p].key}
    BY <1>0, <1>1, TypeParts DEF Persist
  <2>4. CompletedIsShown'
    BY <1>0, <1>l, <2>1, <2>3 DEF CompletedIsShown
  <2>5. QED
    BY <1>0, <1>l, <2>1, <2>2, <2>4, LockedStep
<1>2. CASE Normalize(p)
  <2>1. /\ job'[p].step = "check" /\ job'[p].key = job[p].key
        /\ \A q \in Procs \ {p} : job'[q] = job[q]
        /\ holder' = holder /\ credited' = credited /\ owner' = owner
    BY <1>0, <1>2, GotoEffect DEF Normalize, history
  <2>2. \A i \in Items : IF i \in RawsOf(job[p].key) THEN fate'[i] # "raw"
                                                     ELSE fate'[i] = fate[i]
    BY <1>2, Zenon DEF Normalize, AddDeadLetter
  <2>3. Progress(p)'
    BY <1>l, <2>1, <2>2 DEF Progress, RawsOf
  <2>4. CompletedIsShown'
    BY <1>0, <1>l, <2>1, <2>2 DEF CompletedIsShown, RawsOf
  <2>5. QED
    BY <1>0, <1>l, <2>1, <2>3, <2>4, LockedStep
<1>3. CASE Mark(p)
  <2>1. /\ job'[p].step = "complete" /\ job'[p].key = job[p].key /\ job[p].step = "mark"
        /\ \A q \in Procs \ {p} : job'[q] = job[q]
        /\ holder' = holder /\ credited' = credited /\ owner' = owner
    BY <1>0, <1>3, GotoEffect DEF Mark, history
  <2>2. \A i \in Items : fate'[i] = IF fate[i] = "fact" THEN "shown" ELSE fate[i]
    BY <1>3 DEF Mark
  <2>3. Progress(p)'
    BY <1>0, <1>l, <2>1, <2>2 DEF Progress, RawsOf
  <2>4. CompletedIsShown'
    BY <1>0, <2>1, <2>2 DEF CompletedIsShown
  <2>5. QED
    BY <1>0, <1>l, <2>1, <2>3, <2>4, LockedStep
<1>4. CASE Complete(p)
  <2>1. CASE run[job[p].key].status = "failed"
    <3>1. Raise(p) /\ owner' = owner /\ fate' = fate /\ credited' = credited
      BY <1>4, <2>1 DEF Complete, raws
    <3>2. QED
      BY <1>0, <3>1, RaiseEffect, ResigningKeeps, OpenSteps
  <2>2. CASE run[job[p].key].status # "failed"
    <3>1. /\ job'[p].step = "release" /\ job[p].step = "complete"
          /\ \A q \in Procs \ {p} : job'[q] = job[q]
          /\ holder' = holder /\ owner' = owner /\ fate' = fate
          /\ credited' = credited \union {job[p].key}
      BY <1>0, <1>4, <2>2, GotoEffect DEF Complete, raws
    <3>2. Progress(p)'
      BY <3>1, AtRest, OpenSteps
    <3>3. CompletedIsShown'
      BY <1>0, <3>1 DEF CompletedIsShown, Progress, RawsOf
    <3>4. QED
      BY <1>0, <1>l, <3>1, <3>2, <3>3, LockedStep
  <2>3. QED
    BY <2>1, <2>2
<1>5. QED
  BY <1>1, <1>2, <1>3, <1>4

\* The end of a job, by whatever way.
LEMMA EndingKeeps ==
  ASSUME IInv, NEW p \in Procs,
         \/ Release(p) \/ Fail(p) \/ Error(p) \/ Stop(p) \/ FetchFails(p) \/ PersistFails(p)
  PROVE  Collected'
<1>0. TypeOK
  BY DEF IInv
<1>r. owner' = owner /\ fate' = fate /\ credited' \subseteq credited
  BY DEF Release, Fail, Error, Stop, FetchFails, PersistFails, raws, history
<1>1. Own(p) /\ job'[p].step \in {"idle", "fail"}
  BY <1>0, EndJobEffect, RaiseEffect DEF Release, Fail, Error, Stop, FetchFails, PersistFails
<1>2. QED
  BY <1>r, <1>1, ResigningKeeps, OpenSteps

\* What is nobody's step: the clock, recovery, and the end of a dead letter.
LEMMA ElsewhereKeeps ==
  ASSUME IInv,
         \/ Tick \/ (\E k \in Buckets : Recover(k)) \/ (\E i \in Items : Quarantine(i))
         \/ UNCHANGED vars
  PROVE  Collected'
<1>1. job' = job /\ holder' = holder /\ owner' = owner /\ credited' = credited
  BY DEF Tick, Recover, Quarantine, vars, raws, history
<1>2. \A i \in Items : fate'[i] = fate[i] \/ fate'[i] = "quarantined"
  BY TypeParts DEF Tick, Recover, Quarantine, vars, raws, history, IInv
<1>3. LocksKept'
  BY <1>1 DEF IInv, Collected, LocksKept
<1>4. ASSUME NEW p \in Procs
      PROVE  Progress(p)'
  BY <1>1, <1>2 DEF IInv, Collected, Progress, RawsOf
<1>5. CompletedIsShown'
  BY <1>1, <1>2 DEF IInv, Collected, CompletedIsShown
<1>6. QED
  BY <1>3, <1>4, <1>5 DEF Collected

LEMMA CollectedInitially == Init => IInv
<1> SUFFICES ASSUME Init PROVE IInv
  OBVIOUS
<1>1. \A p \in Procs : job[p].step = "idle"
  BY DEF Init, Idle
<1>2. \A p \in Procs : Progress(p)
  BY <1>1, OpenSteps DEF Progress
<1>3. LocksKept /\ CompletedIsShown
  BY <1>1, OpenSteps DEF Init, LocksKept, CompletedIsShown
<1>4. QED
  BY <1>2, <1>3, TypeInitially DEF IInv, Collected

LEMMA CollectedKept ==
  ASSUME Fragile = {}
  PROVE  IInv /\ [Next]_vars => IInv'
<1> SUFFICES ASSUME IInv, [Next]_vars PROVE IInv'
  OBVIOUS
<1>1. TypeOK'
  BY TypeKept DEF IInv
<1>2. ASSUME NEW p \in Procs, Step(p)
      PROVE  Collected'
  BY <1>2, PlanningKeeps, RunningKeeps, RecordsKeep, EndingKeeps DEF Step
<1>3. ASSUME NEW p \in Procs, LockHeavy(p) \/ HeavyBusy(p)
      PROVE  Collected'
  BY <1>3, PlanningKeeps
<1>4. ASSUME NEW p \in Procs, FetchFails(p) \/ PersistFails(p) \/ Error(p) \/ Stop(p)
      PROVE  Collected'
  BY <1>4, EndingKeeps
<1>5. ASSUME \/ Tick \/ (\E k \in Buckets : Recover(k)) \/ (\E i \in Items : Quarantine(i))
             \/ UNCHANGED vars
      PROVE  Collected'
  BY <1>5, ElsewhereKeeps
<1>6. Collected'
  BY <1>2, <1>3, <1>4, <1>5 DEF Next
<1>7. QED
  BY <1>1, <1>6 DEF IInv

\* No record of a completed run is unnormalized, or a fact that its products
\* were not told of, as long as no process loses its job lock.
THEOREM CompletionsAreShown ==
  ASSUME Fragile = {}
  PROVE  Spec => []CompletedIsShown
<1>1. IInv => CompletedIsShown
  BY DEF IInv, Collected
<1>2. QED
  BY <1>1, CollectedInitially, CollectedKept, PTL DEF Spec

-----------------------------------------------------------------------------
(* FailedStageEligible and NothingStranded, for a source with one process.  *)
(* A run that can be resumed is the only one, it is the one a retry finds, *)
(* and as long as it is there the source's reason says so.                 *)

AtMostOne == \A p, q \in Procs : p = q

Staged(k) == run[k].stage \in PipelineStages
Unbound == Unplanned \union {"schedule"}
Reserved == {"lock", "heavy", "skip", "skipping", "noting", "inspect", "start", "resume"}

\* What the job of p has read or reserved is still so.
Plan(p) ==
  /\ job[p].step = "find" /\ ~job[p].retry => reason \notin PipelineStages
  /\ job[p].step \notin Unplanned => Pending \subseteq {job[p].key}
  /\ job[p].step \in Reserved => run[job[p].key].status = "scheduled"
  /\ job[p].step = "noting" => ~Staged(job[p].key)
  /\ job[p].step \notin Unbound /\ Staged(job[p].key) => reason \in PipelineStages

Retries ==
  /\ Pending # {} => reason \in PipelineStages
  /\ \A k, l \in Pending : k = l
  /\ \A k \in Buckets : run[k].status = "absent" => ~Staged(k)
  /\ \A p \in Procs : Plan(p)

\* An action of p, planned before it, changes the row of its own run only, and
\* names a stage there only with the source's reason.
OwnRow(p) ==
  LET k == job[p].key IN
  /\ \A l \in Buckets \ {k} : run'[l] = run[l]
  /\ \/ run'[k].stage = run[k].stage /\ reason' = reason
     \/ run'[k].stage \notin PipelineStages
     \/ reason' \in PipelineStages
  /\ \/ run'[k].status = run[k].status /\ run'[k].stage = run[k].stage
     \/ run'[k].status # "absent"
     \/ run'[k].stage \notin PipelineStages

LEMMA PipelineStagesAre == PipelineStages = {"raw", "normalize"}
  BY DEF PipelineStages

\* A step after planning keeps Retries when it keeps what its own job relies on.
LEMMA PlannedStep ==
  ASSUME AtMostOne, TypeOK, Retries, NEW p \in Procs, OwnRow(p),
         job[p].step \notin Unbound,
         \/ job'[p].step = "idle"
         \/ /\ job'[p].step \notin Unbound /\ job'[p].key = job[p].key
            /\ job'[p].step \in Reserved => run'[job[p].key].status = "scheduled"
            /\ job'[p].step = "noting" => run'[job[p].key].stage \notin PipelineStages
  PROVE  Retries'
<1> DEFINE k == job[p].key
<1>1. k \in Buckets /\ Plan(p)
  BY KeyType DEF Unbound, Retries
<1>2. run'[k].stage \in PipelineStages => reason' \in PipelineStages
  BY <1>1 DEF Plan, OwnRow, Staged
<1>3. Pending' \subseteq {k}
  BY <1>1 DEF Plan, OwnRow, Pending, Unbound
<1>4. Pending' # {} => run'[k].stage \in PipelineStages
  BY <1>3 DEF Pending
<1>5. \A l \in Buckets : run'[l].status = "absent" => run'[l].stage \notin PipelineStages
  BY <1>1 DEF OwnRow, Retries, Staged
<1>6. Plan(p)'
  <2>1. CASE job'[p].step = "idle"
    BY <2>1 DEF Plan, Unbound, Unplanned, Reserved
  <2>2. CASE job'[p].step # "idle"
    <3>1. /\ job'[p].step \notin Unbound /\ job'[p].key = k
          /\ job'[p].step \in Reserved => run'[k].status = "scheduled"
          /\ job'[p].step = "noting" => run'[k].stage \notin PipelineStages
      BY <2>2
    <3>2. job'[p].step # "find"
      BY <3>1 DEF Unbound, Unplanned
    <3> HIDE DEF k
    <3>3. QED
      BY <1>2, <1>3, <3>1, <3>2 DEF Plan, Staged
  <2>3. QED
    BY <2>1, <2>2
<1>7. \A q \in Procs : Plan(q)'
  BY <1>6 DEF AtMostOne
<1>8. QED
  BY <1>2, <1>3, <1>4, <1>5, <1>7 DEF Retries, Staged

\* A row that is given a status and a stage.
LEMMA RowGiven ==
  ASSUME TypeOK, NEW k \in Buckets, NEW x, NEW y,
         run' = [run EXCEPT ![k].status = x, ![k].stage = y]
  PROVE  /\ run'[k].status = x /\ run'[k].stage = y
         /\ \A l \in Buckets \ {k} : run'[l] = run[l]
<1>1. run \in [Buckets -> RunRecord]
  BY TypeParts
<1>2. QED
  BY <1>1 DEF RunRecord

LEMMA StatusGiven ==
  ASSUME TypeOK, NEW k \in Buckets, NEW x, run' = [run EXCEPT ![k].status = x]
  PROVE  /\ run'[k].status = x /\ run'[k].stage = run[k].stage
         /\ \A l \in Buckets \ {k} : run'[l] = run[l]
<1>1. run \in [Buckets -> RunRecord]
  BY TypeParts
<1>2. QED
  BY <1>1 DEF RunRecord

LEMMA RowKept ==
  ASSUME NEW p \in Procs, UNCHANGED <<run, reason>>
  PROVE  OwnRow(p)
  BY DEF OwnRow

\* The waits and checks of a planned job, and its end without a word.
LEMMA WaitingKeepsPlan ==
  ASSUME AtMostOne, TypeOK, Retries, NEW p \in Procs,
         \/ LockJob(p) \/ LockHeavy(p) \/ HeavyBusy(p) \/ SkipRead(p) \/ Inspect(p)
         \/ Fetch(p) \/ Persist(p) \/ Work(p) \/ Check(p) \/ Mark(p) \/ Release(p)
         \/ Error(p)
  PROVE  Retries'
<1>0. job \in [Procs -> JobRecord] /\ Plan(p)
  BY TypeParts DEF JobTyped, Retries
<1>1. OwnRow(p)
  BY RowKept DEF LockJob, LockHeavy, HeavyBusy, SkipRead, Inspect, Fetch, Persist, Work,
                 Check, Mark, Release, Error, state
<1>2. UNCHANGED run /\ job[p].step \notin Unbound
  BY DEF LockJob, LockHeavy, HeavyBusy, SkipRead, Inspect, Fetch, Persist, Work,
         Check, Mark, Release, Error, state, Unbound, Unplanned, Counted
<1>3. CASE LockJob(p) \/ LockHeavy(p) \/ HeavyBusy(p) \/ Inspect(p)
  <2>1. /\ job'[p].step \in {"heavy", "skip", "inspect", "resume", "start"}
        /\ job'[p].key = job[p].key
        /\ job[p].step \in Reserved
    BY <1>3, GotoEffect DEF LockJob, LockHeavy, HeavyBusy, Inspect, Reserved
  <2>2. QED
    BY <1>0, <1>1, <1>2, <2>1, PlannedStep DEF Plan, Unbound, Unplanned
<1>4. CASE SkipRead(p)
  <2>1. \/ job'[p].step = "idle"
        \/ /\ job'[p].step = "skipping" \/ (job'[p].step = "noting" /\ ~Staged(job[p].key))
           /\ job'[p].key = job[p].key
    BY <1>4, GotoEffect, EndJobEffect DEF SkipRead, Staged
  <2>2. job[p].step \in Reserved
    BY <1>4 DEF SkipRead, Reserved
  <2>3. QED
    BY <1>0, <1>1, <1>2, <2>1, <2>2, PlannedStep DEF Plan, Unbound, Unplanned, Staged
<1>5. CASE Fetch(p) \/ Persist(p)
  <2>1. job'[p].step = "persist" /\ job'[p].key = job[p].key
    BY <1>0, <1>5 DEF Fetch, Persist, JobRecord
  <2>2. QED
    BY <1>1, <1>2, <2>1, PlannedStep DEF Unbound, Unplanned, Reserved
<1>6. CASE Work(p) \/ Mark(p)
  <2>1. job'[p].step \in {"release", "begin", "complete"} /\ job'[p].key = job[p].key
    BY <1>6, GotoEffect DEF Work, Mark
  <2>2. QED
    BY <1>1, <1>2, <2>1, PlannedStep DEF Unbound, Unplanned, Reserved
<1>7. CASE Check(p) \/ Release(p) \/ Error(p)
  <2>1. \/ job'[p].step = "idle"
        \/ job'[p].step \in {"fail", "mark", "complete"} /\ job'[p].key = job[p].key
    BY <1>7, GotoEffect, EndJobEffect DEF Check, Release, Error, Raise
  <2>2. QED
    BY <1>1, <1>2, <2>1, PlannedStep DEF Unbound, Unplanned, Reserved
<1>8. QED
  BY <1>3, <1>4, <1>5, <1>6, <1>7

\* The steps that write the row of the run.
LEMMA WritingKeepsPlan ==
  ASSUME AtMostOne, TypeOK, Retries, NEW p \in Procs,
         \/ SkipWrite(p) \/ Start(p) \/ FetchFails(p) \/ PersistFails(p) \/ Finalize(p)
         \/ NormalizeBegin(p) \/ Normalize(p) \/ Complete(p) \/ Fail(p) \/ Stop(p)
  PROVE  Retries'
<1>0. job \in [Procs -> JobRecord] /\ Plan(p)
  BY TypeParts DEF JobTyped, Retries
<1> DEFINE k == job[p].key
<1>1. CASE Stop(p)
  <2>1. UNCHANGED <<run, reason>> /\ job'[p].step = "idle"
    BY <1>1, EndJobEffect DEF Stop, state
  <2>2. CASE job[p].step \notin Unbound
    BY <2>1, <2>2, RowKept, PlannedStep
  <2>3. CASE job[p].step \in Unbound
    <3>1. Plan(p)'
      BY <2>1 DEF Plan, Unbound, Unplanned, Reserved
    <3>2. \A q \in Procs : Plan(q)'
      BY <3>1 DEF AtMostOne
    <3>3. QED
      BY <2>1, <3>2 DEF Retries, Pending, Staged
  <2>4. QED
    BY <2>2, <2>3
<1>2. ASSUME ~Stop(p)
      PROVE  k \in Buckets /\ job[p].step \notin Unbound
  BY <1>2, KeyType DEF SkipWrite, Start, FetchFails, PersistFails, Finalize, NormalizeBegin,
                       Normalize, Complete, Fail, Unbound, Unplanned
<1>3. CASE SkipWrite(p) /\ ~Stop(p)
  <2>1. PICK y \in {run[k].stage, "none"} :
           run' = [run EXCEPT ![k].status = "skipped", ![k].stage = y]
    BY <1>3 DEF SkipWrite
  <2>2. /\ run'[k].status = "skipped" /\ run'[k].stage = y
        /\ \A l \in Buckets \ {k} : run'[l] = run[l]
    BY <1>2, <1>3, <2>1, RowGiven
  <2>3. reason' = reason /\ job'[p].step = "idle"
    BY <1>3, EndJobEffect DEF SkipWrite
  <2>4. OwnRow(p)
    BY <2>2, <2>3, PipelineStagesAre DEF OwnRow
  <2>5. QED
    BY <1>2, <1>3, <2>3, <2>4, PlannedStep
<1>4. CASE Start(p) /\ ~Stop(p)
  <2>1. CASE run[k].status = "scheduled"
    <3>1. run' = [run EXCEPT ![k].status = "running"] /\ reason' = reason
      BY <1>4, <2>1 DEF Start
    <3>2. /\ run'[k].status = "running" /\ run'[k].stage = run[k].stage
          /\ \A l \in Buckets \ {k} : run'[l] = run[l]
      BY <1>2, <1>4, <3>1, StatusGiven
    <3>3. OwnRow(p)
      BY <3>1, <3>2 DEF OwnRow
    <3>4. job'[p].step \in {"fetch", "begin"} /\ job'[p].key = k
      BY <1>4, <2>1, GotoEffect DEF Start
    <3>5. QED
      BY <1>2, <1>4, <3>3, <3>4, PlannedStep DEF Unbound, Unplanned, Reserved
  <2>2. CASE run[k].status # "scheduled"
    <3>1. UNCHANGED <<run, reason>> /\ job'[p].step = "idle"
      BY <1>4, <2>2, EndJobEffect DEF Start
    <3>2. QED
      BY <1>2, <1>4, <3>1, RowKept, PlannedStep
  <2>3. QED
    BY <2>1, <2>2
<1>5. CASE (FetchFails(p) \/ PersistFails(p) \/ Fail(p)) /\ ~Stop(p)
  <2>1. PICK y \in {"fetch", "raw", "normalize"} :
           /\ run' = [run EXCEPT ![k].status = "failed", ![k].stage = y]
           /\ reason' = y
    BY <1>5 DEF FetchFails, PersistFails, Fail
  <2>2. /\ run'[k].status = "failed" /\ run'[k].stage = y
        /\ \A l \in Buckets \ {k} : run'[l] = run[l]
    BY <1>2, <1>5, <2>1, RowGiven
  <2>3. OwnRow(p)
    BY <2>1, <2>2 DEF OwnRow
  <2>4. job'[p].step = "idle"
    BY <1>5, EndJobEffect DEF FetchFails, PersistFails, Fail
  <2>5. QED
    BY <1>2, <1>5, <2>3, <2>4, PlannedStep
<1>6. CASE Finalize(p) /\ ~Stop(p)
  <2>1. run'[k].stage = "none" /\ \A l \in Buckets \ {k} : run'[l] = run[l]
    BY <1>2, <1>6, TypeParts DEF Finalize
  <2>2. OwnRow(p)
    BY <2>1, PipelineStagesAre DEF OwnRow
  <2>3. job'[p].step = "work" /\ job'[p].key = k
    BY <1>0, <1>6 DEF Finalize, JobRecord
  <2>4. QED
    BY <1>2, <1>6, <2>2, <2>3, PlannedStep DEF Unbound, Unplanned, Reserved
<1>7. CASE NormalizeBegin(p) /\ ~Stop(p)
  <2>1. PICK x : /\ run' = [run EXCEPT ![k].status = x]
                 /\ x = run[k].status \/ x # "absent"
    <3> DEFINE x == CASE run[k].fetched = "degraded" -> "partial"
                      [] run[k].fetched = "unavailable" -> "failed"
                      [] run[k].fetched = "available" -> "succeeded"
                      [] run[k].fetched = "none" /\ run[k].stage = "none" -> "succeeded"
                      [] OTHER -> run[k].status
    <3>1. run' = [run EXCEPT ![k].status = x]
      BY <1>7 DEF NormalizeBegin
    <3>2. x = run[k].status \/ x # "absent"
      OBVIOUS
    <3> HIDE DEF x
    <3>3. QED
      BY <3>1, <3>2
  <2>2. /\ run'[k].status = x /\ run'[k].stage = run[k].stage
        /\ \A l \in Buckets \ {k} : run'[l] = run[l]
    BY <1>2, <1>7, <2>1, StatusGiven
  <2>3. reason' = reason /\ job'[p].step = "normalize" /\ job'[p].key = k
    BY <1>7, GotoEffect DEF NormalizeBegin
  <2>4. OwnRow(p)
    BY <2>1, <2>2, <2>3 DEF OwnRow
  <2>5. QED
    BY <1>2, <1>7, <2>3, <2>4, PlannedStep DEF Unbound, Unplanned, Reserved
<1>8. CASE Normalize(p) /\ ~Stop(p)
  <2>1. reason' = reason /\ job'[p].step = "check" /\ job'[p].key = k
    BY <1>8, GotoEffect DEF Normalize
  <2>2. OwnRow(p)
    <3>1. CASE National /\ run[k].cut
      <4>1. run' = [run EXCEPT ![k].status = "partial", ![k].stage = "none",
                               ![k].fetched = "degraded"]
        BY <1>8, <3>1 DEF Normalize
      <4>2. run'[k].stage = "none" /\ \A l \in Buckets \ {k} : run'[l] = run[l]
        BY <1>2, <1>8, <4>1, TypeParts DEF RunRecord
      <4>3. QED
        BY <4>2, PipelineStagesAre DEF OwnRow
    <3>2. CASE ~(National /\ run[k].cut)
      <4>1. PICK x : /\ run' = [run EXCEPT ![k].status = x]
                     /\ x = run[k].status \/ x # "absent"
        <5> DEFINE rej == {i \in RawsOf(k) \intersect Bad : AddDeadLetter(fate[i]) = "dead"}
                   good == RawsOf(k) \ Bad
                   x == IF rej = {} THEN run[k].status
                        ELSE IF good = {} THEN "failed" ELSE "partial"
        <5>1. run' = [run EXCEPT ![k].status = x]
          BY <1>8, <3>2, <1>2, TypeParts DEF Normalize, RunRecord
        <5>2. x = run[k].status \/ x # "absent"
          OBVIOUS
        <5> HIDE DEF x
        <5>3. QED
          BY <5>1, <5>2
      <4>2. /\ run'[k].status = x /\ run'[k].stage = run[k].stage
            /\ \A l \in Buckets \ {k} : run'[l] = run[l]
        BY <1>2, <1>8, <4>1, StatusGiven
      <4>3. QED
        BY <2>1, <4>1, <4>2 DEF OwnRow
    <3>3. QED
      BY <3>1, <3>2
  <2>3. QED
    BY <1>2, <1>8, <2>1, <2>2, PlannedStep DEF Unbound, Unplanned, Reserved
<1>9. CASE Complete(p) /\ ~Stop(p)
  <2>1. CASE run[k].status = "failed"
    <3>1. UNCHANGED <<run, reason>> /\ job'[p].step = "fail" /\ job'[p].key = k
      BY <1>9, <2>1, GotoEffect DEF Complete, state, Raise
    <3>2. QED
      BY <1>2, <1>9, <3>1, RowKept, PlannedStep DEF Unbound, Unplanned, Reserved
  <2>2. CASE run[k].status # "failed"
    <3>1. PICK x : run' = [run EXCEPT ![k].status = x, ![k].stage = "none"]
      BY <1>9, <2>2 DEF Complete
    <3>2. /\ run'[k].stage = "none"
          /\ \A l \in Buckets \ {k} : run'[l] = run[l]
      <4>1. k \in Buckets
        BY <1>2, <1>9
      <4> HIDE DEF k
      <4>2. QED
        BY <3>1, <4>1, RowGiven
    <3>3. OwnRow(p)
      BY <3>2, PipelineStagesAre DEF OwnRow
    <3>4. job'[p].step = "release" /\ job'[p].key = k
      BY <1>9, <2>2, GotoEffect DEF Complete
    <3>5. QED
      BY <1>2, <1>9, <3>3, <3>4, PlannedStep DEF Unbound, Unplanned, Reserved
  <2>3. QED
    BY <2>1, <2>2
<1>10. QED
  BY <1>1, <1>3, <1>4, <1>5, <1>6, <1>7, <1>8, <1>9

\* With one process, what its job keeps is all there is to keep.
LEMMA OneJob ==
  ASSUME AtMostOne, NEW p \in Procs, Plan(p)'
  PROVE  \A q \in Procs : Plan(q)'
  BY DEF AtMostOne

LEMMA ChoosingKeepsPlan ==
  ASSUME AtMostOne, TypeOK, Retries, NEW p \in Procs,
         CheckDue(p) \/ FindRun(p) \/ Schedule(p)
  PROVE  Retries'
<1>0. job \in [Procs -> JobRecord] /\ Plan(p)
  BY TypeParts DEF JobTyped, Retries
<1>1. CASE CheckDue(p)
  <2> DEFINE b == reason \in PipelineStages
  <2>1. /\ job'[p].step = "find" /\ job'[p].retry = b
        /\ UNCHANGED <<run, reason>>
    BY <1>0, <1>1, Zenon DEF CheckDue, Idle, state
  <2>2. Plan(p)'
    BY <2>1 DEF Plan, Unbound, Unplanned, Reserved
  <2>3. QED
    BY <2>1, <2>2, OneJob DEF Retries, Pending, Staged
<1>2. CASE FindRun(p)
  <2>1. PICK k \in Buckets :
           /\ IF job[p].retry /\ Pending # {} THEN k \in Pending ELSE k = bucket
           /\ job' = [job EXCEPT ![p].step = "schedule", ![p].key = k]
    BY <1>2 DEF FindRun
  <2>2. job'[p].step = "schedule" /\ job'[p].key = k /\ UNCHANGED <<run, reason>>
    <3>1. job'[p].step = "schedule" /\ job'[p].key = k
      BY <1>0, <2>1 DEF JobRecord
    <3>2. UNCHANGED <<run, reason>>
      BY <1>2 DEF FindRun, state
    <3>3. QED
      BY <3>1, <3>2
  <2>3. ~job[p].retry => Pending = {}
    BY <1>0, <1>2 DEF FindRun, Plan, Retries
  <2>4. Pending \subseteq {k}
    BY <2>1, <2>3 DEF Retries
  <2>5. Plan(p)'
    BY <2>2, <2>4 DEF Plan, Unbound, Unplanned, Reserved, Pending
  <2>6. QED
    BY <2>2, <2>5, OneJob DEF Retries, Pending, Staged
<1>3. CASE Schedule(p)
  <2> DEFINE k == job[p].key
  <2>1. k \in Buckets /\ Pending \subseteq {k}
    BY <1>0, <1>3, KeyType DEF Schedule, Plan, Unplanned
  <2>2. CASE job' = [job EXCEPT ![p] = Idle] /\ UNCHANGED run
    <3>1. job'[p].step = "idle" /\ UNCHANGED <<run, reason>>
      BY <1>0, <1>3, <2>2 DEF Schedule, Idle
    <3>2. Plan(p)'
      BY <3>1 DEF Plan, Unbound, Unplanned, Reserved
    <3>3. QED
      BY <3>1, <3>2, OneJob DEF Retries, Pending, Staged
  <2>3. CASE /\ run[k].status = "absent" \/ Reusable(k)
             /\ run' = [run EXCEPT ![k].status = "scheduled"]
             /\ Goto(p, "lock")
    <3>1. /\ run'[k].status = "scheduled" /\ run'[k].stage = run[k].stage
          /\ \A l \in Buckets \ {k} : run'[l] = run[l]
      <4> HIDE DEF k
      <4>1. QED
        BY <2>1, <2>3, StatusGiven
    <3>2. job'[p].step = "lock" /\ job'[p].key = k /\ reason' = reason
      BY <1>3, <2>3, GotoEffect DEF Schedule
    \* what can be resumed stays so, and nothing else becomes so
    <3>3. run'[k].stage \in PipelineStages => k \in Pending
      BY <2>1, <2>3, <3>1 DEF Reusable, Pending, Retries, Staged
    <3>4. Pending' = Pending
      BY <2>1, <3>1, <3>3 DEF Pending
    <3>5. run'[k].stage \in PipelineStages => reason \in PipelineStages
      BY <3>3 DEF Retries
    <3>6. Plan(p)'
      <4> HIDE DEF k
      <4>1. QED
        BY <2>1, <3>1, <3>2, <3>4, <3>5 DEF Plan, Unbound, Unplanned, Reserved, Staged
    <3>7. \A l \in Buckets : run'[l].status = "absent" => run'[l].stage \notin PipelineStages
      BY <3>1 DEF Retries, Staged
    <3>8. QED
      BY <3>2, <3>4, <3>6, <3>7, OneJob DEF Retries, Staged
  <2>4. QED
    BY <1>3, <2>2, <2>3 DEF Schedule
<1>4. QED
  BY <1>1, <1>2, <1>3

LEMMA ElsewhereKeepsPlan ==
  ASSUME TypeOK, Retries,
         \/ Tick \/ (\E p \in Fragile : LoseLock(p))
         \/ (\E k \in Buckets : Recover(k)) \/ (\E i \in Items : Quarantine(i))
         \/ UNCHANGED vars
  PROVE  Retries'
<1>1. ASSUME NEW k \in Buckets, Recover(k)
      PROVE  Retries'
  <2>1. UNCHANGED <<job, reason>>
    BY <1>1 DEF Recover
  <2>2. run[k].status = "running"
    BY <1>1 DEF Recover
  <2>3. /\ run'[k].status = "failed" /\ run'[k].stage = "interrupted"
        /\ \A l \in Buckets \ {k} : run'[l] = run[l]
    BY <1>1, RowGiven DEF Recover
  <2>4. Pending' = Pending
    BY <2>2, <2>3, PipelineStagesAre DEF Pending
  <2>5. ASSUME NEW p \in Procs PROVE Plan(p)'
    <3>1. CASE job[p].step \in Unplanned
      BY <2>1, <3>1 DEF Retries, Plan, Unbound, Unplanned, Reserved
    <3>2. CASE job[p].step \notin Unplanned
      <4>1. job[p].key \in Buckets
        BY <3>2, KeyType
      <4>2. Staged(job[p].key)' => Staged(job[p].key)
        BY <2>1, <2>3, <4>1, PipelineStagesAre DEF Staged
      <4>3. job[p].step \in Reserved => run'[job[p].key].status = "scheduled"
        BY <2>2, <2>3, <4>1 DEF Retries, Plan
      <4>4. QED
        BY <2>1, <2>4, <3>2, <4>2, <4>3 DEF Retries, Plan, Unplanned
    <3>3. QED
      BY <3>1, <3>2
  <2>6. QED
    BY <2>1, <2>3, <2>4, <2>5 DEF Retries, Staged
<1>2. CASE UNCHANGED <<run, reason, job>>
  BY <1>2 DEF Retries, Plan, Pending, Staged
<1>3. QED
  BY <1>1, <1>2 DEF Tick, LoseLock, Quarantine, vars, state

LEMMA RetriesInvariant ==
  ASSUME AtMostOne
  PROVE  Spec => []Retries
<1>1. Init => Retries
  <2> SUFFICES ASSUME Init PROVE Retries
    OBVIOUS
  <2>1. \A k \in Buckets : run[k].stage = "none"
    BY DEF Init, NoRun
  <2>2. Pending = {} /\ \A k \in Buckets : ~Staged(k)
    BY <2>1, PipelineStagesAre DEF Pending, Staged
  <2>3. \A p \in Procs : job[p].step = "idle"
    BY DEF Init, Idle
  <2>4. \A p \in Procs : Plan(p)
    BY <2>3 DEF Plan, Unbound, Unplanned, Reserved
  <2>5. QED
    BY <2>2, <2>4 DEF Retries
<1>2. TypeOK /\ Retries /\ [Next]_vars => Retries'
  <2> SUFFICES ASSUME TypeOK, Retries, [Next]_vars PROVE Retries'
    OBVIOUS
  <2>1. ASSUME NEW p \in Procs,
               \/ Step(p) \/ LockHeavy(p) \/ HeavyBusy(p)
               \/ FetchFails(p) \/ PersistFails(p) \/ Error(p) \/ Stop(p)
        PROVE  Retries'
    BY <2>1, ChoosingKeepsPlan, WaitingKeepsPlan, WritingKeepsPlan DEF Step
  <2>2. QED
    BY <2>1, ElsewhereKeepsPlan DEF Next
<1>3. QED
  BY <1>1, <1>2, TypeCorrect, PTL DEF Spec

\* fail_pipeline keeps its promise where a source has one process: as long as
\* a failed stage can be resumed, the source's reason sends the next job to it,
\* whatever other run succeeds, fails, is skipped or crashes in between.
THEOREM FailedStagesEligible ==
  ASSUME AtMostOne
  PROVE  Spec => []FailedStageEligible
<1>1. Retries => FailedStageEligible
  BY DEF Retries, FailedStageEligible, Pending
<1>2. QED
  BY <1>1, RetriesInvariant, PTL

-----------------------------------------------------------------------------
(* NothingStranded, for a source with one process.  To Retries it adds what *)
(* the job has achieved for the records of its run when it lets go of it.   *)

Undone(k) == \E i \in RawsOf(k) : fate[i] \in {"raw", "fact"}

Moved(p) ==
  LET k == job[p].key IN
  /\ job[p].step = "work" =>
       run[k].status \in {"succeeded", "partial"} \/ k \in dropped \/ RawsOf(k) = {}
  /\ job[p].step \in {"check", "mark"} => \A i \in RawsOf(k) : fate[i] # "raw"
  /\ job[p].step = "complete" => ~Undone(k)
  /\ job[p].step = "release" => k \in dropped \/ ~Undone(k)

\* no record of the run is stranded
Safe(k) ==
  Undone(k) => k \in dropped \union Pending
                 \/ \E p \in Procs : job[p].key = k /\ job[p].step \in AtWork

Carried ==
  /\ \A k \in Buckets : Safe(k)
  /\ \A p \in Procs : Moved(p)

LEMMA WorkSteps ==
  AtWork = {"fetch", "persist", "work", "fail", "begin", "normalize", "check", "mark",
            "complete", "release"}
  BY DEF AtWork, Counted

LEMMA FreeMoved ==
  ASSUME NEW p \in Procs, job'[p].step \notin {"work", "check", "mark", "complete", "release"}
  PROVE  Moved(p)'
  BY DEF Moved

\* A step of the only process: the records of other runs are not touched, and
\* those of its own run are done, given up, pending or still at work.
LEMMA CarriedStep ==
  ASSUME AtMostOne, Carried, NEW p \in Procs,
         \A l \in Buckets \ {job[p].key} : /\ Undone(l)' => Undone(l)
                                           /\ l \in Pending => l \in Pending',
         dropped \subseteq dropped',
         \A k \in Buckets : k = job[p].key /\ Undone(k)' =>
           k \in dropped' \union Pending' \/ (job'[p].key = k /\ job'[p].step \in AtWork),
         Moved(p)'
  PROVE  Carried'
<1>1. ASSUME NEW l \in Buckets
      PROVE  Safe(l)'
  <2>1. CASE l = job[p].key
    BY <2>1 DEF Safe
  <2>2. CASE l # job[p].key
    <3>1. ~ \E q \in Procs : job[q].key = l /\ job[q].step \in AtWork
      BY <2>2 DEF AtMostOne
    <3>2. Undone(l)' => l \in dropped \union Pending
      BY <2>2, <3>1 DEF Carried, Safe
    <3>3. QED
      BY <2>2, <3>2 DEF Safe
  <2>3. QED
    BY <2>1, <2>2
<1>2. \A q \in Procs : Moved(q)'
  BY DEF AtMostOne
<1>3. QED
  BY <1>1, <1>2 DEF Carried

\* A step outside the work: what is pending stays so, or is taken up.
LEMMA IdlingStep ==
  ASSUME AtMostOne, TypeOK, Carried, NEW p \in Procs,
         job[p].step \notin AtWork, UNCHANGED <<owner, fate>>, dropped' = dropped,
         \A l \in Pending : l \in Pending' \/ (job'[p].key = l /\ job'[p].step \in AtWork),
         job'[p].step \notin {"work", "check", "mark", "complete", "release"}
  PROVE  Carried'
<1>1. \A l \in Buckets : Undone(l)' = Undone(l)
  BY DEF Undone, RawsOf
<1>2. \A l \in Buckets : Undone(l) => l \in dropped \union Pending
  BY DEF Carried, Safe, AtMostOne
<1>3. \A l \in Buckets : Safe(l)'
  BY <1>1, <1>2 DEF Safe
<1>4. \A q \in Procs : Moved(q)'
  BY FreeMoved DEF AtMostOne
<1>5. QED
  BY <1>3, <1>4 DEF Carried

LEMMA IdlingCarries ==
  ASSUME AtMostOne, TypeOK, Retries, Carried, NEW p \in Procs,
         \/ CheckDue(p) \/ FindRun(p) \/ Schedule(p) \/ LockJob(p) \/ LockHeavy(p)
         \/ HeavyBusy(p) \/ SkipRead(p) \/ SkipWrite(p) \/ Inspect(p) \/ Start(p)
  PROVE  Carried'
<1>0. job \in [Procs -> JobRecord] /\ run \in [Buckets -> RunRecord] /\ Plan(p)
  BY TypeParts DEF JobTyped, Retries
<1>1. UNCHANGED <<owner, fate>> /\ dropped' = dropped /\ job[p].step \notin AtWork
  BY WorkSteps DEF CheckDue, FindRun, Schedule, LockJob, LockHeavy, HeavyBusy, SkipRead,
                   SkipWrite, Inspect, Start, raws, history
<1>2. CASE CheckDue(p)
  <2>1. job'[p].step = "find" /\ UNCHANGED run
    BY <1>0, <1>2 DEF CheckDue, Idle, state
  <2>2. QED
    BY <1>1, <2>1, IdlingStep DEF Pending
<1>3. CASE FindRun(p)
  <2>1. PICK k \in Buckets : job' = [job EXCEPT ![p].step = "schedule", ![p].key = k]
    BY <1>3 DEF FindRun
  <2>2. job'[p].step = "schedule"
    BY <1>0, <2>1 DEF JobRecord
  <2>3. UNCHANGED run
    BY <1>3 DEF FindRun, state
  <2>4. QED
    BY <1>1, <2>2, <2>3, IdlingStep DEF Pending
<1>4. CASE Schedule(p)
  <2>1. job'[p].step \in {"idle", "lock"}
    BY <1>0, <1>4, GotoEffect DEF Schedule, Idle
  <2>2. \/ UNCHANGED run
        \/ run' = [run EXCEPT ![job[p].key].status = "scheduled"]
    BY <1>4 DEF Schedule
  <2>3. \A l \in Pending : l \in Pending'
    <3>1. CASE UNCHANGED run
      BY <3>1 DEF Pending
    <3>2. CASE run' = [run EXCEPT ![job[p].key].status = "scheduled"]
      <4>1. job[p].key \in Buckets
        BY <1>4, KeyType DEF Schedule, Unplanned
      <4>2. QED
        BY <3>2, <4>1, StatusGiven DEF Pending
    <3>3. QED
      BY <2>2, <3>1, <3>2
  <2>4. QED
    BY <1>1, <2>1, <2>3, IdlingStep
<1>5. CASE LockJob(p) \/ LockHeavy(p) \/ HeavyBusy(p) \/ SkipRead(p) \/ Inspect(p)
  <2>1. job'[p].step \in {"heavy", "skip", "inspect", "skipping", "noting", "idle",
                          "resume", "start"}
    BY <1>5, GotoEffect, EndJobEffect DEF LockJob, LockHeavy, HeavyBusy, SkipRead, Inspect
  <2>2. UNCHANGED run
    BY <1>5 DEF LockJob, LockHeavy, HeavyBusy, SkipRead, Inspect, state
  <2>3. QED
    BY <1>1, <2>1, <2>2, IdlingStep DEF Pending
<1>6. CASE SkipWrite(p)
  <2> DEFINE k == job[p].key
  <2>1. k \in Buckets
    BY <1>6, KeyType DEF SkipWrite, Unplanned
  <2>2. PICK y \in IF job[p].step = "noting" THEN {run[k].stage, "none"} ELSE {run[k].stage} :
           run' = [run EXCEPT ![k].status = "skipped", ![k].stage = y]
    BY <1>6 DEF SkipWrite
  <2>3. job[p].step = "noting" => ~Staged(k)
    BY <1>0 DEF Plan
  <2>4. /\ run'[k].status = "skipped" /\ run'[k].stage = y
        /\ \A l \in Buckets \ {k} : run'[l] = run[l]
    <3> HIDE DEF k
    <3>1. QED
      BY <2>1, <2>2, RowGiven
  <2>5. \A l \in Pending : l \in Pending'
    BY <2>1, <2>2, <2>3, <2>4 DEF Pending, Staged
  <2>6. job'[p].step = "idle"
    BY <1>6, EndJobEffect DEF SkipWrite
  <2>7. QED
    BY <1>1, <2>5, <2>6, IdlingStep
<1>7. CASE Start(p)
  <2>1. job[p].key \in Buckets
    BY <1>7, KeyType DEF Start, Unplanned
  <2>2. CASE run[job[p].key].status = "scheduled"
    <3>1. run' = [run EXCEPT ![job[p].key].status = "running"]
      BY <1>7, <2>2 DEF Start
    <3>2. job'[p].step \in {"fetch", "begin"} /\ job'[p].key = job[p].key
      BY <1>7, <2>2, GotoEffect DEF Start
    <3>3. \A l \in Pending : l \in Pending' \/ l = job[p].key
      BY <2>1, <3>1, StatusGiven DEF Pending
    <3>4. QED
      BY <1>1, <3>2, <3>3, WorkSteps, IdlingStep
  <2>3. CASE run[job[p].key].status # "scheduled"
    <3>1. UNCHANGED run /\ job'[p].step = "idle"
      BY <1>7, <2>3, EndJobEffect DEF Start
    <3>2. QED
      BY <1>1, <3>1, IdlingStep DEF Pending
  <2>4. QED
    BY <2>2, <2>3
<1>8. QED
  BY <1>2, <1>3, <1>4, <1>5, <1>6, <1>7

\* The steps of a run at work that go on with it.
LEMMA WorkingCarries ==
  ASSUME AtMostOne, TypeOK, Carried, NEW p \in Procs,
         \/ Fetch(p) \/ Persist(p) \/ Finalize(p) \/ Work(p) \/ NormalizeBegin(p)
         \/ Normalize(p) \/ Check(p) \/ Mark(p) \/ Complete(p) \/ Error(p)
  PROVE  Carried'
<1>0. /\ job \in [Procs -> JobRecord] /\ run \in [Buckets -> RunRecord]
      /\ owner \in [Items -> Buckets \union {None}] /\ Moved(p)
  BY TypeParts DEF JobTyped, Carried
<1>w. job[p].step \in AtWork /\ dropped \subseteq dropped'
  BY WorkSteps DEF Fetch, Persist, Finalize, Work, NormalizeBegin, Normalize, Check, Mark,
                   Complete, Error, Counted, Drop, history
<1> PICK k \in Buckets : k = job[p].key
  BY <1>w, KeyType, WorkSteps DEF Unplanned
<1>s. ASSUME job'[p].step \in AtWork, job'[p].key = k, Moved(p)',
             \A l \in Buckets \ {k} : Undone(l)' => Undone(l),
             \A l \in Buckets \ {k} : l \in Pending => l \in Pending'
      PROVE  Carried'
  BY <1>s, <1>w, CarriedStep
<1>1. CASE Fetch(p)
  <2>1. PICK r \in Results :
           job' = [job EXCEPT ![p].step = "persist", ![p].result = r]
    BY <1>1 DEF Fetch
  <2>2. UNCHANGED <<run, owner, fate>>
    BY <1>1 DEF Fetch, state, raws
  <2>3. job'[p].step = "persist" /\ job'[p].key = k
    BY <1>0, <2>1 DEF JobRecord
  <2>4. QED
    BY <1>s, <2>2, <2>3, FreeMoved, WorkSteps DEF Undone, RawsOf, Pending
<1>2. CASE Persist(p)
  <2>1. job'[p].step = "persist" /\ job'[p].key = k
    BY <1>0, <1>2 DEF Persist, JobRecord
  <2>2. UNCHANGED <<run, fate>>
    BY <1>2 DEF Persist, state
  <2>3. \A i \in Items : owner'[i] \in {owner[i], k}
    BY <1>0, <1>2 DEF Persist
  <2>4. QED
    BY <1>s, <2>1, <2>2, <2>3, FreeMoved, WorkSteps DEF Undone, RawsOf, Pending
<1>3. CASE Finalize(p)
  <2>1. job'[p].step = "work" /\ job'[p].key = k /\ UNCHANGED <<owner, fate>>
    BY <1>0, <1>3 DEF Finalize, JobRecord, raws
  <2>2. \A l \in Buckets \ {k} : run'[l] = run[l]
    BY <1>0, <1>3 DEF Finalize
  <2>3. run'[k].status \in {"succeeded", "partial"} \/ k \in dropped' \/ RawsOf(k) = {}
    BY <1>0, <1>3 DEF Finalize, Drop, RunRecord
  <2>4. Moved(p)'
    BY <2>1, <2>3 DEF Moved, RawsOf
  <2>5. QED
    BY <1>s, <2>1, <2>2, <2>4, WorkSteps DEF Undone, RawsOf, Pending
<1>4. CASE Work(p)
  <2>1. UNCHANGED <<run, owner, fate, dropped>> /\ job'[p].key = k
    BY <1>4, GotoEffect DEF Work, state, raws, history
  <2>2. \/ job'[p].step = "begin"
        \/ job'[p].step = "complete" /\ RawsOf(k) = {}
        \/ job'[p].step = "release" /\ (k \in dropped \/ RawsOf(k) = {})
    BY <1>0, <1>4, GotoEffect DEF Work, Moved
  <2>3. Moved(p)'
    BY <2>1, <2>2 DEF Moved, Undone, RawsOf
  <2>4. QED
    BY <1>s, <2>1, <2>2, <2>3, WorkSteps DEF Undone, RawsOf, Pending
<1>5. CASE NormalizeBegin(p)
  <2>1. UNCHANGED <<owner, fate>> /\ job'[p].key = k /\ job'[p].step = "normalize"
    BY <1>5, GotoEffect DEF NormalizeBegin, raws
  <2>2. \A l \in Buckets \ {k} : run'[l] = run[l]
    BY <1>0, <1>5 DEF NormalizeBegin
  <2>3. QED
    BY <1>s, <2>1, <2>2, FreeMoved, WorkSteps DEF Undone, RawsOf, Pending
<1>6. CASE Normalize(p)
  <2>1. UNCHANGED owner /\ job'[p].key = k /\ job'[p].step = "check"
    BY <1>6, GotoEffect DEF Normalize
  <2>2. \A l \in Buckets \ {k} : run'[l] = run[l]
    BY <1>0, <1>6 DEF Normalize
  <2>3. \A i \in Items : IF i \in RawsOf(k) THEN fate'[i] # "raw" ELSE fate'[i] = fate[i]
    BY <1>6, Zenon DEF Normalize, AddDeadLetter
  <2>4. Moved(p)'
    BY <2>1, <2>3 DEF Moved, RawsOf
  <2>5. QED
    BY <1>s, <2>1, <2>2, <2>3, <2>4, WorkSteps DEF Undone, RawsOf, Pending
<1>7. CASE Check(p)
  <2>1. UNCHANGED <<run, owner, fate>> /\ job'[p].key = k /\ job[p].step = "check"
    BY <1>7, GotoEffect DEF Check, Raise, state, raws
  <2>2. \/ job'[p].step \in {"fail", "mark"}
        \/ job'[p].step = "complete" /\ \A i \in RawsOf(k) : fate[i] # "fact"
    BY <1>7, GotoEffect DEF Check, Raise
  <2>3. Moved(p)'
    BY <1>0, <2>1, <2>2 DEF Moved, Undone, RawsOf
  <2>4. QED
    BY <1>s, <2>1, <2>2, <2>3, WorkSteps DEF Undone, RawsOf, Pending
<1>8. CASE Mark(p)
  <2>1. /\ UNCHANGED <<run, owner>> /\ job'[p].key = k
        /\ job[p].step = "mark" /\ job'[p].step = "complete"
    BY <1>8, GotoEffect DEF Mark, state
  <2>2. \A i \in Items : fate'[i] = IF fate[i] = "fact" THEN "shown" ELSE fate[i]
    BY <1>8 DEF Mark
  <2>3. Moved(p)'
    BY <1>0, <2>1, <2>2 DEF Moved, Undone, RawsOf
  <2>4. QED
    BY <1>s, <2>1, <2>2, <2>3, WorkSteps DEF Undone, RawsOf, Pending
<1>9. CASE Complete(p)
  <2>1. UNCHANGED <<owner, fate>> /\ job'[p].key = k /\ job[p].step = "complete"
    BY <1>9, GotoEffect DEF Complete, Raise, raws
  <2>2. job'[p].step \in {"fail", "release"}
    BY <1>9, GotoEffect DEF Complete, Raise
  <2>3. \A l \in Buckets \ {k} : run'[l] = run[l]
    BY <1>0, <1>9 DEF Complete, state
  <2>4. Moved(p)'
    BY <1>0, <2>1, <2>2 DEF Moved, Undone, RawsOf
  <2>5. QED
    BY <1>s, <2>1, <2>2, <2>3, <2>4, WorkSteps DEF Undone, RawsOf, Pending
<1>10. CASE Error(p)
  <2>1. UNCHANGED <<run, owner, fate>> /\ job'[p].key = k /\ job'[p].step = "fail"
    BY <1>10, GotoEffect DEF Error, Raise, state, raws
  <2>2. QED
    BY <1>s, <2>1, FreeMoved, WorkSteps DEF Undone, RawsOf, Pending
<1>11. QED
  BY <1>1, <1>2, <1>3, <1>4, <1>5, <1>6, <1>7, <1>8, <1>9, <1>10

\* The ends of a run at work, and of any job that stops.
LEMMA EndingCarries ==
  ASSUME AtMostOne, TypeOK, Carried, NEW p \in Procs,
         \/ FetchFails(p) \/ PersistFails(p) \/ Release(p) \/ Fail(p)
         \/ Stop(p)
  PROVE  Carried'
<1>0. job \in [Procs -> JobRecord] /\ run \in [Buckets -> RunRecord] /\ Moved(p)
  BY TypeParts DEF JobTyped, Carried
<1>r. UNCHANGED <<owner, fate>>
  BY DEF FetchFails, PersistFails, Release, Fail, Stop, raws
<1>u. \A l \in Buckets : Undone(l)' = Undone(l)
  BY <1>r DEF Undone, RawsOf
<1>1. CASE Stop(p)
  <2>1. job'[p].step = "idle" /\ UNCHANGED run
    BY <1>1, EndJobEffect DEF Stop, state
  <2>2. Moved(p)' /\ Pending' = Pending
    BY <2>1, FreeMoved DEF Pending
  <2>3. dropped \subseteq dropped'
    BY <1>1 DEF Stop, Drop
  <2>4. ASSUME NEW k \in Buckets, k = job[p].key, Undone(k)
        PROVE  k \in dropped' \union Pending'
    <3>1. CASE job[p].step \in AtWork \ {"release"}
      BY <1>1, <2>4, <3>1 DEF Stop, Drop, Undone
    <3>2. CASE job[p].step = "release"
      BY <1>0, <2>3, <2>4, <3>2 DEF Moved
    <3>3. CASE job[p].step \notin AtWork
      BY <2>2, <2>3, <2>4, <3>3 DEF Carried, Safe, AtMostOne
    <3>4. QED
      BY <3>1, <3>2, <3>3
  <2>5. QED
    BY <1>u, <2>2, <2>3, <2>4, CarriedStep
<1>2. CASE FetchFails(p) \/ PersistFails(p) \/ Fail(p)
  <2> PICK k \in Buckets : k = job[p].key
    BY <1>2, KeyType DEF FetchFails, PersistFails, Fail, Unplanned
  <2>1. PICK y \in {"fetch", "raw", "normalize"} :
           run' = [run EXCEPT ![k].status = "failed", ![k].stage = y]
    BY <1>2 DEF FetchFails, PersistFails, Fail
  <2>2. /\ run'[k].status = "failed" /\ run'[k].stage = y
        /\ \A l \in Buckets \ {k} : run'[l] = run[l]
    BY <1>0, <2>1 DEF RunRecord
  <2>3. job'[p].step = "idle" /\ dropped \subseteq dropped'
    BY <1>2, EndJobEffect DEF FetchFails, PersistFails, Fail, Drop, history
  <2>4. Undone(k) => k \in dropped' \union Pending'
    <3>1. CASE FetchFails(p)
      BY <3>1 DEF FetchFails, Drop, Undone
    <3>2. CASE PersistFails(p) \/ Fail(p)
      <4>1. run' = [run EXCEPT ![k].status = "failed", ![k].stage = "raw"] \/
            run' = [run EXCEPT ![k].status = "failed", ![k].stage = "normalize"]
        BY <3>2 DEF PersistFails, Fail
      <4>2. run'[k].status = "failed" /\ run'[k].stage \in PipelineStages
        BY <1>0, <4>1, PipelineStagesAre DEF RunRecord
      <4>3. QED
        BY <4>2 DEF Pending
    <3>3. QED
      BY <1>2, <3>1, <3>2
  <2>5. \A l \in Buckets \ {k} : l \in Pending => l \in Pending'
    BY <2>2 DEF Pending
  <2>6. QED
    BY <1>u, <2>3, <2>4, <2>5, FreeMoved, CarriedStep
<1>3. CASE Release(p)
  <2>1. job'[p].step = "idle" \/ (job'[p].step = "fail" /\ job'[p].key = job[p].key)
    BY <1>3, EndJobEffect, GotoEffect DEF Release, Raise
  <2>2. dropped' = dropped /\ Pending' = Pending /\ Moved(p)'
    BY <1>3, <2>1, FreeMoved DEF Release, state, history, Pending
  <2>3. \A k \in Buckets : k = job[p].key /\ Undone(k) => k \in dropped
    BY <1>0, <1>3 DEF Release, Moved
  <2>4. QED
    BY <1>u, <2>2, <2>3, CarriedStep
<1>4. QED
  BY <1>1, <1>2, <1>3

LEMMA ElsewhereCarries ==
  ASSUME TypeOK, Carried,
         \/ Tick \/ (\E p \in Fragile : LoseLock(p))
         \/ (\E k \in Buckets : Recover(k)) \/ (\E i \in Items : Quarantine(i))
         \/ UNCHANGED vars
  PROVE  Carried'
<1>1. job' = job /\ owner' = owner /\ dropped' = dropped
  BY DEF Tick, LoseLock, Recover, Quarantine, vars, raws, history
<1>2. \A i \in Items : fate'[i] = fate[i] \/ (fate[i] = "dead" /\ fate'[i] = "quarantined")
  BY TypeParts DEF Tick, LoseLock, Recover, Quarantine, vars, raws
<1>3. \A k \in Buckets : Undone(k)' => Undone(k)
  BY <1>1, <1>2 DEF Undone, RawsOf
<1>4. /\ Pending \subseteq Pending'
      /\ \A p \in Procs : job[p].step = "work" => run'[job[p].key] = run[job[p].key]
  <2>1. CASE UNCHANGED run
    BY <2>1 DEF Pending
  <2>2. ASSUME NEW k \in Buckets, Recover(k)
        PROVE  <1>4!1 /\ <1>4!2
    <3>1. run[k].status = "running" /\ \A l \in Buckets \ {k} : run'[l] = run[l]
      BY <2>2, RowGiven DEF Recover
    <3>2. ASSUME NEW p \in Procs, job[p].step = "work"
          PROVE  job[p].key \in Buckets \ {k}
      BY <2>2, <3>2, KeyType, WorkSteps DEF Recover, Unplanned
    <3>3. QED
      BY <3>1, <3>2 DEF Pending
  <2>3. QED
    BY <2>1, <2>2 DEF Tick, LoseLock, Quarantine, vars, state
<1>5. ASSUME NEW p \in Procs PROVE Moved(p)'
  <2>1. Moved(p)
    BY DEF Carried
  <2>2. job[p].step # "work" \/ run'[job[p].key] = run[job[p].key]
    BY <1>4
  <2>3. ~Undone(job[p].key) => ~Undone(job[p].key)'
    BY <1>1, <1>2 DEF Undone, RawsOf
  <2>4. QED
    BY <1>1, <1>2, <2>1, <2>2, <2>3 DEF Moved, RawsOf
<1>6. ASSUME NEW k \in Buckets PROVE Safe(k)'
  BY <1>1, <1>3, <1>4 DEF Carried, Safe
<1>7. QED
  BY <1>5, <1>6 DEF Carried

\* Where a source has one process, no raw record is left behind: it is shown or
\* set aside, its run is at work or will be resumed, or a crash or a failed
\* refetch has cut the run off.
THEOREM NothingIsStranded ==
  ASSUME AtMostOne
  PROVE  Spec => []NothingStranded
<1>1. Init => Carried
  <2> SUFFICES ASSUME Init PROVE Carried
    OBVIOUS
  <2>1. \A k \in Buckets : RawsOf(k) = {}
    BY DEF Init, RawsOf
  <2>2. \A p \in Procs : job[p].step = "idle"
    BY DEF Init, Idle
  <2>3. QED
    BY <2>1, <2>2 DEF Carried, Safe, Undone, Moved
<1>2. TypeOK /\ Retries /\ Carried /\ [Next]_vars => Carried'
  <2> SUFFICES ASSUME TypeOK, Retries, Carried, [Next]_vars PROVE Carried'
    OBVIOUS
  <2>1. ASSUME NEW p \in Procs,
               \/ Step(p) \/ LockHeavy(p) \/ HeavyBusy(p)
               \/ FetchFails(p) \/ PersistFails(p) \/ Error(p) \/ Stop(p)
        PROVE  Carried'
    BY <2>1, IdlingCarries, WorkingCarries, EndingCarries DEF Step
  <2>2. QED
    BY <2>1, ElsewhereCarries DEF Next
<1>3. TypeOK /\ Carried => NothingStranded
  <2> SUFFICES ASSUME TypeOK, Carried,
                      NEW i \in Items, owner[i] # None, fate[i] \in {"raw", "fact"}
               PROVE  \/ owner[i] \in dropped \union Pending
                      \/ \E p \in Procs : job[p].key = owner[i] /\ job[p].step \in AtWork
    BY DEF NothingStranded
  <2>1. owner[i] \in Buckets
    BY TypeParts
  <2>2. Undone(owner[i])
    BY DEF Undone, RawsOf
  <2>3. QED
    BY <2>1, <2>2 DEF Carried, Safe
<1>4. QED
  BY <1>1, <1>2, <1>3, TypeCorrect, RetriesInvariant, PTL DEF Spec

=============================================================================
