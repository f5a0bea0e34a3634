------------------------ MODULE SnapshotStoreProofs ------------------------
(***************************************************************************)
(* Proofs about SnapshotStore for every set of keys, versions, payloads    *)
(* and processes.                                                          *)
(***************************************************************************)
EXTENDS SnapshotStore, TLAPS

USE StoreAssumption

LEMMA IdleIsJob == Idle \in JobRecord
  BY DEF Idle, JobRecord, Steps

\* A step that moves one process to a well-formed record keeps the jobs typed.
JobsTyped ==
  /\ job \in [Procs -> JobRecord]
  /\ \A p \in Procs : job[p].step \notin {"idle", "retain"} =>
                        job[p].snap \in Versions

LEMMA JobType ==
  ASSUME JobsTyped, NEW p \in Procs, NEW j \in JobRecord,
         j.step \notin {"idle", "retain"} => j.snap \in Versions,
         job' = [job EXCEPT ![p] = j]
  PROVE  JobsTyped'
  BY DEF JobsTyped

LEMMA StepType ==
  ASSUME NEW r \in JobRecord, NEW s \in Steps
  PROVE  /\ [r EXCEPT !.step = s] \in JobRecord
         /\ [r EXCEPT !.step = s].snap = r.snap
         /\ [r EXCEPT !.step = s].step = s
  BY DEF JobRecord

LEMMA WorkingSnap ==
  ASSUME TypeOK, NEW p \in Procs, job[p].step \notin {"idle", "retain"}
  PROVE  /\ job[p] \in JobRecord
         /\ job[p].snap \in Versions
         /\ PayloadOf[job[p].snap] \in Payloads
         /\ EvidenceOf[job[p].snap] \in SUBSET Raw
         /\ KeyOf[job[p].snap] \in Keys
  <1>1. job[p] \in JobRecord /\ job[p].snap \in Versions
    BY DEF TypeOK
  <1>2. QED
    BY <1>1

LEMMA FinishType ==
  ASSUME TypeOK, NEW p \in Procs, Finish(p)
  PROVE  /\ lock' \in [Keys -> Procs \union {None}]
         /\ job' \in [Procs -> JobRecord]
         /\ \A q \in Procs : job'[q].step \notin {"idle", "retain"} =>
                               job'[q].snap \in Versions
  BY IdleIsJob DEF TypeOK, Finish, Release, Idle

LEMMA ReplaceType ==
  ASSUME TypeOK, NEW k \in Keys, NEW v \in Versions, Replace(k, v)
  PROVE  /\ head' \in [Keys -> Versions \union {None}]
         /\ served' \subseteq Versions
         /\ state' \in [Versions -> States]
  BY DEF TypeOK, Replace, States

\* Every variable keeps its type, whatever the processes do.
THEOREM TypeCorrect == Spec => []TypeOK
<1>1. Init => TypeOK
  BY IdleIsJob DEF Init, TypeOK, States, Idle
<1>2. TypeOK /\ [Next]_vars => TypeOK'
  <2> SUFFICES ASSUME TypeOK, [Next]_vars PROVE TypeOK'
    OBVIOUS
  <2>1. ASSUME NEW p \in Procs, NEW v \in Versions, BeginPublish(p, v)
        PROVE  TypeOK'
    <3>1. PICK at \in 0..now :
            job' = [job EXCEPT ![p] = [Idle EXCEPT !.step = "payload",
                                                   !.snap = v, !.at = at]]
      BY <2>1 DEF BeginPublish
    <3> DEFINE j == [Idle EXCEPT !.step = "payload", !.snap = v, !.at = at]
    <3>2. at \in Nat
      BY <3>1 DEF TypeOK
    <3>3. j \in JobRecord /\ j.snap \in Versions
      BY <3>2 DEF JobRecord, Steps, Idle
    <3>4. JobsTyped'
      BY <3>1, <3>3, JobType DEF TypeOK, JobsTyped
    <3>5. QED
      BY <2>1, <3>4 DEF TypeOK, JobsTyped, BeginPublish, Acquire, rows
  <2>2. ASSUME NEW p \in Procs, StagePayload(p)
        PROVE  TypeOK'
    <3> DEFINE j == [job[p] EXCEPT !.step = "snapshot"]
    <3>0. job[p] \in JobRecord /\ job[p].snap \in Versions
            /\ PayloadOf[job[p].snap] \in Payloads
      BY <2>2, WorkingSnap DEF StagePayload
    <3>1. j \in JobRecord /\ j.snap \in Versions
      BY <3>0, StepType DEF Steps
    <3>2. job' = [job EXCEPT ![p] = j]
      BY <2>2 DEF StagePayload, Goto
    <3> HIDE DEF j
    <3>3. JobsTyped'
      BY <3>1, <3>2, JobType DEF TypeOK, JobsTyped
    <3>4. QED
      BY <2>2, <3>0, <3>3 DEF TypeOK, JobsTyped, StagePayload
  <2>3. ASSUME NEW p \in Procs, StageSnapshot(p)
        PROVE  TypeOK'
    <3> DEFINE j == [job[p] EXCEPT !.step = "evidence",
                             !.rest = EvidenceOf[job[p].snap]]
    <3>0. job[p] \in JobRecord /\ job[p].snap \in Versions
            /\ EvidenceOf[job[p].snap] \in SUBSET Raw
      BY <2>3, WorkingSnap DEF StageSnapshot
    <3>1. j \in JobRecord /\ j.snap \in Versions
      BY <3>0 DEF JobRecord, Steps
    <3>2. job' = [job EXCEPT ![p] = j]
      BY <2>3 DEF StageSnapshot
    <3> HIDE DEF j
    <3>3. JobsTyped'
      BY <3>1, <3>2, JobType DEF TypeOK, JobsTyped
    <3>4. job[p].at \in Nat
      BY <3>0 DEF JobRecord
    <3>5. state' \in [Versions -> States]
      BY <2>3, <3>0 DEF TypeOK, StageSnapshot, States
    <3>6. calc' \in [Versions -> Nat]
      BY <2>3, <3>0, <3>4 DEF TypeOK, StageSnapshot
    <3>7. QED
      BY <2>3, <3>3, <3>5, <3>6 DEF TypeOK, JobsTyped, StageSnapshot
  <2>4. ASSUME NEW p \in Procs, StageSnapshotFails(p)
        PROVE  TypeOK'
    BY <2>4, FinishType DEF TypeOK, StageSnapshotFails, rows
  <2>5. ASSUME NEW p \in Procs, InsertProvenance(p)
        PROVE  TypeOK'
    <3>1. PICK r \in job[p].rest :
            /\ edges' = [edges EXCEPT ![job[p].snap] = @ \union {r}]
            /\ job'   = [job EXCEPT ![p].rest = @ \ {r}]
      BY <2>5 DEF InsertProvenance
    <3> DEFINE j == [job[p] EXCEPT !.rest = @ \ {r}]
    <3>2. j \in JobRecord /\ (j.step \notin {"idle", "retain"} => j.snap \in Versions)
      BY DEF TypeOK, JobRecord
    <3>3. JobsTyped'
      BY <3>1, <3>2, JobType DEF TypeOK, JobsTyped
    <3>4. edges' \in [Versions -> SUBSET Raw]
      BY <3>1 DEF TypeOK, JobRecord
    <3>5. QED
      BY <2>5, <3>3, <3>4 DEF TypeOK, JobsTyped, InsertProvenance
  <2>6. ASSUME NEW p \in Procs, MarkReady(p)
        PROVE  TypeOK'
    <3> DEFINE j == [job[p] EXCEPT !.step = "switch"]
    <3>1. j \in JobRecord /\ (j.step \notin {"idle", "retain"} => j.snap \in Versions)
      BY <2>6 DEF TypeOK, MarkReady, JobRecord, Steps
    <3>2. job' = [job EXCEPT ![p] = j]
      BY <2>6 DEF MarkReady, Goto
    <3> HIDE DEF j
    <3>3. JobsTyped'
      BY <3>1, <3>2, JobType DEF TypeOK, JobsTyped
    <3>4. QED
      BY <2>6, <3>3 DEF TypeOK, JobsTyped, MarkReady, States
  <2>7. ASSUME NEW p \in Procs, SwitchHead(p)
        PROVE  TypeOK'
    BY <2>7, FinishType, ReplaceType DEF TypeOK, SwitchHead
  <2>8. ASSUME NEW p \in Procs, NEW k \in Keys, RestoreChoose(p, k)
        PROVE  TypeOK'
    <3>1. PICK v \in Versions :
            job' = [job EXCEPT ![p] = [Idle EXCEPT !.step = "restore",
                                                   !.snap = v, !.seen = head[k]]]
      BY <2>8 DEF RestoreChoose
    <3> DEFINE j == [Idle EXCEPT !.step = "restore", !.snap = v,
                                 !.seen = head[k]]
    <3>2. j \in JobRecord /\ j.snap \in Versions
      BY DEF TypeOK, JobRecord, Steps, Idle
    <3>3. JobsTyped'
      BY <3>1, <3>2, JobType DEF TypeOK, JobsTyped
    <3>4. QED
      BY <2>8, <3>3 DEF TypeOK, JobsTyped, RestoreChoose, Acquire, rows
  <2>9. ASSUME NEW p \in Procs, RestoreSwitch(p)
        PROVE  TypeOK'
    BY <2>9, FinishType, ReplaceType DEF TypeOK, RestoreSwitch
  <2>10. ASSUME NEW p \in Procs, RetainList(p)
         PROVE  TypeOK'
    BY <2>10 DEF TypeOK, RetainList, Idle, JobRecord, Steps, rows
  <2>11. ASSUME NEW p \in Procs, RetainTake(p)
         PROVE  TypeOK'
    BY <2>11 DEF TypeOK, RetainTake, Acquire, JobRecord, Steps, rows
  <2>12. ASSUME NEW p \in Procs, RetainSkip(p)
         PROVE  TypeOK'
    BY <2>12 DEF TypeOK, RetainSkip, JobRecord, Steps, rows
  <2>13. ASSUME NEW p \in Procs, RetainErase(p)
         PROVE  TypeOK'
    <3>1. job[p].snap \in Versions
      BY <2>13, WorkingSnap DEF RetainErase
    <3>2. PICK r \in edges[job[p].snap] :
            edges' = [edges EXCEPT ![job[p].snap] = @ \ {r}]
      BY <2>13 DEF RetainErase
    <3>3. edges' \in [Versions -> SUBSET Raw]
      BY <3>1, <3>2 DEF TypeOK
    <3>4. QED
      BY <2>13, <3>3 DEF TypeOK, RetainErase
  <2>14. ASSUME NEW p \in Procs, RetainDrop(p)
        PROVE  TypeOK'
    <3> DEFINE j == [job[p] EXCEPT !.step = "retain", !.snap = None]
    <3>1. j \in JobRecord /\ (j.step \notin {"idle", "retain"} => j.snap \in Versions)
      BY <2>14 DEF TypeOK, RetainDrop, JobRecord, Steps
    <3>2. job' = [job EXCEPT ![p] = j]
      BY <2>14 DEF RetainDrop
    <3> HIDE DEF j
    <3>3. JobsTyped'
      BY <3>1, <3>2, JobType DEF TypeOK, JobsTyped
    <3>4. QED
      BY <2>14, <3>3 DEF TypeOK, JobsTyped, RetainDrop, Release, States
  <2>15. ASSUME NEW p \in Procs, RetainEnd(p) \/ Stop(p)
         PROVE  TypeOK'
    BY <2>15, FinishType DEF TypeOK, RetainEnd, Stop, rows
  <2>16. CASE Tick
    BY <2>16 DEF TypeOK, Tick, rows
  <2>17. CASE UNCHANGED vars
    BY <2>17 DEF TypeOK, vars
  <2>18. QED
    BY <2>1, <2>2, <2>3, <2>4, <2>5, <2>6, <2>7, <2>8, <2>9, <2>10, <2>11,
       <2>12, <2>13, <2>14, <2>15, <2>16, <2>17
    DEF Next, Publish, Restore, Retain, Procs
<1>3. QED
  BY <1>1, <1>2, PTL DEF Spec

-----------------------------------------------------------------------------
\* The rows of a snapshot and of its payload change in four ways only.
LEMMA SwitchIsReplace ==
  ASSUME TypeOK, NEW p \in Procs, SwitchHead(p) \/ RestoreSwitch(p)
  PROVE  /\ job[p].snap \in Versions
         /\ \/ Replace(KeyOf[job[p].snap], job[p].snap)
            \/ UNCHANGED <<state, head>>
         /\ state[job[p].snap] \in {"ready", "retired"} \/ UNCHANGED <<state, head>>
         /\ UNCHANGED <<payloads, calc, edges>>
<1>1. job[p].step \in {"switch", "restore"}
  BY DEF SwitchHead, RestoreSwitch
<1>2. job[p].snap \in Versions
  BY <1>1, WorkingSnap
<1>3. QED
  BY <1>2 DEF SwitchHead, RestoreSwitch

\* Both facts together are inductive: the head that a switch retires has a row
\* (HeadServed), so retiring it revives no row whose payload is gone.
StoreSafe == PayloadKept /\ HeadServed

LEMMA StoreSafeInvariant == Spec => []StoreSafe
<1>1. Init => StoreSafe
  BY DEF Init, StoreSafe, PayloadKept, HeadServed
<1>2. TypeOK /\ StoreSafe /\ [Next]_vars => StoreSafe'
  <2> SUFFICES ASSUME TypeOK, PayloadKept, HeadServed, [Next]_vars
               PROVE  StoreSafe'
    BY DEF StoreSafe
  <2> USE DEF StoreSafe, PayloadKept, HeadServed
  <2>1. ASSUME NEW p \in Procs, StagePayload(p)
        PROVE  StoreSafe'
    BY <2>1 DEF StagePayload
  <2>2. ASSUME NEW p \in Procs, StageSnapshot(p)
        PROVE  StoreSafe'
    BY <2>2 DEF StageSnapshot, TypeOK
  <2>3. ASSUME NEW p \in Procs, MarkReady(p)
        PROVE  StoreSafe'
    BY <2>3 DEF MarkReady, TypeOK
  <2>4. ASSUME NEW p \in Procs, SwitchHead(p) \/ RestoreSwitch(p)
        PROVE  StoreSafe'
    <3> DEFINE v == job[p].snap
               k == KeyOf[v]
    <3>1. v \in Versions /\ k \in Keys
      BY <2>4, SwitchIsReplace
    <3>2. CASE UNCHANGED <<state, head>>
      BY <3>2, <2>4, SwitchIsReplace
    <3>3. CASE Replace(k, v) /\ state[v] \in {"ready", "retired"}
      <4>1. PayloadOf[v] \in payloads
        BY <3>1, <3>3
      <4>2. head[k] # None => PayloadOf[head[k]] \in payloads
        BY <3>1
      <4>3. UNCHANGED payloads
        BY <2>4, SwitchIsReplace
      <4>4. PayloadKept'
        BY <3>1, <3>3, <4>1, <4>2, <4>3 DEF TypeOK, Replace
      <4>5. ASSUME NEW l \in Keys, head'[l] # None
            PROVE  KeyOf[head'[l]] = l /\ state'[head'[l]] = "ready"
        <5>1. CASE l = k
          BY <5>1, <3>1, <3>3 DEF Replace, TypeOK
        <5>2. CASE l # k
          <6>1. head'[l] = head[l] /\ KeyOf[head[l]] = l /\ head[l] \in Versions
            BY <5>2, <4>5, <3>1, <3>3 DEF Replace, TypeOK
          <6>2. head[l] # v /\ head[l] # head[k]
            BY <6>1, <5>2, <3>1
          <6>3. QED
            BY <6>1, <6>2, <3>1, <3>3, <4>5 DEF Replace, TypeOK
        <5>3. QED
          BY <5>1, <5>2
      <4>6. \A l \in Keys : head'[l] # None => head'[l] \in Versions
        BY <3>1, <3>3 DEF Replace, TypeOK
      <4>7. QED
        BY <4>4, <4>5, <4>6
    <3>4. QED
      BY <2>4, <3>2, <3>3, SwitchIsReplace
  <2>5. ASSUME NEW p \in Procs, RetainDrop(p)
        PROVE  StoreSafe'
    <3> DEFINE v == job[p].snap
    <3>1. UNCHANGED head
      BY <2>5 DEF RetainDrop
    <3>2. CASE UNCHANGED <<state, payloads>>
      BY <3>1, <3>2
    <3>3. CASE /\ Deletable(v)
               /\ state' = [state EXCEPT ![v] = "absent"]
               /\ payloads' = IF \E w \in Versions \ {v} :
                                   /\ state[w] # "absent"
                                   /\ PayloadOf[w] = PayloadOf[v]
                              THEN payloads ELSE payloads \ {PayloadOf[v]}
      <4>1. PayloadKept'
        BY <3>3 DEF TypeOK
      <4>2. \A k \in Keys : head[k] # v
        BY <3>3 DEF Deletable, IsHead
      <4>3. ASSUME NEW k \in Keys, head[k] # None
            PROVE  head[k] \in Versions /\ state'[head[k]] = state[head[k]]
        BY <3>3, <4>2, <4>3 DEF TypeOK
      <4>4. QED
        BY <3>1, <4>1, <4>3
    <3>4. QED
      BY <2>5, <3>2, <3>3 DEF RetainDrop
  <2>6. CASE UNCHANGED <<payloads, state, head>>
    BY <2>6
  <2>7. QED
    BY <2>1, <2>2, <2>3, <2>4, <2>5, <2>6
    DEF Next, Publish, Restore, Retain, Procs, BeginPublish, StageSnapshotFails,
        InsertProvenance, RestoreChoose, RetainList, RetainTake, RetainSkip,
        RetainErase, RetainEnd, Stop, Tick, rows, vars
<1>3. QED
  BY <1>1, <1>2, TypeCorrect, PTL DEF Spec

\* No step leaves a snapshot row without its payload: a row appears only while
\* the payload is there, and a payload goes only with its last row.
THEOREM PayloadsKept == Spec => []PayloadKept
  BY StoreSafeInvariant, PTL DEF StoreSafe

\* A published key is readable in every state, between any two transactions of
\* any number of publications, restores and retention jobs.
THEOREM HeadsServed == Spec => []HeadServed
  BY StoreSafeInvariant, PTL DEF StoreSafe

-----------------------------------------------------------------------------
Working(q) == job[q].step \notin {"idle", "retain"}

\* the steps that neither take nor release a lock
LEMMA LockUntouched ==
  ASSUME TypeOK, LockOwned, UNCHANGED lock,
         \A q \in Procs :
           \/ job'[q].step \in {"idle", "retain"} /\ ~Working(q)
           \/ /\ job'[q].step \notin {"idle", "retain"} /\ Working(q)
              /\ job'[q].snap = job[q].snap
  PROVE  LockOwned'
  BY DEF LockOwned, Working

LEMMA LockFinished ==
  ASSUME TypeOK, LockOwned, NEW p \in Procs, Finish(p)
  PROVE  LockOwned'
<1>1. \A q \in Procs : q # p => job'[q] = job[q]
  BY DEF Finish, TypeOK
<1>2. job'[p] = Idle
  BY DEF Finish, TypeOK
<1>3. \A k \in Keys : lock'[k] = IF lock[k] = p THEN None ELSE lock[k]
  BY DEF Finish, Release
<1>4. p # None /\ \A q \in Procs : q # None
  OBVIOUS
<1>5. QED
  BY <1>1, <1>2, <1>3, <1>4 DEF LockOwned, Idle

LEMMA LockTaken ==
  ASSUME TypeOK, LockOwned, NEW p \in Procs, NEW v \in Versions,
         ~Working(p), Acquire(p, KeyOf[v]), Working(p)', job'[p].snap = v,
         \A q \in Procs \ {p} : job'[q] = job[q]
  PROVE  LockOwned'
<1>1. \A k \in Keys : lock'[k] = IF k = KeyOf[v] THEN p ELSE lock[k]
  BY DEF Acquire, TypeOK
<1>2. \A q \in Procs : lock[KeyOf[v]] # q
  BY DEF Acquire
<1>3. QED
  BY <1>1, <1>2 DEF LockOwned, Working

\* A key is worked on by one process at a time, and only while its lock is
\* held: no path out of publish, restore or retention leaves a lock behind.
THEOREM LocksOwned == Spec => []LockOwned
<1>1. Init => LockOwned
  BY DEF Init, LockOwned, Idle
<1>2. TypeOK /\ LockOwned /\ [Next]_vars => LockOwned'
  <2> SUFFICES ASSUME TypeOK, LockOwned, [Next]_vars PROVE LockOwned'
    OBVIOUS
  <2>1. ASSUME NEW p \in Procs, NEW v \in Versions, BeginPublish(p, v)
        PROVE  LockOwned'
    <3>1. job' = [job EXCEPT ![p] = job'[p]] /\ job'[p].step = "payload"
            /\ job'[p].snap = v
      BY <2>1 DEF BeginPublish, TypeOK, Idle
    <3>2. QED
      BY <2>1, <3>1, LockTaken DEF BeginPublish, Working, TypeOK
  <2>2. ASSUME NEW p \in Procs, NEW k \in Keys, RestoreChoose(p, k)
        PROVE  LockOwned'
    <3>1. PICK v \in Versions : KeyOf[v] = k /\
            job' = [job EXCEPT ![p] = [Idle EXCEPT !.step = "restore",
                                                   !.snap = v, !.seen = head[k]]]
      BY <2>2 DEF RestoreChoose, Restorable
    <3>2. job'[p].step = "restore" /\ job'[p].snap = v
            /\ \A q \in Procs \ {p} : job'[q] = job[q]
      BY <3>1 DEF TypeOK, Idle
    <3>3. QED
      BY <2>2, <3>1, <3>2, LockTaken DEF RestoreChoose, Working
  <2>3. ASSUME NEW p \in Procs, RetainTake(p)
        PROVE  LockOwned'
    <3>1. PICK v \in job[p].todo :
            /\ Acquire(p, KeyOf[v])
            /\ job' = [job EXCEPT ![p].step = "erase", ![p].snap = v,
                                  ![p].todo = @ \ {v}]
      BY <2>3 DEF RetainTake
    <3>2. v \in Versions
      BY <3>1 DEF TypeOK, JobRecord
    <3>3. job[p] \in JobRecord
      BY DEF TypeOK
    <3>4. job'[p].step = "erase" /\ job'[p].snap = v
            /\ \A q \in Procs \ {p} : job'[q] = job[q]
      BY <3>1, <3>3 DEF TypeOK, JobRecord
    <3>5. QED
      BY <2>3, <3>1, <3>2, <3>4, LockTaken DEF RetainTake, Working
  <2>4. ASSUME NEW p \in Procs,
               \/ StagePayload(p) \/ StageSnapshot(p)
               \/ InsertProvenance(p) \/ MarkReady(p)
        PROVE  LockOwned'
    <3>1. job[p] \in JobRecord
      BY DEF TypeOK
    <3>2. Working(p) /\ Working(p)' /\ job'[p].snap = job[p].snap
            /\ \A q \in Procs \ {p} : job'[q] = job[q]
      BY <2>4, <3>1 DEF StagePayload, StageSnapshot, InsertProvenance,
                        MarkReady, Goto, TypeOK, Working, JobRecord
    <3>3. UNCHANGED lock
      BY <2>4 DEF StagePayload, StageSnapshot, InsertProvenance, MarkReady
    <3>4. QED
      BY <3>2, <3>3, LockUntouched DEF Working
  <2>5. ASSUME NEW p \in Procs, RetainList(p) \/ RetainSkip(p)
        PROVE  LockOwned'
    <3>1. job[p] \in JobRecord
      BY DEF TypeOK
    <3>2. PICK j \in JobRecord : /\ j.step = "retain"
                                 /\ job' = [job EXCEPT ![p] = j]
      <4>1. CASE RetainList(p)
        <5> DEFINE j == [Idle EXCEPT !.step = "retain", !.at = now,
                                     !.todo = {v \in Versions : Eligible(v, now)}]
        <5>1. j \in JobRecord /\ j.step = "retain"
          BY DEF Idle, JobRecord, Steps, TypeOK
        <5>2. QED
          BY <4>1, <5>1 DEF RetainList
      <4>2. CASE RetainSkip(p)
        <5>1. PICK v \in job[p].todo : job' = [job EXCEPT ![p].todo = @ \ {v}]
          BY <4>2 DEF RetainSkip
        <5> DEFINE j == [job[p] EXCEPT !.todo = @ \ {v}]
        <5>2. j \in JobRecord /\ j.step = "retain"
          BY <3>1, <4>2 DEF RetainSkip, JobRecord
        <5>3. QED
          BY <5>1, <5>2
      <4>3. QED
        BY <2>5, <4>1, <4>2
    <3>3. UNCHANGED lock
      BY <2>5 DEF RetainList, RetainSkip
    <3>4. ~Working(p) /\ ~Working(p)'
            /\ \A q \in Procs \ {p} : job'[q] = job[q]
      BY <2>5, <3>2 DEF RetainList, RetainSkip, TypeOK, Working
    <3>5. QED
      BY <3>3, <3>4, LockUntouched DEF Working
  <2>6. ASSUME NEW p \in Procs, RetainDrop(p)
        PROVE  LockOwned'
    <3>1. job[p] \in JobRecord /\ p # None /\ \A q \in Procs : q # None
      BY DEF TypeOK
    <3>2. job'[p].step = "retain" /\ \A q \in Procs \ {p} : job'[q] = job[q]
      BY <2>6, <3>1 DEF RetainDrop, TypeOK, JobRecord
    <3>3. \A k \in Keys : lock'[k] = IF lock[k] = p THEN None ELSE lock[k]
      BY <2>6 DEF RetainDrop, Release
    <3>4. QED
      BY <3>1, <3>2, <3>3 DEF LockOwned
  <2>7. ASSUME NEW p \in Procs,
               \/ StageSnapshotFails(p) \/ SwitchHead(p) \/ RestoreSwitch(p)
               \/ RetainEnd(p) \/ Stop(p)
        PROVE  LockOwned'
    BY <2>7, LockFinished
    DEF StageSnapshotFails, SwitchHead, RestoreSwitch, RetainEnd, Stop
  <2>8. ASSUME NEW p \in Procs, RetainErase(p)
        PROVE  LockOwned'
    BY <2>8 DEF RetainErase, LockOwned
  <2>9. CASE Tick \/ UNCHANGED vars
    BY <2>9 DEF Tick, vars, LockOwned
  <2>10. QED
    BY <2>1, <2>2, <2>3, <2>4, <2>5, <2>6, <2>7, <2>8, <2>9
    DEF Next, Publish, Restore, Retain, Procs
<1>3. QED
  BY <1>1, <1>2, TypeCorrect, PTL DEF Spec

-----------------------------------------------------------------------------
\* LockedWorkUndisturbed for one process.
Undisturbed(p) ==
  LET v == job[p].snap IN
  /\ job[p].step = "evidence" =>
       state[v] \in {"staging", "ready"} /\ EvidenceOf[v] \ job[p].rest \subseteq edges[v]
  /\ job[p].step = "switch" =>
       state[v] = "ready" /\ EvidenceOf[v] \subseteq edges[v]
  /\ job[p].step = "restore" =>
       head[KeyOf[v]] = job[p].seen /\ state[v] = "retired"

LEMMA UndisturbedOfEach == LockedWorkUndisturbed <=> \A p \in Procs : Undisturbed(p)
  BY DEF LockedWorkUndisturbed, Undisturbed

\* two processes at work hold two locks
LEMMA KeysApart ==
  ASSUME TypeOK, LockOwned, NEW p \in Procs, NEW q \in Procs \ {p},
         Working(p), Working(q)
  PROVE  KeyOf[job[q].snap] # KeyOf[job[p].snap]
<1>1. KeyOf[job[p].snap] \in Keys /\ KeyOf[job[q].snap] \in Keys
  BY WorkingSnap DEF Working
<1>2. QED
  BY <1>1 DEF LockOwned, Working

\* A step on the rows of one key disturbs nobody who works on another.
LEMMA OthersUndisturbed ==
  ASSUME TypeOK, LockOwned, NEW p \in Procs, Working(p),
         NEW q \in Procs \ {p}, Undisturbed(q), job'[q] = job[q],
         \A w \in Versions : KeyOf[w] # KeyOf[job[p].snap] =>
                               state'[w] = state[w] /\ edges'[w] = edges[w],
         \A k \in Keys : k # KeyOf[job[p].snap] => head'[k] = head[k]
  PROVE  Undisturbed(q)'
<1>1. CASE Working(q)
  <2>1. /\ job[q].snap \in Versions
        /\ KeyOf[job[q].snap] \in Keys
        /\ KeyOf[job[q].snap] # KeyOf[job[p].snap]
    BY <1>1, KeysApart, WorkingSnap DEF Working
  <2>2. /\ state'[job[q].snap] = state[job[q].snap]
        /\ edges'[job[q].snap] = edges[job[q].snap]
        /\ head'[KeyOf[job[q].snap]] = head[KeyOf[job[q].snap]]
    BY <2>1
  <2>3. QED
    BY <2>2 DEF Undisturbed
<1>2. CASE ~Working(q)
  BY <1>2 DEF Undisturbed, Working
<1>3. QED
  BY <1>1, <1>2

\* Replace touches rows of its own key: the head it retires names one.
LEMMA ReplaceIsLocal ==
  ASSUME TypeOK, HeadServed, NEW v \in Versions, Replace(KeyOf[v], v)
  PROVE  /\ \A w \in Versions : KeyOf[w] # KeyOf[v] => state'[w] = state[w]
         /\ \A k \in Keys : k # KeyOf[v] => head'[k] = head[k]
<1>1. KeyOf[v] \in Keys
  OBVIOUS
<1>2. \A w \in Versions : w = head[KeyOf[v]] => KeyOf[w] = KeyOf[v]
  BY <1>1 DEF HeadServed
<1>3. QED
  BY <1>1, <1>2 DEF Replace, TypeOK

\* Both facts together: a publisher inserts evidence only while its row is
\* there (Undisturbed), so no edge is added to an absent one.
WorkSafe == LockedWorkUndisturbed /\ NoDanglingEvidence

LEMMA WorkSafeInvariant == Spec => []WorkSafe
<1>1. Init => WorkSafe
  BY DEF Init, WorkSafe, LockedWorkUndisturbed, NoDanglingEvidence, Idle
<1>2. TypeOK /\ LockOwned /\ HeadServed /\ WorkSafe /\ [Next]_vars => WorkSafe'
  <2> SUFFICES ASSUME TypeOK, LockOwned, HeadServed, NoDanglingEvidence,
                      \A q \in Procs : Undisturbed(q), [Next]_vars
               PROVE  NoDanglingEvidence' /\ \A q \in Procs : Undisturbed(q)'
    BY UndisturbedOfEach DEF WorkSafe, LockedWorkUndisturbed, Undisturbed
  <2>1. ASSUME NEW p \in Procs, StageSnapshot(p)
        PROVE  NoDanglingEvidence' /\ \A q \in Procs : Undisturbed(q)'
    <3> DEFINE v == job[p].snap
    <3>1. Working(p) /\ v \in Versions
      BY <2>1, WorkingSnap DEF StageSnapshot, Working
    <3>2. \A q \in Procs \ {p} : job'[q] = job[q]
      BY <2>1 DEF StageSnapshot, TypeOK
    <3>3. \A w \in Versions : w # v => state'[w] = state[w]
      BY <2>1 DEF StageSnapshot, TypeOK
    <3>4. UNCHANGED <<edges, head>>
      BY <2>1 DEF StageSnapshot
    <3>5. \A q \in Procs \ {p} : Undisturbed(q)'
      BY <3>1, <3>2, <3>3, <3>4, OthersUndisturbed
    <3>6. state'[v] \in {"staging", "ready"}
      BY <2>1, <3>1 DEF StageSnapshot, TypeOK, States
    <3>7. job'[p].step = "evidence" /\ job'[p].snap = v /\ job'[p].rest = EvidenceOf[v]
      BY <2>1, <3>1, WorkingSnap DEF StageSnapshot, TypeOK, Working, JobRecord
    <3>8. Undisturbed(p)'
      BY <3>6, <3>7 DEF Undisturbed
    <3>9. NoDanglingEvidence'
      BY <3>3, <3>4, <3>6 DEF NoDanglingEvidence
    <3>10. QED
      BY <3>5, <3>8, <3>9
  <2>2. ASSUME NEW p \in Procs, InsertProvenance(p)
        PROVE  NoDanglingEvidence' /\ \A q \in Procs : Undisturbed(q)'
    <3> DEFINE v == job[p].snap
    <3>1. Working(p) /\ v \in Versions /\ job[p] \in JobRecord
      BY <2>2, WorkingSnap DEF InsertProvenance, Working
    <3>2. PICK r \in job[p].rest :
            /\ edges' = [edges EXCEPT ![v] = @ \union {r}]
            /\ job'   = [job EXCEPT ![p].rest = @ \ {r}]
      BY <2>2 DEF InsertProvenance
    <3>3. UNCHANGED <<state, head>>
      BY <2>2 DEF InsertProvenance
    <3>4. /\ edges'[v] = edges[v] \union {r}
          /\ \A w \in Versions : w # v => edges'[w] = edges[w]
      BY <3>1, <3>2 DEF TypeOK
    <3>5. /\ job'[p].step = "evidence" /\ job'[p].snap = v
          /\ job'[p].rest = job[p].rest \ {r}
          /\ \A q \in Procs \ {p} : job'[q] = job[q]
      BY <2>2, <3>1, <3>2 DEF InsertProvenance, TypeOK, JobRecord
    <3>6. \A q \in Procs \ {p} : Undisturbed(q)'
      BY <3>1, <3>3, <3>4, <3>5, OthersUndisturbed
    <3>7. /\ state[v] \in {"staging", "ready"}
          /\ EvidenceOf[v] \ job[p].rest \subseteq edges[v]
      BY <2>2 DEF InsertProvenance, Undisturbed
    <3>8. EvidenceOf[v] \ (job[p].rest \ {r}) \subseteq edges[v] \union {r}
      BY <3>7
    <3>9. Undisturbed(p)'
      BY <3>3, <3>4, <3>5, <3>7, <3>8 DEF Undisturbed
    <3>10. NoDanglingEvidence'
      BY <3>3, <3>4, <3>7 DEF NoDanglingEvidence
    <3>11. QED
      BY <3>6, <3>9, <3>10
  <2>3. ASSUME NEW p \in Procs, MarkReady(p)
        PROVE  NoDanglingEvidence' /\ \A q \in Procs : Undisturbed(q)'
    <3> DEFINE v == job[p].snap
    <3>1. Working(p) /\ v \in Versions /\ job[p] \in JobRecord
      BY <2>3, WorkingSnap DEF MarkReady, Working
    <3>2. /\ job'[p].step = "switch" /\ job'[p].snap = v
          /\ \A q \in Procs \ {p} : job'[q] = job[q]
      BY <2>3, <3>1 DEF MarkReady, Goto, TypeOK, JobRecord
    <3>3. /\ state[v] \in {"staging", "ready"}
          /\ EvidenceOf[v] \subseteq edges[v]
      BY <2>3 DEF MarkReady, Undisturbed
    <3>4. /\ state'[v] = "ready"
          /\ \A w \in Versions : w # v => state'[w] = state[w]
      BY <2>3, <3>1, <3>3 DEF MarkReady, TypeOK
    <3>5. UNCHANGED <<edges, head>>
      BY <2>3 DEF MarkReady
    <3>6. \A q \in Procs \ {p} : Undisturbed(q)'
      BY <3>1, <3>2, <3>4, <3>5, OthersUndisturbed
    <3>7. Undisturbed(p)'
      BY <3>2, <3>3, <3>4, <3>5 DEF Undisturbed
    <3>8. NoDanglingEvidence'
      BY <3>4, <3>5 DEF NoDanglingEvidence
    <3>9. QED
      BY <3>6, <3>7, <3>8
  <2>4. ASSUME NEW p \in Procs, SwitchHead(p) \/ RestoreSwitch(p)
        PROVE  NoDanglingEvidence' /\ \A q \in Procs : Undisturbed(q)'
    <3> DEFINE v == job[p].snap
    <3>1. Working(p) /\ v \in Versions
      BY <2>4, WorkingSnap DEF SwitchHead, RestoreSwitch, Working
    <3>2. job'[p] = Idle /\ \A q \in Procs \ {p} : job'[q] = job[q]
      BY <2>4 DEF SwitchHead, RestoreSwitch, Finish, TypeOK
    <3>3. UNCHANGED edges
      BY <2>4, SwitchIsReplace
    <3>4. Undisturbed(p)'
      BY <3>2 DEF Undisturbed, Idle
    <3>5. CASE UNCHANGED <<state, head>>
      <4>1. \A q \in Procs \ {p} : Undisturbed(q)'
        BY <3>1, <3>2, <3>3, <3>5, OthersUndisturbed
      <4>2. QED
        BY <3>3, <3>4, <3>5, <4>1 DEF NoDanglingEvidence
    <3>6. CASE Replace(KeyOf[v], v) /\ state[v] \in {"ready", "retired"}
      <4>1. /\ \A w \in Versions : KeyOf[w] # KeyOf[v] => state'[w] = state[w]
            /\ \A k \in Keys : k # KeyOf[v] => head'[k] = head[k]
        BY <3>1, <3>6, ReplaceIsLocal
      <4>2. \A q \in Procs \ {p} : Undisturbed(q)'
        BY <3>1, <3>2, <3>3, <4>1, OthersUndisturbed
      <4>3. \A w \in Versions : state'[w] = "absent" => state[w] = "absent"
        BY <3>6 DEF Replace
      <4>4. QED
        BY <3>3, <3>4, <4>2, <4>3 DEF NoDanglingEvidence
    <3>7. QED
      BY <2>4, <3>5, <3>6, SwitchIsReplace
  <2>5. ASSUME NEW p \in Procs, NEW k \in Keys, RestoreChoose(p, k)
        PROVE  NoDanglingEvidence' /\ \A q \in Procs : Undisturbed(q)'
    <3>1. PICK v \in Versions :
            /\ Restorable(k, v)
            /\ job' = [job EXCEPT ![p] = [Idle EXCEPT !.step = "restore",
                                                      !.snap = v, !.seen = head[k]]]
      BY <2>5 DEF RestoreChoose
    <3>2. UNCHANGED <<state, edges, head>>
      BY <2>5 DEF RestoreChoose, rows
    <3>3. \A q \in Procs \ {p} : job'[q] = job[q]
      BY <3>1 DEF TypeOK
    <3>4. job'[p].step = "restore" /\ job'[p].snap = v /\ job'[p].seen = head[k]
      BY <3>1 DEF TypeOK, Idle
    <3>5. Undisturbed(p)'
      BY <3>1, <3>2, <3>4 DEF Undisturbed, Restorable
    <3>6. QED
      BY <3>2, <3>3, <3>5 DEF Undisturbed, NoDanglingEvidence
  <2>6. ASSUME NEW p \in Procs, RetainErase(p)
        PROVE  NoDanglingEvidence' /\ \A q \in Procs : Undisturbed(q)'
    <3> DEFINE v == job[p].snap
    <3>1. Working(p) /\ v \in Versions
      BY <2>6, WorkingSnap DEF RetainErase, Working
    <3>2. PICK r \in edges[v] : edges' = [edges EXCEPT ![v] = @ \ {r}]
      BY <2>6 DEF RetainErase
    <3>3. /\ \A w \in Versions : w # v => edges'[w] = edges[w]
          /\ edges'[v] \subseteq edges[v]
      BY <3>1, <3>2 DEF TypeOK
    <3>4. UNCHANGED <<state, head, job>>
      BY <2>6 DEF RetainErase
    <3>5. \A q \in Procs \ {p} : Undisturbed(q)'
      BY <3>1, <3>3, <3>4, OthersUndisturbed
    <3>6. Undisturbed(p)'
      BY <2>6, <3>4 DEF RetainErase, Undisturbed
    <3>7. NoDanglingEvidence'
      BY <3>1, <3>3, <3>4 DEF NoDanglingEvidence
    <3>8. QED
      BY <3>5, <3>6, <3>7
  <2>7. ASSUME NEW p \in Procs, RetainDrop(p)
        PROVE  NoDanglingEvidence' /\ \A q \in Procs : Undisturbed(q)'
    <3> DEFINE v == job[p].snap
    <3>1. Working(p) /\ v \in Versions /\ job[p] \in JobRecord
      BY <2>7, WorkingSnap DEF RetainDrop, Working
    <3>2. job'[p].step = "retain" /\ \A q \in Procs \ {p} : job'[q] = job[q]
      BY <2>7, <3>1 DEF RetainDrop, TypeOK, JobRecord
    <3>3. /\ \A w \in Versions : w # v => state'[w] = state[w]
          /\ state'[v] = state[v] \/ edges[v] = {}
      BY <2>7, <3>1 DEF RetainDrop, TypeOK
    <3>4. UNCHANGED <<edges, head>>
      BY <2>7 DEF RetainDrop
    <3>5. \A q \in Procs \ {p} : Undisturbed(q)'
      BY <3>1, <3>2, <3>3, <3>4, OthersUndisturbed
    <3>6. Undisturbed(p)'
      BY <3>2 DEF Undisturbed
    <3>7. NoDanglingEvidence'
      BY <3>1, <3>3, <3>4 DEF NoDanglingEvidence
    <3>8. QED
      BY <3>5, <3>6, <3>7
  <2>8. ASSUME NEW p \in Procs,
               \/ \E v \in Versions : BeginPublish(p, v)
               \/ StagePayload(p) \/ StageSnapshotFails(p)
               \/ RetainList(p) \/ RetainTake(p) \/ RetainSkip(p) \/ RetainEnd(p)
               \/ Stop(p)
        PROVE  NoDanglingEvidence' /\ \A q \in Procs : Undisturbed(q)'
    <3>1. UNCHANGED <<state, edges, head>>
      BY <2>8 DEF BeginPublish, StagePayload, StageSnapshotFails, RetainList,
                  RetainTake, RetainSkip, RetainEnd, Stop, rows
    <3>2. \A q \in Procs \ {p} : job'[q] = job[q]
      BY <2>8 DEF BeginPublish, StagePayload, StageSnapshotFails, RetainList,
                  RetainTake, RetainSkip, RetainEnd, Stop, Finish, Goto, TypeOK
    <3>3. job'[p].step \notin {"evidence", "switch", "restore"}
      <4>1. job[p] \in JobRecord
        BY DEF TypeOK
      <4>2. CASE \E v \in Versions : BeginPublish(p, v)
        BY <4>2 DEF BeginPublish, TypeOK, Idle
      <4>3. CASE StagePayload(p)
        BY <4>1, <4>3 DEF StagePayload, Goto, TypeOK, JobRecord
      <4>4. CASE StageSnapshotFails(p) \/ RetainEnd(p) \/ Stop(p)
        BY <4>4 DEF StageSnapshotFails, RetainEnd, Stop, Finish, TypeOK, Idle
      <4>5. CASE RetainList(p)
        BY <4>5 DEF RetainList, TypeOK, Idle
      <4>6. CASE RetainTake(p)
        <5>1. PICK v \in job[p].todo :
                job' = [job EXCEPT ![p].step = "erase", ![p].snap = v,
                                   ![p].todo = @ \ {v}]
          BY <4>6 DEF RetainTake
        <5>2. job'[p].step = "erase"
          BY <4>1, <5>1 DEF TypeOK, JobRecord
        <5>3. QED
          BY <5>2
      <4>7. CASE RetainSkip(p)
        <5>1. PICK v \in job[p].todo : job' = [job EXCEPT ![p].todo = @ \ {v}]
          BY <4>7 DEF RetainSkip
        <5>2. job'[p].step = "retain"
          BY <4>1, <4>7, <5>1 DEF RetainSkip, TypeOK, JobRecord
        <5>3. QED
          BY <5>2
      <4>8. QED
        BY <2>8, <4>2, <4>3, <4>4, <4>5, <4>6, <4>7
    <3>4. QED
      BY <3>1, <3>2, <3>3 DEF Undisturbed, NoDanglingEvidence
  <2>9. CASE Tick \/ UNCHANGED vars
    BY <2>9 DEF Tick, vars, rows, Undisturbed, NoDanglingEvidence
  <2>10. QED
    BY <2>1, <2>2, <2>3, <2>4, <2>5, <2>6, <2>7, <2>8, <2>9
    DEF Next, Publish, Restore, Retain, Procs
<1>3. QED
  BY <1>1, <1>2, TypeCorrect, LocksOwned, HeadsServed, PTL DEF Spec

\* What a process relies on between two of its transactions is still true at
\* the next: nobody else changes the rows of a key whose lock it holds.
THEOREM LockedWorkStaysUndisturbed == Spec => []LockedWorkUndisturbed
  BY WorkSafeInvariant, PTL DEF WorkSafe

\* Retention and publication leave no evidence behind for a row that is gone.
THEOREM EvidenceNeverDangles == Spec => []NoDanglingEvidence
  BY WorkSafeInvariant, PTL DEF WorkSafe

-----------------------------------------------------------------------------
\* What retention is erasing is no safe point: the second check under the lock
\* said so, and while the lock is held nothing about the key's ranks changes.
Erasing(p) == job[p].step = "erase" => ~SafePoint(job[p].snap)

LEMMA HeadOfItsKey ==
  ASSUME TypeOK, HeadServed, NEW v \in Versions
  PROVE  IsHead(v) <=> head[KeyOf[v]] = v
  BY DEF IsHead, HeadServed

\* A step on the rows of one key changes no rank in another.
LEMMA StillNoSafePoint ==
  ASSUME TypeOK, HeadServed, TypeOK', HeadServed', NEW v \in Versions, NEW l \in Keys,
         KeyOf[v] # l, ~SafePoint(v),
         \A w \in Versions : KeyOf[w] # l =>
                               state'[w] = state[w] /\ calc'[w] = calc[w],
         \A k \in Keys : k # l => head'[k] = head[k]
  PROVE  ~SafePoint(v)'
<1>1. state'[v] = state[v] /\ head'[KeyOf[v]] = head[KeyOf[v]]
  OBVIOUS
<1>2. IsHead(v)' <=> IsHead(v)
  <2>1. IsHead(v)' <=> head'[KeyOf[v]] = v
    BY DEF TypeOK, IsHead, HeadServed
  <2>2. QED
    BY <1>1, <2>1, HeadOfItsKey
<1>3. NewerRetired(v)' = NewerRetired(v)
  BY DEF NewerRetired, Newer
<1>4. QED
  BY <1>1, <1>2, <1>3 DEF SafePoint, Superseded

LEMMA OthersStillErasing ==
  ASSUME TypeOK, LockOwned, HeadServed, TypeOK', HeadServed',
         NEW p \in Procs, Working(p), \A q \in Procs \ {p} : job'[q] = job[q],
         \A q \in Procs : Erasing(q),
         \A w \in Versions : KeyOf[w] # KeyOf[job[p].snap] =>
                               state'[w] = state[w] /\ calc'[w] = calc[w],
         \A k \in Keys : k # KeyOf[job[p].snap] => head'[k] = head[k]
  PROVE  \A q \in Procs \ {p} : Erasing(q)'
<1> SUFFICES ASSUME NEW q \in Procs \ {p}, job[q].step = "erase"
             PROVE  ~SafePoint(job[q].snap)'
  BY DEF Erasing
<1>1. PICK v \in Versions : v = job[q].snap
  BY WorkingSnap
<1>2. KeyOf[job[p].snap] \in Keys
  BY WorkingSnap DEF Working
<1>3. KeyOf[v] # KeyOf[job[p].snap]
  BY <1>1, KeysApart DEF Working
<1>4. ~SafePoint(v)
  BY <1>1 DEF Erasing
<1>5. ~SafePoint(v)'
  BY <1>2, <1>3, <1>4, StillNoSafePoint
<1>6. QED
  BY <1>1, <1>5

LEMMA ErasingInvariant == Spec => [](\A p \in Procs : Erasing(p))
<1> DEFINE IInv == \A p \in Procs : Erasing(p)
<1>1. Init => IInv
  BY DEF Init, Erasing, Idle
<1>2. TypeOK /\ LockOwned /\ HeadServed /\ TypeOK' /\ HeadServed' /\ IInv /\ [Next]_vars
        => IInv'
  <2> SUFFICES ASSUME TypeOK, LockOwned, HeadServed, TypeOK', HeadServed', IInv,
                      [Next]_vars
               PROVE  \A q \in Procs : Erasing(q)'
    OBVIOUS
  <2>1. ASSUME NEW p \in Procs,
               StageSnapshot(p) \/ MarkReady(p) \/ RetainDrop(p)
        PROVE  \A q \in Procs : Erasing(q)'
    <3>1. Working(p) /\ job[p].snap \in Versions /\ job[p] \in JobRecord
      BY <2>1, WorkingSnap DEF StageSnapshot, MarkReady, RetainDrop, Working
    <3>2. /\ \A q \in Procs \ {p} : job'[q] = job[q]
          /\ job'[p].step # "erase"
      BY <2>1, <3>1 DEF StageSnapshot, MarkReady, RetainDrop, Goto, TypeOK, JobRecord
    <3>3. /\ UNCHANGED head
          /\ \A w \in Versions : w # job[p].snap =>
               state'[w] = state[w] /\ calc'[w] = calc[w]
      BY <2>1, <3>1 DEF StageSnapshot, MarkReady, RetainDrop, TypeOK
    <3>4. \A q \in Procs \ {p} : Erasing(q)'
      BY <3>1, <3>2, <3>3, OthersStillErasing
    <3>5. QED
      BY <3>2, <3>4 DEF Erasing
  <2>2. ASSUME NEW p \in Procs, SwitchHead(p) \/ RestoreSwitch(p)
        PROVE  \A q \in Procs : Erasing(q)'
    <3> DEFINE v == job[p].snap
    <3>1. Working(p) /\ v \in Versions
      BY <2>2, WorkingSnap DEF SwitchHead, RestoreSwitch, Working
    <3>2. job'[p] = Idle /\ \A q \in Procs \ {p} : job'[q] = job[q]
      BY <2>2 DEF SwitchHead, RestoreSwitch, Finish, TypeOK
    <3>3. /\ \A w \in Versions : KeyOf[w] # KeyOf[v] => state'[w] = state[w]
          /\ \A k \in Keys : k # KeyOf[v] => head'[k] = head[k]
      BY <2>2, <3>1, SwitchIsReplace, ReplaceIsLocal
    <3>4. UNCHANGED calc
      BY <2>2, SwitchIsReplace
    <3>5. \A q \in Procs \ {p} : Erasing(q)'
      BY <3>1, <3>2, <3>3, <3>4, OthersStillErasing
    <3>6. QED
      BY <3>2, <3>5 DEF Erasing, Idle
  <2>3. ASSUME NEW p \in Procs, RetainTake(p)
        PROVE  \A q \in Procs : Erasing(q)'
    <3>1. PICK v \in job[p].todo :
            /\ Eligible(v, job[p].at)
            /\ job' = [job EXCEPT ![p].step = "erase", ![p].snap = v,
                                  ![p].todo = @ \ {v}]
      BY <2>3 DEF RetainTake
    <3>2. job[p] \in JobRecord
      BY DEF TypeOK
    <3>3. job'[p].snap = v /\ \A q \in Procs \ {p} : job'[q] = job[q]
      BY <3>1, <3>2 DEF TypeOK, JobRecord
    <3>4. UNCHANGED <<state, calc, head>>
      BY <2>3 DEF RetainTake, rows
    <3>5. ~SafePoint(v)
      BY <3>1 DEF Eligible, SafePoint
    <3>6. \A w : SafePoint(w)' <=> SafePoint(w)
      BY <3>4 DEF SafePoint, IsHead, Superseded, NewerRetired, Newer
    <3>7. QED
      BY <3>3, <3>5, <3>6 DEF Erasing
  <2>4. ASSUME NEW p \in Procs,
               \/ \E v \in Versions : BeginPublish(p, v)
               \/ StagePayload(p) \/ StageSnapshotFails(p) \/ InsertProvenance(p)
               \/ \E k \in Keys : RestoreChoose(p, k)
               \/ RetainList(p) \/ RetainSkip(p) \/ RetainEnd(p) \/ Stop(p)
        PROVE  \A q \in Procs : Erasing(q)'
    <3>1. UNCHANGED <<state, calc, head>>
      BY <2>4 DEF BeginPublish, StagePayload, StageSnapshotFails, InsertProvenance,
                  RestoreChoose, RetainList, RetainSkip, RetainEnd, Stop, rows
    <3>2. \A q \in Procs \ {p} : job'[q] = job[q]
      BY <2>4 DEF BeginPublish, StagePayload, StageSnapshotFails, InsertProvenance,
                  RestoreChoose, RetainList, RetainSkip, RetainEnd, Stop, Finish,
                  Goto, TypeOK
    <3>3. job'[p].step # "erase"
      <4>1. job[p] \in JobRecord
        BY DEF TypeOK
      <4>2. CASE \E v \in Versions : BeginPublish(p, v)
        BY <4>2 DEF BeginPublish, TypeOK, Idle
      <4>3. CASE RetainList(p)
        BY <4>3 DEF RetainList, TypeOK, Idle
      <4>4. CASE StagePayload(p) \/ InsertProvenance(p) \/ RetainSkip(p)
        BY <4>1, <4>4 DEF StagePayload, InsertProvenance, RetainSkip, Goto,
                          TypeOK, JobRecord
      <4>5. CASE StageSnapshotFails(p) \/ RetainEnd(p) \/ Stop(p)
        BY <4>5 DEF StageSnapshotFails, RetainEnd, Stop, Finish, TypeOK, Idle
      <4>6. ASSUME NEW k \in Keys, RestoreChoose(p, k)
            PROVE  job'[p].step # "erase"
        BY <4>6 DEF RestoreChoose, TypeOK, Idle
      <4>7. QED
        BY <2>4, <4>2, <4>3, <4>4, <4>5, <4>6
    <3>4. \A w : SafePoint(w)' <=> SafePoint(w)
      BY <3>1 DEF SafePoint, IsHead, Superseded, NewerRetired, Newer
    <3>5. QED
      BY <3>2, <3>3, <3>4 DEF Erasing
  <2>5. CASE \/ \E p \in Procs : RetainErase(p)
             \/ Tick
             \/ UNCHANGED vars
    <3>1. UNCHANGED <<state, calc, head, job>>
      BY <2>5 DEF RetainErase, Tick, rows, vars
    <3>2. \A w : SafePoint(w)' <=> SafePoint(w)
      BY <3>1 DEF SafePoint, IsHead, Superseded, NewerRetired, Newer
    <3>3. QED
      BY <3>1, <3>2 DEF Erasing
  <2>6. QED
    BY <2>1, <2>2, <2>3, <2>4, <2>5
    DEF Next, Publish, Restore, Retain, Procs
<1>3. QED
  BY <1>1, <1>2, TypeCorrect, LocksOwned, HeadsServed, PTL DEF Spec

\* Cleanup never takes a safe point or its evidence, however stale its list
\* of candidates is and whatever is published or restored meanwhile.
THEOREM SafePointsKept == Spec => SafePointKept
<1> DEFINE Kept == \A v \in Versions : SafePoint(v) =>
                     /\ state'[v] # "absent"
                     /\ SafePoint(v)' => edges[v] \subseteq edges'[v]
<1>1. TypeOK /\ HeadServed /\ (\A p \in Procs : Erasing(p)) /\ [Next]_vars => [Kept]_vars
  <2> SUFFICES ASSUME TypeOK, HeadServed, \A p \in Procs : Erasing(p), [Next]_vars
               PROVE  Kept
    OBVIOUS
  <2>1. \A v \in Versions : SafePoint(v) => state[v] # "absent"
    BY DEF SafePoint, IsHead, HeadServed
  <2>2. ASSUME NEW p \in Procs, RetainErase(p)
        PROVE  Kept
    <3>1. job[p].snap \in Versions /\ ~SafePoint(job[p].snap) /\ UNCHANGED state
      BY <2>2, WorkingSnap DEF RetainErase, Erasing
    <3>2. \A w \in Versions \ {job[p].snap} : edges'[w] = edges[w]
      BY <2>2 DEF RetainErase, TypeOK
    <3>3. QED
      BY <2>1, <3>1, <3>2
  <2>3. ASSUME NEW p \in Procs, RetainDrop(p)
        PROVE  Kept
    <3>1. job[p].snap \in Versions /\ ~SafePoint(job[p].snap) /\ UNCHANGED edges
      BY <2>3, WorkingSnap DEF RetainDrop, Erasing
    <3>2. \A w \in Versions \ {job[p].snap} : state'[w] = state[w]
      BY <2>3 DEF RetainDrop, TypeOK
    <3>3. QED
      BY <2>1, <3>1, <3>2
  <2>4. ASSUME NEW p \in Procs, StageSnapshot(p) \/ MarkReady(p)
        PROVE  Kept
    <3>1. UNCHANGED edges
      BY <2>4 DEF StageSnapshot, MarkReady
    <3>2. \A w \in Versions : state[w] # "absent" => state'[w] # "absent"
      BY <2>4 DEF StageSnapshot, MarkReady, TypeOK
    <3>3. QED
      BY <2>1, <3>1, <3>2
  <2>5. ASSUME NEW p \in Procs, SwitchHead(p) \/ RestoreSwitch(p)
        PROVE  Kept
    <3>1. UNCHANGED edges
      BY <2>5, SwitchIsReplace
    <3>2. \A w \in Versions : state[w] # "absent" => state'[w] # "absent"
      BY <2>5, SwitchIsReplace DEF Replace
    <3>3. QED
      BY <2>1, <3>1, <3>2
  <2>6. ASSUME NEW p \in Procs, InsertProvenance(p)
        PROVE  Kept
    <3>1. UNCHANGED state /\ \A w \in Versions : edges[w] \subseteq edges'[w]
      BY <2>6 DEF InsertProvenance, TypeOK
    <3>2. QED
      BY <2>1, <3>1
  <2>7. CASE UNCHANGED <<state, edges>>
    BY <2>1, <2>7
  <2>8. QED
    BY <2>2, <2>3, <2>4, <2>5, <2>6, <2>7
    DEF Next, Publish, Restore, Retain, Procs, BeginPublish, StagePayload,
        StageSnapshotFails, RestoreChoose, RetainList, RetainTake, RetainSkip,
        RetainEnd, Stop, Tick, rows, vars
<1>2. QED
  BY <1>1, TypeCorrect, HeadsServed, ErasingInvariant, PTL DEF Spec, SafePointKept

-----------------------------------------------------------------------------
HeadsInHistory == \A k \in Keys : head[k] # None => head[k] \in served

\* A retired version was readable once: only the head that a switch replaces
\* becomes retired.  Restore therefore never shows a half-built publication.
THEOREM OnlyServedRetired == Spec => []RetiredWasServed
<1> DEFINE IInv == RetiredWasServed /\ HeadsInHistory
<1>1. Init => IInv
  BY DEF Init, RetiredWasServed, HeadsInHistory
<1>2. TypeOK /\ IInv /\ [Next]_vars => IInv'
  <2> SUFFICES ASSUME TypeOK, IInv, [Next]_vars PROVE IInv'
    OBVIOUS
  <2> USE DEF RetiredWasServed, HeadsInHistory
  <2>1. ASSUME NEW p \in Procs, StageSnapshot(p)
        PROVE  IInv'
    BY <2>1 DEF StageSnapshot, TypeOK
  <2>2. ASSUME NEW p \in Procs, MarkReady(p)
        PROVE  IInv'
    BY <2>2 DEF MarkReady, TypeOK
  <2>3. ASSUME NEW p \in Procs, SwitchHead(p) \/ RestoreSwitch(p)
        PROVE  IInv'
    <3> DEFINE v == job[p].snap
               k == KeyOf[v]
    <3>1. v \in Versions /\ k \in Keys
      BY <2>3, SwitchIsReplace
    <3>2. CASE UNCHANGED <<state, head, served>>
      BY <3>2
    <3>3. CASE Replace(k, v)
      BY <3>1, <3>3 DEF Replace, TypeOK
    <3>4. QED
      BY <2>3, <3>2, <3>3 DEF SwitchHead, RestoreSwitch
  <2>4. ASSUME NEW p \in Procs, RetainDrop(p)
        PROVE  IInv'
    BY <2>4 DEF RetainDrop, TypeOK
  <2>5. CASE UNCHANGED <<state, head, served>>
    BY <2>5
  <2>6. QED
    BY <2>1, <2>2, <2>3, <2>4, <2>5
    DEF Next, Publish, Restore, Retain, Procs, BeginPublish, StagePayload,
        StageSnapshotFails, InsertProvenance, RestoreChoose, RetainList,
        RetainTake, RetainSkip, RetainErase, RetainEnd, Stop, Tick, rows, vars
<1>3. QED
  BY <1>1, <1>2, TypeCorrect, PTL DEF Spec

\* What readers see is exactly the head.
LEMMA VisibleIsHead ==
  ASSUME TypeOK, HeadServed
  PROVE  [k \in Keys |-> Visible(k)] = head
<1>1. \A k \in Keys : Visible(k) = head[k]
  BY DEF HeadServed, Visible
<1>2. QED
  BY <1>1 DEF TypeOK

\* Every behaviour of the store is, for its readers, a sequence of complete
\* replacements of one key's current version.
THEOREM ImplementsReads == Spec => ReadsSpec
<1>1. Init => Reads!Init
  BY DEF Init, Reads!Init, Visible
<1>2. TypeOK /\ HeadServed /\ (TypeOK /\ HeadServed)' /\ [Next]_vars
        => [Reads!Next]_(Reads!vars)
  <2> SUFFICES ASSUME TypeOK, HeadServed, TypeOK', HeadServed', [Next]_vars
               PROVE  [Reads!Next]_(Reads!vars)
    OBVIOUS
  <2>1. /\ [k \in Keys |-> Visible(k)] = head
        /\ [k \in Keys |-> Visible(k)]' = head'
    <3>1. [k \in Keys |-> Visible(k)] = head
      BY VisibleIsHead
    <3>2. \A k \in Keys : Visible(k)' = head'[k]
      BY DEF HeadServed, Visible
    <3>3. QED
      BY <3>1, <3>2 DEF TypeOK
  <2>2. ASSUME NEW p \in Procs, SwitchHead(p) \/ RestoreSwitch(p)
        PROVE  [Reads!Next]_(Reads!vars)
    <3> DEFINE v == job[p].snap
    <3>1. v \in Versions
      BY <2>2, SwitchIsReplace
    <3>2. CASE UNCHANGED <<state, head, served>>
      BY <2>1, <3>2 DEF Reads!vars
    <3>3. CASE Replace(KeyOf[v], v)
      <4>1. Reads!Serve(v)
        BY <2>1, <3>3 DEF Replace, Reads!Serve
      <4>2. QED
        BY <3>1, <4>1 DEF Reads!Next
    <3>4. QED
      BY <2>2, <3>2, <3>3 DEF SwitchHead, RestoreSwitch
  <2>3. CASE UNCHANGED <<head, served>>
    BY <2>1, <2>3 DEF Reads!vars
  <2>4. QED
    BY <2>2, <2>3
    DEF Next, Publish, Restore, Retain, Procs, BeginPublish, StagePayload,
        StageSnapshot, StageSnapshotFails, InsertProvenance, MarkReady,
        RestoreChoose, RetainList, RetainTake, RetainSkip, RetainErase,
        RetainDrop, RetainEnd, Stop, Tick, rows, vars
<1>3. QED
  BY <1>1, <1>2, TypeCorrect, HeadsServed, PTL DEF Spec, ReadsSpec, Reads!Spec
=============================================================================
