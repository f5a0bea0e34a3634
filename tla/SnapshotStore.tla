---------------------------- MODULE SnapshotStore ----------------------------
(***************************************************************************)
(* The read-model store of app/products/snapshots.py: publication of a     *)
(* snapshot, restore of a retired one and retention, running as processes  *)
(* on their own database connections.                                      *)
(*                                                                         *)
(* One action is one database transaction.  The per-key advisory lock      *)
(* eden:publish:<key hash> lives on the connection that does the work, so  *)
(* a process that fails or crashes loses it at once.  A version stands for *)
(* a snapshot id (the hash of everything a reader sees), so its key, its   *)
(* payload and its raw inputs are functions of it.                         *)
(***************************************************************************)
EXTENDS Naturals, FiniteSets

CONSTANTS
  Keys,          \* (endpoint, lookup key) pairs
  Versions,      \* snapshot ids, ordered: retention breaks ties by id
  Payloads,      \* content-addressed payload ids
  Raw,           \* raw-record ids; one stands for one provenance batch
  KeyOf,         \* the key of a version
  PayloadOf,     \* the payload of a version; two keys may share one
  EvidenceOf,    \* the raw records a version is derived from
  Publishers,    \* processes that may publish (scheduler job, import CLI)
  Restorers,     \* processes that may run restore-snapshot
  Retainers,     \* processes that may run retention
  RetiredKept,   \* retired versions of a key that retention keeps: 2
  RetentionAge,  \* minimum age of what retention deletes
  MaxTime,       \* bound of the clock
  None

Procs == Publishers \union Restorers \union Retainers

ASSUME StoreAssumption ==
  /\ Versions \subseteq Nat
  /\ IsFiniteSet(Versions)
  /\ KeyOf \in [Versions -> Keys]
  /\ PayloadOf \in [Versions -> Payloads]
  /\ EvidenceOf \in [Versions -> SUBSET Raw]
  /\ RetiredKept \in Nat
  /\ RetentionAge \in Nat
  /\ MaxTime \in Nat
  /\ None \notin Versions \union Procs

VARIABLES
  payloads,   \* read_model_payload rows
  state,      \* read_model_snapshot.state, "absent" when there is no row
  calc,       \* read_model_snapshot.calculated_at
  edges,      \* provenance_edge rows of each snapshot
  head,       \* read_model_head.snapshot_id of each key
  lock,       \* owner of each key's advisory lock
  job,        \* where each process is, and its local variables
  now,        \* wall clock
  served      \* history: every version that was once a key's head

vars == <<payloads, state, calc, edges, head, lock, job, now, served>>
rows == <<payloads, state, calc, edges>>

Idle == [step |-> "idle", snap |-> None, seen |-> None, at |-> 0,
         rest |-> {}, todo |-> {}]

Init ==
  /\ payloads = {}
  /\ state = [v \in Versions |-> "absent"]
  /\ calc  = [v \in Versions |-> 0]
  /\ edges = [v \in Versions |-> {}]
  /\ head  = [k \in Keys |-> None]
  /\ lock  = [k \in Keys |-> None]
  /\ job   = [p \in Procs |-> Idle]
  /\ now   = 0
  /\ served = {}

-----------------------------------------------------------------------------
(* The questions the queries ask.                                          *)

\* mutant of IsHead: the NOT EXISTS test on read_model_head is left out
IsHeadUnchecked(v) == FALSE /\ v = v

IsHead(v) == \E k \in Keys : head[k] = v

\* ORDER BY calculated_at, snapshot_id
Newer(w, v) == calc[w] > calc[v] \/ (calc[w] = calc[v] /\ w > v)

NewerRetired(v) ==
  {w \in Versions : KeyOf[w] = KeyOf[v] /\ state[w] = "retired" /\ Newer(w, v)}

\* version_rank > 2: two newer retired versions of the same key exist
Superseded(v) ==
  /\ state[v] = "retired"
  /\ Cardinality(NewerRetired(v)) >= RetiredKept

\* _retention_candidate_ids for a job whose clock read `at`
Eligible(v, at) ==
  /\ Superseded(v) \/ state[v] \in {"staging", "ready"}
  /\ calc[v] + RetentionAge < at
  /\ ~IsHead(v)

\* the newest retired version of k with a payload to serve
Restorable(k, v) ==
  /\ KeyOf[v] = k
  /\ v # head[k]
  /\ state[v] = "retired"
  /\ PayloadOf[v] \in payloads
  /\ \A w \in NewerRetired(v) : w = head[k] \/ PayloadOf[w] \notin payloads

Acquire(p, k) ==
  /\ lock[k] = None
  /\ lock' = [lock EXCEPT ![k] = p]

Release(p) == lock' = [k \in Keys |-> IF lock[k] = p THEN None ELSE lock[k]]

Goto(p, step) == job' = [job EXCEPT ![p].step = step]

\* mutant of Finish: no finally clause releases the advisory lock
FinishKeepingLock(p) ==
  /\ job' = [job EXCEPT ![p] = Idle]
  /\ UNCHANGED lock

\* return or raise out of the `with`: the finally clause releases the lock
Finish(p) ==
  /\ Release(p)
  /\ job' = [job EXCEPT ![p] = Idle]

-----------------------------------------------------------------------------
(* SnapshotPublisher.publish                                               *)

\* publish takes the key's lock and reads the head.  The candidate carries the
\* time `at` its build started; the wait for the lock may have lasted since.
\* A busy lock (SnapshotPublishBusy) and a head that already is v change nothing.
BeginPublish(p, v) ==
  /\ job[p].step = "idle"
  /\ head[KeyOf[v]] # v
  /\ Acquire(p, KeyOf[v])
  /\ \E at \in 0..now :
       job' = [job EXCEPT ![p] = [Idle EXCEPT !.step = "payload", !.snap = v,
                                              !.at = at]]
  /\ UNCHANGED <<rows, head, now, served>>

StagePayload(p) ==
  /\ job[p].step = "payload"
  /\ payloads' = payloads \union {PayloadOf[job[p].snap]}
  /\ Goto(p, "snapshot")
  /\ UNCHANGED <<state, calc, edges, head, lock, now, served>>

StageSnapshot(p) ==
  LET v == job[p].snap IN
  /\ job[p].step = "snapshot"
  /\ PayloadOf[v] \in payloads
  /\ state' = [state EXCEPT ![v] = IF @ \in {"absent", "retired"}
                                     THEN "staging" ELSE @]
  /\ calc'  = [calc EXCEPT ![v] = IF state[v] = "absent" THEN job[p].at ELSE @]
  /\ job'   = [job EXCEPT ![p].step = "evidence", ![p].rest = EvidenceOf[v]]
  /\ UNCHANGED <<payloads, edges, head, lock, now, served>>

\* the payload's foreign key fails: retention of another key removed the row
StageSnapshotFails(p) ==
  /\ job[p].step = "snapshot"
  /\ PayloadOf[job[p].snap] \notin payloads
  /\ Finish(p)
  /\ UNCHANGED <<rows, head, now, served>>

\* one batch of _insert_provenance; a row that is already there is left alone
InsertProvenance(p) ==
  /\ job[p].step = "evidence"
  /\ \E r \in job[p].rest :
       /\ edges' = [edges EXCEPT ![job[p].snap] = @ \union {r}]
       /\ job'   = [job EXCEPT ![p].rest = @ \ {r}]
  /\ UNCHANGED <<payloads, state, calc, head, lock, now, served>>

\* an UPDATE by id: it changes whatever row is there, or none
MarkReady(p) ==
  LET v == job[p].snap IN
  /\ job[p].step = "evidence"
  /\ job[p].rest = {}
  /\ state' = [state EXCEPT ![v] = IF @ = "absent" THEN @ ELSE "ready"]
  /\ Goto(p, "switch")
  /\ UNCHANGED <<payloads, calc, edges, head, lock, now, served>>

\* mutant of Replace: the head moves, but the restored version stays retired
ReplaceUnready(k, v) ==
  /\ head' = [head EXCEPT ![k] = v]
  /\ served' = served \union {v}
  /\ state' = [state EXCEPT ![head[k]] = "retired"]

\* mutant of Replace: every other row of the key is retired, not the old head
ReplaceRetireAll(k, v) ==
  /\ head' = [head EXCEPT ![k] = v]
  /\ served' = served \union {v}
  /\ state' = [w \in Versions |->
                 IF w = v THEN "ready"
                 ELSE IF KeyOf[w] = k /\ state[w] # "absent"
                   THEN "retired" ELSE state[w]]

\* the head moves to v and the version it leaves becomes retired
Replace(k, v) ==
  /\ head' = [head EXCEPT ![k] = v]
  /\ served' = served \union {v}
  /\ state' = [w \in Versions |->
                 IF w = v THEN "ready"
                 ELSE IF w = head[k] THEN "retired" ELSE state[w]]

\* otherwise "Snapshot head can only switch to a ready snapshot"
SwitchHead(p) ==
  LET v == job[p].snap IN
  /\ job[p].step = "switch"
  /\ IF state[v] = "ready" THEN Replace(KeyOf[v], v)
                           ELSE UNCHANGED <<state, head, served>>
  /\ Finish(p)
  /\ UNCHANGED <<payloads, calc, edges, now>>

-----------------------------------------------------------------------------
(* restore_previous_snapshot                                               *)

RestoreChoose(p, k) ==
  /\ job[p].step = "idle"
  /\ head[k] # None
  /\ Acquire(p, k)
  /\ \E v \in Versions :
       /\ Restorable(k, v)
       /\ job' = [job EXCEPT ![p] = [Idle EXCEPT !.step = "restore",
                                                 !.snap = v, !.seen = head[k]]]
  /\ UNCHANGED <<rows, head, now, served>>

\* the head and the chosen version are locked and compared again; otherwise
\* "Snapshot head changed ..." or "Rollback snapshot changed during restore"
RestoreSwitch(p) ==
  LET v == job[p].snap IN
  /\ job[p].step = "restore"
  /\ IF head[KeyOf[v]] = job[p].seen /\ state[v] = "retired"
       THEN Replace(KeyOf[v], v)
       ELSE UNCHANGED <<state, head, served>>
  /\ Finish(p)
  /\ UNCHANGED <<payloads, calc, edges, now>>

-----------------------------------------------------------------------------
(* retain_snapshots                                                        *)

RetainList(p) ==
  LET found == {v \in Versions : Eligible(v, now)} IN
  /\ job[p].step = "idle"
  /\ found # {}
  /\ job' = [job EXCEPT ![p] = [Idle EXCEPT !.step = "retain", !.at = now,
                                            !.todo = found]]
  /\ UNCHANGED <<rows, head, lock, now, served>>

\* mutant of RetainTake: the candidate list is trusted, without a second check
RetainTakeStale(p) ==
  /\ job[p].step = "retain"
  /\ \E v \in job[p].todo :
       /\ Acquire(p, KeyOf[v])
       /\ job' = [job EXCEPT ![p].step = "erase", ![p].snap = v,
                             ![p].todo = @ \ {v}]
  /\ UNCHANGED <<rows, head, now, served>>

\* mutant of RetainTake: retention does not take the publication lock
RetainTakeUnlocked(p) ==
  /\ job[p].step = "retain"
  /\ \E v \in job[p].todo :
       /\ Eligible(v, job[p].at)
       /\ job' = [job EXCEPT ![p].step = "erase", ![p].snap = v,
                             ![p].todo = @ \ {v}]
  /\ UNCHANGED <<rows, head, lock, now, served>>

\* mutant of RetainTake: the candidate is not remembered
RetainTakeNothing(p) ==
  /\ job[p].step = "retain"
  /\ \E v \in job[p].todo :
       /\ Acquire(p, KeyOf[v])
       /\ Eligible(v, job[p].at)
       /\ job' = [job EXCEPT ![p].step = "erase", ![p].todo = @ \ {v}]
  /\ UNCHANGED <<rows, head, now, served>>

\* lock one candidate's key without waiting and check it again
RetainTake(p) ==
  /\ job[p].step = "retain"
  /\ \E v \in job[p].todo :
       /\ Acquire(p, KeyOf[v])
       /\ Eligible(v, job[p].at)
       /\ job' = [job EXCEPT ![p].step = "erase", ![p].snap = v,
                             ![p].todo = @ \ {v}]
  /\ UNCHANGED <<rows, head, now, served>>

\* the lock is taken, the row is gone, or the second check rejects it
RetainSkip(p) ==
  /\ job[p].step = "retain"
  /\ \E v \in job[p].todo :
       /\ lock[KeyOf[v]] # None \/ ~Eligible(v, job[p].at)
       /\ job' = [job EXCEPT ![p].todo = @ \ {v}]
  /\ UNCHANGED <<rows, head, lock, now, served>>

Deletable(v) == state[v] # "absent" /\ ~IsHead(v)

\* one bounded batch of the provenance loop
RetainErase(p) ==
  LET v == job[p].snap IN
  /\ job[p].step = "erase"
  /\ Deletable(v)
  /\ \E r \in edges[v] : edges' = [edges EXCEPT ![v] = @ \ {r}]
  /\ UNCHANGED <<payloads, state, calc, head, lock, job, now, served>>

\* mutant of RetainDrop: the payload goes without asking who else uses it
RetainDropPayload(p) ==
  LET v == job[p].snap IN
  /\ job[p].step = "erase"
  /\ edges[v] = {} /\ Deletable(v)
  /\ state' = [state EXCEPT ![v] = "absent"]
  /\ calc'  = [calc EXCEPT ![v] = 0]
  /\ payloads' = payloads \ {PayloadOf[v]}
  /\ Release(p)
  /\ job' = [job EXCEPT ![p].step = "retain", ![p].snap = None]
  /\ UNCHANGED <<edges, head, now, served>>

\* mutant of RetainDrop: remaining provenance does not keep the snapshot
RetainDropEarly(p) ==
  LET v == job[p].snap IN
  /\ job[p].step = "erase"
  /\ Deletable(v)
  /\ state' = [state EXCEPT ![v] = "absent"]
  /\ Release(p)
  /\ job' = [job EXCEPT ![p].step = "retain", ![p].snap = None]
  /\ UNCHANGED <<payloads, calc, edges, head, now, served>>

\* after the loop: nothing left, or the row limit of this invocation reached.
\* Remaining provenance keeps the snapshot for a later invocation.
RetainDrop(p) ==
  LET v == job[p].snap IN
  /\ job[p].step = "erase"
  /\ IF edges[v] = {} /\ Deletable(v)
       THEN /\ state' = [state EXCEPT ![v] = "absent"]
            /\ calc'  = [calc EXCEPT ![v] = 0]
            /\ payloads' = IF \E w \in Versions \ {v} :
                                 /\ state[w] # "absent"
                                 /\ PayloadOf[w] = PayloadOf[v]
                             THEN payloads ELSE payloads \ {PayloadOf[v]}
       ELSE UNCHANGED <<state, calc, payloads>>
  /\ Release(p)
  /\ job' = [job EXCEPT ![p].step = "retain", ![p].snap = None]
  /\ UNCHANGED <<edges, head, now, served>>

RetainEnd(p) ==
  /\ job[p].step = "retain"
  /\ job[p].todo = {}
  /\ Finish(p)
  /\ UNCHANGED <<rows, head, now, served>>

-----------------------------------------------------------------------------
\* A database error, a lost connection, retention's deadline or pause, or a
\* crash of the process: committed transactions stay, the lock is gone.
Stop(p) ==
  /\ job[p].step # "idle"
  /\ Finish(p)
  /\ UNCHANGED <<rows, head, now, served>>

Tick ==
  /\ now < MaxTime
  /\ now' = now + 1
  /\ UNCHANGED <<rows, head, lock, job, served>>

Publish(p) ==
  \/ \E v \in Versions : BeginPublish(p, v)
  \/ StagePayload(p) \/ StageSnapshot(p) \/ StageSnapshotFails(p)
  \/ InsertProvenance(p) \/ MarkReady(p)
  \/ SwitchHead(p)

Restore(p) ==
  \/ \E k \in Keys : RestoreChoose(p, k)
  \/ RestoreSwitch(p)

Retain(p) ==
  \/ RetainList(p) \/ RetainTake(p) \/ RetainSkip(p)
  \/ RetainErase(p) \/ RetainDrop(p) \/ RetainEnd(p)

Next ==
  \/ \E p \in Publishers : Publish(p)
  \/ \E p \in Restorers : Restore(p)
  \/ \E p \in Retainers : Retain(p)
  \/ \E p \in Procs : Stop(p)
  \/ Tick

Spec == Init /\ [][Next]_vars

-----------------------------------------------------------------------------
(* Properties.                                                             *)

Steps == {"idle", "payload", "snapshot", "evidence", "switch",
          "restore", "retain", "erase"}

States == {"absent", "staging", "ready", "retired"}

JobRecord == [step : Steps, snap : Versions \union {None},
              seen : Versions \union {None}, at : Nat,
              rest : SUBSET Raw, todo : SUBSET Versions]

\* Every variable has its type, and a step that works on a snapshot has one.
TypeOK ==
  /\ payloads \subseteq Payloads
  /\ state \in [Versions -> States]
  /\ calc \in [Versions -> Nat]
  /\ edges \in [Versions -> SUBSET Raw]
  /\ head \in [Keys -> Versions \union {None}]
  /\ lock \in [Keys -> Procs \union {None}]
  /\ job \in [Procs -> JobRecord]
  /\ \A p \in Procs : job[p].step \notin {"idle", "retain"} =>
                        job[p].snap \in Versions
  /\ now \in Nat
  /\ served \subseteq Versions

\* A stored snapshot always has its payload, although payloads are shared
\* between keys whose publication and retention hold different locks.
PayloadKept ==
  \A v \in Versions : state[v] # "absent" => PayloadOf[v] \in payloads

\* Whatever any process is in the middle of, the head of a key names a ready
\* snapshot of that key whose payload is stored: what _current_snapshot of
\* readmodels/repository.py needs in order to answer.
HeadServed ==
  \A k \in Keys : head[k] # None =>
    /\ KeyOf[head[k]] = k
    /\ state[head[k]] = "ready"
    /\ PayloadOf[head[k]] \in payloads

\* A key's lock is held exactly while one process is between taking it and
\* the end of its work on that key, so two never work on a key at once and an
\* error path or a crash leaves no lock behind.
LockOwned ==
  \A p \in Procs, k \in Keys :
    lock[k] = p <=> /\ job[p].step \notin {"idle", "retain"}
                    /\ KeyOf[job[p].snap] = k

\* Nobody disturbs work done under a key's lock: a publisher's row is still
\* staged with all evidence inserted so far when it comes to switch the head,
\* so the RuntimeError of _switch_head cannot be raised; a restore finds the
\* head and the version it chose unchanged.
LockedWorkUndisturbed ==
  \A p \in Procs : LET v == job[p].snap IN
    /\ job[p].step = "evidence" =>
         state[v] \in {"staging", "ready"} /\ EvidenceOf[v] \ job[p].rest \subseteq edges[v]
    /\ job[p].step = "switch" =>
         state[v] = "ready" /\ EvidenceOf[v] \subseteq edges[v]
    /\ job[p].step = "restore" =>
         head[KeyOf[v]] = job[p].seen /\ state[v] = "retired"

\* Provenance rows outlive no snapshot: retention removes a row only after its
\* last edge, and no publisher adds edges to a row retention took.
NoDanglingEvidence ==
  \A v \in Versions : state[v] = "absent" => edges[v] = {}

\* Only what readers have once obtained is ever called retired, so neither
\* restore-snapshot nor retention's two kept versions can be a publication that
\* was abandoned half way.
RetiredWasServed ==
  \A v \in Versions : state[v] = "retired" => v \in served

SafePoint(v) == IsHead(v) \/ (state[v] = "retired" /\ ~Superseded(v))

\* "Cleanup keeps the current snapshot and two recent retired versions": no
\* step deletes a safe point or takes evidence from it, however stale the
\* candidate list of a retention job has become.
SafePointKept ==
  [][\A v \in Versions : SafePoint(v) =>
       /\ state'[v] # "absent"
       /\ SafePoint(v)' => edges[v] \subseteq edges'[v]]_vars

\* api/README.md:168: the current snapshot and the two recent retired versions
\* keep their source evidence.
SafePointEvidence ==
  \A v \in Versions : SafePoint(v) => EvidenceOf[v] \subseteq edges[v]

\* What a reader obtains for k: _current_snapshot of readmodels/repository.py.
Visible(k) ==
  LET v == head[k] IN
  IF v = None THEN None
  ELSE IF KeyOf[v] = k /\ state[v] = "ready" /\ PayloadOf[v] \in payloads
    THEN v ELSE None

Reads == INSTANCE PublishedReads WITH current <- [k \in Keys |-> Visible(k)]

\* The store implements the promise to its readers: publication, restore and
\* retention, interleaved and interrupted anywhere, look like single steps.
ReadsSpec == Reads!Spec
=============================================================================
