--------------------------- MODULE ProductRefresh ---------------------------
(***************************************************************************)
(* From normalized source facts to published product families: the durable *)
(* refresh requests of app/products/refresh_requests.py, the product job   *)
(* of app/scheduler/runtime.py that works them off, and the end of a       *)
(* source job, which marks families dirty.                                 *)
(*                                                                         *)
(* One action is one database transaction.  A job's advisory locks live on *)
(* a connection of their own: the job does not notice when that connection *)
(* dies, and goes on without its locks.  A claim token is a fresh uuid and *)
(* a worker uses its latest one only, so the worker's name stands for it.  *)
(* Deadlines are abstract: next_attempt_at may be reached, and a claim may *)
(* turn 30 minutes old, at any moment.                                     *)
(***************************************************************************)
EXTENDS Naturals

CONSTANTS
  Families,     \* product families, each with one product_refresh_request row
  Sources,      \* sources whose normalized facts products are built from
  FamiliesOf,   \* _SOURCE_FAMILIES
  Parts,        \* lookup keys of a family: read and published one by one
  Workers,      \* processes that run product jobs, one job at a time
  Collectors,   \* processes that run source jobs, one job at a time
  Fragile,      \* processes whose lock connection may be lost
  MaxFact,      \* bound: newest fact of a source
  MaxFaults,    \* bound: failures, crashes and lost connections
  None

Procs == Workers \union Collectors

ASSUME RefreshAssumption ==
  /\ FamiliesOf \in [Sources -> SUBSET Families]
  /\ Fragile \subseteq Procs
  /\ Workers \intersect Collectors = {}
  /\ None \notin Procs
  /\ None \notin Families
  /\ None \notin Sources
  /\ MaxFact \in Nat
  /\ MaxFaults \in Nat

VARIABLES
  fact,       \* newest committed normalized fact of each source
  status,     \* product_refresh_request.status, "absent" without a row
  token,      \* product_refresh_request.claim_token
  ripe,       \* pending: next_attempt_at reached; processing: claim too old
  marked,     \* request_watermark: the fact each source was last marked with
  shown,      \* the facts behind each part's published snapshot
  holder,     \* owner of each family's lock eden:product:<family>
  heavy,      \* owner of eden:heavy-write
  work,       \* each worker's product job
  run,        \* each collector's source job
  faults,     \* failures so far
  lost        \* history: some job lost its locks while it was at work

vars == <<fact, status, token, ripe, marked, shown, holder, heavy, work, run,
          faults, lost>>
request == <<status, token, ripe, marked>>
locks == <<holder, heavy>>

Facts == [Sources -> Nat]
NoFacts == [s \in Sources |-> 0]

\* a[s] >= b[s]: a knows everything b does
AtLeast(a, b) == \A s \in Sources : a[s] >= b[s]

\* from: the facts when the parts were listed; read: those read for the part
\* at hand; out: those that went into each part
Resting == [step |-> "idle", family |-> None, retried |-> FALSE, part |-> None,
            from |-> NoFacts, read |-> NoFacts, left |-> {},
            out |-> [i \in Parts |-> NoFacts]]

Init ==
  /\ fact = NoFacts
  /\ status = [f \in Families |-> "absent"]
  /\ token = [f \in Families |-> None]
  /\ ripe = [f \in Families |-> FALSE]
  /\ marked = [f \in Families |-> NoFacts]
  /\ shown = [f \in Families |-> [i \in Parts |-> NoFacts]]
  /\ holder = [f \in Families |-> None]
  /\ heavy = None
  /\ work = [w \in Workers |-> Resting]
  /\ run = [c \in Collectors |-> [step |-> "idle", source |-> None, fact |-> 0]]
  /\ faults = 0
  /\ lost = FALSE

-----------------------------------------------------------------------------
Unlock(p) ==
  /\ holder' = [f \in Families |-> IF holder[f] = p THEN None ELSE holder[f]]
  /\ heavy' = IF heavy = p THEN None ELSE heavy

\* return, or an exception: the connection that holds the locks is closed
EndWork(w) ==
  /\ work' = [work EXCEPT ![w] = Resting]
  /\ Unlock(w)

EndRun(c) ==
  /\ run' = [run EXCEPT ![c] = [step |-> "idle", source |-> None, fact |-> 0]]
  /\ Unlock(c)

Fault ==
  /\ faults < MaxFaults
  /\ faults' = faults + 1

-----------------------------------------------------------------------------
(* The end of run_source_if_due, under the heavy-write lock.               *)

BeginRun(c, s) ==
  /\ run[c].step = "idle"
  /\ heavy = None
  /\ fact[s] < MaxFact
  /\ heavy' = c
  /\ run' = [run EXCEPT ![c] = [step |-> "normalize", source |-> s, fact |-> 0]]
  /\ UNCHANGED <<fact, request, shown, holder, work, faults, lost>>

\* normalize_run commits facts that are newer than any before
Normalize(c) ==
  LET s == run[c].source IN
  /\ run[c].step = "normalize"
  /\ fact[s] < MaxFact
  /\ fact' = [fact EXCEPT ![s] = @ + 1]
  /\ run' = [run EXCEPT ![c] = [step |-> "mark", source |-> s, fact |-> fact[s] + 1]]
  /\ UNCHANGED <<request, shown, locks, work, faults, lost>>

\* mutant of MarkDirty: a build in progress keeps its claim
MarkDirtyKeepingClaim(c) ==
  LET s == run[c].source
      open == {f \in FamiliesOf[s] : status[f] # "processing"} IN
  /\ run[c].step = "mark"
  /\ status' = [f \in Families |-> IF f \in open THEN "pending" ELSE status[f]]
  /\ token' = [f \in Families |-> IF f \in open THEN None ELSE token[f]]
  /\ ripe' = [f \in Families |-> f \in open \/ ripe[f]]
  /\ marked' = [f \in Families |-> IF f \in FamiliesOf[s]
                   THEN [marked[f] EXCEPT ![s] = run[c].fact] ELSE marked[f]]
  /\ EndRun(c)
  /\ UNCHANGED <<fact, shown, work, faults, lost>>

\* mark_products_dirty: every family of the source, in one transaction
MarkDirty(c) ==
  LET s == run[c].source
      dirty == FamiliesOf[s] IN
  /\ run[c].step = "mark"
  /\ status' = [f \in Families |-> IF f \in dirty THEN "pending" ELSE status[f]]
  /\ token' = [f \in Families |-> IF f \in dirty THEN None ELSE token[f]]
  /\ ripe' = [f \in Families |-> f \in dirty \/ ripe[f]]
  /\ marked' = [f \in Families |-> IF f \in dirty
                   THEN [marked[f] EXCEPT ![s] = run[c].fact] ELSE marked[f]]
  /\ EndRun(c)
  /\ UNCHANGED <<fact, shown, work, faults, lost>>

-----------------------------------------------------------------------------
(* run_product_refresh                                                     *)

\* the job of a family starts; when its lock is taken it returns at once
LockFamily(w, f) ==
  /\ work[w].step = "idle"
  /\ holder[f] = None
  /\ holder' = [holder EXCEPT ![f] = w]
  /\ work' = [work EXCEPT ![w].step = "heavy", ![w].family = f]
  /\ UNCHANGED <<fact, request, shown, heavy, run, faults, lost>>

\* GET_LOCK with timeout 0; product_refresh_skipped_heavy_write ends the job
LockHeavy(w) ==
  /\ work[w].step = "heavy"
  /\ IF heavy = None
       THEN /\ heavy' = w
            /\ work' = [work EXCEPT ![w].step = "claim"]
            /\ UNCHANGED holder
       ELSE EndWork(w)
  /\ UNCHANGED <<fact, request, shown, run, faults, lost>>

\* mutant of Claimable: an abandoned processing claim is never taken over
ClaimablePending(f) == status[f] = "pending" /\ ripe[f]

Claimable(f) == status[f] \in {"pending", "processing"} /\ ripe[f]

\* refresh_product_family is called: nothing is read yet
Building(w, again) == [Resting EXCEPT !.step = "list", !.retried = again,
                                      !.family = work[w].family]

\* mutant of Claim: the locks are given back as soon as the claim is made
ClaimThenUnlock(w) ==
  LET f == work[w].family IN
  /\ work[w].step = "claim"
  /\ Claimable(f)
  /\ status' = [status EXCEPT ![f] = "processing"]
  /\ token' = [token EXCEPT ![f] = w]
  /\ ripe' = [ripe EXCEPT ![f] = FALSE]
  /\ work' = [work EXCEPT ![w] = Building(w, FALSE)]
  /\ Unlock(w)
  /\ UNCHANGED <<fact, marked, shown, run, faults, lost>>

\* claim_product_refresh; without a claim the job is over
Claim(w) ==
  LET f == work[w].family IN
  /\ work[w].step = "claim"
  /\ IF Claimable(f)
       THEN /\ status' = [status EXCEPT ![f] = "processing"]
            /\ token' = [token EXCEPT ![f] = w]
            /\ ripe' = [ripe EXCEPT ![f] = FALSE]
            /\ work' = [work EXCEPT ![w] = Building(w, FALSE)]
            /\ UNCHANGED locks
       ELSE /\ EndWork(w)
            /\ UNCHANGED <<status, token, ripe>>
  /\ UNCHANGED <<fact, marked, shown, run, faults, lost>>

\* The builder's first session: which parts there are, and the newest period
\* of each kind of fact.
ListParts(w) ==
  /\ work[w].step = "list"
  /\ work' = [work EXCEPT ![w].step = "build", ![w].left = Parts,
                          ![w].from = fact]
  /\ UNCHANGED <<fact, request, shown, locks, run, faults, lost>>

\* A later session sees rows of the listed periods only, as they are now.
Readable(w) == {x \in [Sources -> 0..MaxFact] :
                  AtLeast(x, work[w].from) /\ AtLeast(fact, x)}

\* mutant of ReadPart: an area is built although it is done already
ReadAnyPart(w) ==
  /\ work[w].step = "build"
  /\ \E i \in Parts, x \in Readable(w) :
       work' = [work EXCEPT ![w].step = "publish", ![w].part = i, ![w].read = x]
  /\ UNCHANGED <<fact, request, shown, locks, run, faults, lost>>

\* the next part's facts are read in a session of their own ...
ReadPart(w) ==
  /\ work[w].step = "build"
  /\ \E i \in work[w].left, x \in Readable(w) :
       work' = [work EXCEPT ![w].step = "publish", ![w].part = i, ![w].read = x]
  /\ UNCHANGED <<fact, request, shown, locks, run, faults, lost>>

\* the job of a worker whose part is published
AfterPart(r) ==
  [r EXCEPT !.step = "build", !.left = @ \ {r.part}, !.part = None,
            !.out = [@ EXCEPT ![r.part] = r.read], !.read = NoFacts]

\* mutant of PublishPart: the build stops after the first part
PublishOnePart(w) ==
  /\ work[w].step = "publish"
  /\ shown' = [shown EXCEPT ![work[w].family][work[w].part] = work[w].read]
  /\ work' = [work EXCEPT ![w] = [AfterPart(work[w]) EXCEPT !.left = {}]]
  /\ UNCHANGED <<fact, request, locks, run, faults, lost>>

\* ... and the snapshot made of them is published
PublishPart(w) ==
  /\ work[w].step = "publish"
  /\ shown' = [shown EXCEPT ![work[w].family][work[w].part] = work[w].read]
  /\ work' = [work EXCEPT ![w] = AfterPart(work[w])]
  /\ UNCHANGED <<fact, request, locks, run, faults, lost>>

\* run_with_disconnect_retry starts the whole build over, once
RetryBuild(w) ==
  /\ work[w].step \in {"list", "build", "publish"}
  /\ ~work[w].retried
  /\ Fault
  /\ work' = [work EXCEPT ![w] = Building(w, TRUE)]
  /\ UNCHANGED <<fact, request, shown, locks, run, lost>>

\* mutant of Matches: the claim token is not compared
MatchesAnyClaim(w) == status[work[w].family] # "absent" /\ w \in Workers

\* _matching_claim
Matches(w) ==
  /\ status[work[w].family] = "processing"
  /\ token[work[w].family] = w

\* complete_product_refresh; a claim that was superseded changes no row
Complete(w) ==
  LET f == work[w].family IN
  /\ work[w].step = "build" /\ work[w].left = {}
  /\ IF Matches(w)
       THEN /\ status' = [status EXCEPT ![f] = "clean"]
            /\ token' = [token EXCEPT ![f] = None]
            /\ ripe' = [ripe EXCEPT ![f] = FALSE]
       ELSE UNCHANGED <<status, token, ripe>>
  /\ EndWork(w)
  /\ UNCHANGED <<fact, marked, shown, run, faults, lost>>

\* SnapshotPublishBusy or any other error of the build: defer_product_refresh
Defer(w) ==
  LET f == work[w].family IN
  /\ work[w].step \in {"list", "build", "publish"}
  /\ Fault
  /\ IF Matches(w)
       THEN /\ status' = [status EXCEPT ![f] = "pending"]
            /\ token' = [token EXCEPT ![f] = None]
            /\ ripe' = [ripe EXCEPT ![f] = FALSE]
       ELSE UNCHANGED <<status, token, ripe>>
  /\ EndWork(w)
  /\ UNCHANGED <<fact, marked, shown, run, lost>>

-----------------------------------------------------------------------------
\* A crash, or an error outside the build: what was committed stays.
StopWork(w) ==
  /\ work[w].step # "idle"
  /\ Fault
  /\ EndWork(w)
  /\ UNCHANGED <<fact, request, shown, run, lost>>

StopRun(c) ==
  /\ run[c].step # "idle"
  /\ Fault
  /\ EndRun(c)
  /\ UNCHANGED <<fact, request, shown, work, lost>>

\* The lock connection dies while the job works on through the pool.  (Before
\* it has both locks a job still uses that connection, so it fails: StopWork.)
LoseLocks(p) ==
  /\ heavy = p
  /\ Fault
  /\ Unlock(p)
  /\ lost' = TRUE
  /\ UNCHANGED <<fact, request, shown, work, run>>

\* The clock reaches next_attempt_at, or claimed_at + 30 minutes.
Ripen(f) ==
  /\ status[f] \in {"pending", "processing"}
  /\ ~ripe[f]
  /\ ripe' = [ripe EXCEPT ![f] = TRUE]
  /\ UNCHANGED <<fact, status, token, marked, shown, locks, work, run, faults, lost>>

Step(w) ==
  \/ LockHeavy(w) \/ Claim(w)
  \/ ListParts(w) \/ ReadPart(w) \/ PublishPart(w) \/ Complete(w)

Collect(c) == Normalize(c) \/ MarkDirty(c)

Next ==
  \/ \E w \in Workers :
       \/ \E f \in Families : LockFamily(w, f)
       \/ Step(w)
       \/ RetryBuild(w) \/ Defer(w) \/ StopWork(w)
  \/ \E c \in Collectors :
       \/ \E s \in Sources : BeginRun(c, s)
       \/ Collect(c)
       \/ StopRun(c)
  \/ \E p \in Fragile : LoseLocks(p)
  \/ \E f \in Families : Ripen(f)

Spec == Init /\ [][Next]_vars

\* Every family has an interval job of its own and all pass through one FIFO
\* thread pool, so a family's turn comes again and again: strong fairness.  A
\* job that runs goes on, and the clock moves.  Nothing forces new facts.
Fairness ==
  /\ \A w \in Workers :
       /\ \A f \in Families : SF_vars(LockFamily(w, f))
       /\ WF_vars(Step(w))
  /\ \A c \in Collectors : WF_vars(Collect(c))
  /\ \A f \in Families : WF_vars(Ripen(f))

FairSpec == Spec /\ Fairness

-----------------------------------------------------------------------------
(* Properties.                                                             *)

WorkRecord ==
  [step : {"idle", "heavy", "claim", "list", "build", "publish"},
   family : Families \union {None}, retried : BOOLEAN,
   part : Parts \union {None}, from : Facts, read : Facts,
   left : SUBSET Parts, out : [Parts -> Facts]]

RunRecord == [step : {"idle", "normalize", "mark"},
              source : Sources \union {None}, fact : Nat]

\* Every variable has its type, and a job that runs has its family or source.
TypeOK ==
  /\ fact \in Facts
  /\ status \in [Families -> {"absent", "pending", "processing", "clean"}]
  /\ token \in [Families -> Workers \union {None}]
  /\ ripe \in [Families -> BOOLEAN]
  /\ marked \in [Families -> Facts]
  /\ shown \in [Families -> [Parts -> Facts]]
  /\ holder \in [Families -> Procs \union {None}]
  /\ heavy \in Procs \union {None}
  /\ work \in [Workers -> WorkRecord]
  /\ run \in [Collectors -> RunRecord]
  /\ faults \in Nat
  /\ lost \in BOOLEAN
  /\ \A w \in Workers :
       /\ work[w].step # "idle" => work[w].family \in Families
       /\ work[w].step = "publish" => work[w].part \in work[w].left
  /\ \A c \in Collectors : run[c].step # "idle" => run[c].source \in Sources

\* A worker that could now turn its family clean has published every part from
\* facts at least as new as every mark on the request, although marks arrive
\* during builds, claims are taken over and locks may silently be gone.
CompletionIsFresh ==
  \A w \in Workers :
    /\ work[w].step = "build"
    /\ work[w].left = {}
    /\ Matches(w)
    => \A i \in Parts : AtLeast(work[w].out[i], marked[work[w].family])

\* As long as no lock connection is lost: a family that is clean serves, in
\* every part, facts at least as new as those it was last marked with.
CleanIsShown ==
  ~lost => \A f \in Families : status[f] = "clean" =>
    \A i \in Parts : AtLeast(shown[f][i], marked[f])

\* As long as no lock connection is lost: publication never takes a reader
\* back to older facts, so two builds of a family never overlap.
NeverOlder ==
  [][~lost => \A f \in Families, i \in Parts :
                AtLeast(shown'[f][i], shown[f][i])]_vars

\* The backoff of a failed build never delays facts marked after its claim.
FreshMarkNotDelayed ==
  [][\A f \in Families : status[f] = "pending" /\ ripe[f] =>
       ~(status'[f] = "pending" /\ ~ripe'[f])]_vars

\* Whatever fails along the way, a family that was marked becomes clean.
DirtyBecomesClean ==
  \A f \in Families :
    status[f] \in {"pending", "processing"} ~> status[f] = "clean"
=============================================================================
