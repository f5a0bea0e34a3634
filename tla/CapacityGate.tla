---------------------------- MODULE CapacityGate ----------------------------
(***************************************************************************)
(* The samples of storage and memory, the decision derived from the last   *)
(* one, and the gate that source and product jobs ask before they write    *)
(* (scheduler/capacity.py, observability/capacity.py).  One thread takes   *)
(* samples; jobs of other threads read the decision under its lock.        *)
(***************************************************************************)
EXTENDS Integers, FiniteSets, FiniteSetsExt

CONSTANTS
  Disk,              \* disk use a sample may find, in percent
  Size,              \* database sizes a sample may find
  WarnAt, SourceAt, ProductAt,   \* DISK_WARNING/SOURCE_PAUSE/PRODUCT_PAUSE_PERCENT
  MaxSize,           \* DATABASE_MAX_BYTES
  Budget,            \* DERIVED_DAILY_GROWTH_BUDGET_BYTES
  Day,               \* ticks of a day
  Production,        \* ENVIRONMENT = "production"
  Retention,         \* SNAPSHOT_RETENTION_ENABLED
  MaxAge,            \* CAPACITY_DECISION_MAX_AGE
  MinInterval,       \* CAPACITY_SAMPLE_MIN_INTERVAL
  RefMin, RefMax,    \* the age of a growth reference
  KeepFor,           \* CAPACITY_SAMPLE_RETENTION_DAYS
  MaxClock           \* bound

\* assess_capacity and persist_capacity_sample raise on anything else; whole
\* percents stand for the code's fractions.
ASSUME CapacityAssumption ==
  /\ {WarnAt, SourceAt, ProductAt} \subseteq 1..100
  /\ WarnAt < SourceAt /\ SourceAt < ProductAt
  /\ Disk \subseteq 0..100 /\ Size \subseteq Nat
  /\ {MaxSize, Budget, Day, MinInterval, RefMin, KeepFor} \subseteq Nat \ {0}
  /\ {MaxAge, RefMax, MaxClock} \subseteq Nat
  /\ {Production, Retention} \subseteq BOOLEAN

VARIABLES
  clock,
  memory,      \* what the host says now: "low", "high", "unknown"
  stored,      \* storage_capacity_sample: [at, size]
  sample,      \* the gate's sample: [at, disk, size, memory] or NoSample
  decision,    \* the gate's decision, NoDecision before the first sample
  attempt      \* history: the last sampling, [at, ok, referred]

capacityVars == <<clock, memory, stored, sample, decision, attempt>>

NoSample == [at |-> -1, disk |-> 100, size |-> 0, memory |-> "unknown"]
NoDecision == [made |-> FALSE, product |-> FALSE, source |-> FALSE, expansion |-> FALSE]
\* _unavailable_decision
Unavailable == [NoDecision EXCEPT !.made = TRUE, !.expansion = TRUE]

CapacityInit ==
  /\ clock = 0
  /\ memory = "low"
  /\ stored = {}
  /\ sample = NoSample
  /\ decision = NoDecision
  /\ attempt = [at |-> -1, ok |-> FALSE, referred |-> FALSE]

-----------------------------------------------------------------------------
\* load_growth_reference: the latest stored sample of the right age.
References == {s \in stored : RefMin <= clock - s.at /\ clock - s.at <= RefMax}
Reference == CHOOSE s \in References : \A x \in References : x.at <= s.at

\* projected_daily_growth_bytes, over the budget
GrowthExceeded(now) ==
  /\ References # {}
  /\ (Max({0, now.size - Reference.size}) * Day) \div (now.at - Reference.at) > Budget

\* assess_capacity
Assess(now) ==
  LET writable == /\ ~(Production /\ References = {})
                  /\ now.size < MaxSize
                  /\ now.memory # "high"
      source == writable /\ now.disk < SourceAt /\ now.size * 100 < MaxSize * 95
  IN [made |-> TRUE,
      product |-> writable /\ now.disk < ProductAt,
      source |-> source,
      expansion |-> source /\ ~GrowthExceeded(now)]

\* persist_capacity_sample: not more often than MinInterval; old ones are removed.
Persist(now) ==
  IF \E s \in stored : now.at < s.at + MinInterval THEN stored
  ELSE {s \in stored : s.at >= now.at - KeepFor} \union {[at |-> now.at, size |-> now.size]}

\* refresh: sample, compare, store, decide.
RefreshCapacity ==
  /\ \E d \in Disk, z \in Size :
       LET now == [at |-> clock, disk |-> d, size |-> z, memory |-> memory] IN
       /\ stored' = Persist(now)
       /\ sample' = now
       /\ decision' = Assess(now)
  /\ attempt' = [at |-> clock, ok |-> TRUE, referred |-> References # {}]
  /\ UNCHANGED <<clock, memory>>

\* mutant of RefreshFails: the last good decision stays in force
RefreshFailsOpen ==
  /\ attempt' = [at |-> clock, ok |-> FALSE, referred |-> FALSE]
  /\ UNCHANGED <<clock, memory, stored, sample, decision>>

\* Sampling, storing or reporting fails; the sample may have been stored before.
RefreshFails ==
  /\ \/ UNCHANGED stored
     \/ \E z \in Size : stored' = Persist([at |-> clock, size |-> z])
  /\ sample' = NoSample
  /\ decision' = Unavailable
  /\ attempt' = [at |-> clock, ok |-> FALSE, referred |-> FALSE]
  /\ UNCHANGED <<clock, memory>>

\* Time passes: the next sampling may be late, and memory use changes.
CapacityTick ==
  /\ clock < MaxClock
  /\ clock' = clock + 1
  /\ memory' \in {"low", "high", "unknown"}
  /\ UNCHANGED <<stored, sample, decision, attempt>>

CapacityNext == RefreshCapacity \/ RefreshFails \/ CapacityTick
CapacitySpec == CapacityInit /\ [][CapacityNext]_capacityVars

-----------------------------------------------------------------------------
(* What a job is told when it asks. *)

\* _pause_reason: allowed by the decision, which is recent, and by memory now.
Open(allowed) ==
  /\ decision.made /\ allowed
  /\ sample # NoSample /\ clock - sample.at <= MaxAge
  /\ (IF memory = "unknown" THEN sample.memory ELSE memory) # "high"
SourceOpen == Open(decision.source)
ProductOpen == Open(decision.product)
ExpansionOpen == SourceOpen /\ decision.expansion

\* production_readiness_reasons: none.
Ready == Production => Retention /\ decision.made /\ decision.product /\ decision.source

-----------------------------------------------------------------------------
CapacityTypeOK ==
  /\ clock \in 0..MaxClock
  /\ memory \in {"low", "high", "unknown"}
  /\ stored \subseteq [at : 0..MaxClock, size : Size]
  /\ decision \in [made : BOOLEAN, product : BOOLEAN, source : BOOLEAN, expansion : BOOLEAN]
  /\ attempt \in [at : -1..MaxClock, ok : BOOLEAN, referred : BOOLEAN]

\* The gate fails closed.  Writes go on only on the evidence of the very last
\* sampling: it succeeded, is recent and found room below the limits, with a
\* growth reference in production; sources give way before products, and
\* their expansion before sources.  A readiness that is reported in between
\* rests on the last sampling as well, however old.
GateFailsClosed ==
  /\ ProductOpen =>
       /\ attempt.ok /\ clock - attempt.at <= MaxAge
       /\ sample.at = attempt.at /\ sample.disk < ProductAt /\ sample.size < MaxSize
       /\ (Production => attempt.referred)
       /\ memory # "high"
  /\ SourceOpen => ProductOpen /\ sample.disk < SourceAt
  /\ ExpansionOpen => SourceOpen
  /\ (Production /\ Ready) => attempt.ok

=============================================================================
