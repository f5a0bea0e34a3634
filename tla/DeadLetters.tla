----------------------------- MODULE DeadLetters -----------------------------
(***************************************************************************)
(* Letters of raw records that the normalizer rejected, the job that works *)
(* on them again (normalization/dead_letters.py) and the normalization of  *)
(* a whole run by a source job (normalize_run), which touches the same     *)
(* letters.  All of it runs under the lock eden:heavy-write; what two jobs *)
(* see of each other is what a crashed one left behind.                    *)
(*                                                                         *)
(* A raw record has one letter, as if the normalizer knew one error code.  *)
(* Times are kept as what the code compares them with: a retry is due or   *)
(* not, a claim is recent or 30 minutes old.                               *)
(***************************************************************************)
EXTENDS Integers, FiniteSets

CONSTANTS
  Raws,          \* raw records
  RunOf,         \* the (source, run) a record belongs to
  RowReplay,     \* the runs whose source is replayed record by record
  Disabled,      \* the runs of disabled sources
  Catalog,       \* the runs of catalogs, where a later record supersedes
  Facts,         \* normalized rows
  FactOf,        \* the row a record is normalized into
  MaxAttempts,   \* DEAD_LETTER_MAX_ATTEMPTS
  Batch,         \* DEAD_LETTER_BATCH_SIZE
  MaxCrashes     \* bound: crashes of a job

LettersAssumption ==
  /\ IsFiniteSet(Raws)
  /\ RunOf \in [Raws -> {RunOf[r] : r \in Raws}]
  /\ FactOf \in [Raws -> Facts]
  /\ MaxAttempts \in Nat \ {0}
  /\ Batch \in Nat \ {0}
  /\ MaxCrashes \in Nat
ASSUME LettersAssumption

VARIABLES
  raw,        \* raw[r]: "new", "superseded" by a later one, "expired", "gone"
  letter,     \* letter[r]: the dead_letter row of r
  facts,      \* the normalized rows that exist
  edges,      \* provenance edges <<fact, raw record>>
  heavy,      \* who holds eden:heavy-write
  job,        \* the dead-letter job: [at, group, room]
  work,       \* the normalization of a run by a source job: [at, run, mine]
  unmarked,   \* records the job stored since it last marked the products
  crashes     \* crashes so far

rows == <<raw, letter, facts, edges>>
lettersVars == <<rows, heavy, job, work, unmarked, crashes>>

Statuses == {"none", "pending", "retrying", "resolved", "quarantined"}
NoLetter == [st |-> "none", tries |-> 0, due |-> TRUE, claimed |-> "never"]
NewLetter == [NoLetter EXCEPT !.st = "pending"]
\* The times of a closed letter are read by nobody: they are not kept.
Closed(row, status) == [row EXCEPT !.st = status, !.due = TRUE, !.claimed = "never"]
IdleJob == [at |-> "idle", group |-> {}, room |-> 0]
IdleWork == [at |-> "idle", run |-> {}, mine |-> {}]

RecordsOf(run) == {r \in Raws : RunOf[r] = run /\ raw[r] # "gone"}
Having(status) == {r \in Raws : letter[r].st = status}

LettersInit ==
  /\ raw = [r \in Raws |-> "new"]
  /\ letter = [r \in Raws |-> NoLetter]
  /\ facts = {}
  /\ edges = {}
  /\ heavy = "free"
  /\ job = IdleJob
  /\ work = IdleWork
  /\ unmarked = {}
  /\ crashes = 0

-----------------------------------------------------------------------------
(* What normalizing the records "read" does when it rejects "bad": rejected
   ones get a letter, unless they have one that is closed; the others become
   rows with an edge to their evidence. *)
WithLetters(bad) ==
  [r \in Raws |->
    IF r \notin bad THEN letter[r]
    ELSE IF letter[r].st = "none" THEN NewLetter
    ELSE IF letter[r].st \in {"pending", "retrying"} THEN [letter[r] EXCEPT !.st = "pending"]
    ELSE letter[r]]

Store(read, bad) ==
  LET good == read \ bad IN
  /\ letter' = WithLetters(bad)
  /\ facts' = facts \union {FactOf[r] : r \in good}
  /\ edges' = edges \union {<<FactOf[r], r>> : r \in good}
  /\ raw' = raw

-----------------------------------------------------------------------------
(* The dead-letter job. *)

\* run_dead_letter_reprocessing: both locks are free and nothing pauses the job.
LettersBegin ==
  /\ job.at = "idle" /\ heavy = "free"
  /\ heavy' = "letters"
  /\ job' = [job EXCEPT !.at = "scope"]
  /\ UNCHANGED <<rows, work, unmarked, crashes>>

OutOfScope(r) == RunOf[r] \in Disabled \/ raw[r] # "new"

\* _quarantine_out_of_scope: at most a batch of the pending letters.
QuarantineOutOfScope ==
  LET out == {r \in Having("pending") : OutOfScope(r)} IN
  /\ job.at = "scope"
  /\ \E q \in SUBSET out :
       /\ q = out \/ Cardinality(q) = Batch
       /\ Cardinality(q) <= Batch
       /\ letter' = [r \in Raws |-> IF r \in q
            THEN Closed(letter[r], "quarantined") ELSE letter[r]]
       /\ job' = IF Cardinality(q) < Batch
                 THEN [job EXCEPT !.at = "claim", !.room = Batch - Cardinality(q)]
                 ELSE IdleJob
       /\ heavy' = IF Cardinality(q) < Batch THEN heavy ELSE "free"
  /\ UNCHANGED <<raw, facts, edges, work, unmarked, crashes>>

Abandoned(r) == letter[r].st = "retrying" /\ letter[r].claimed # "recent"
Claimable(r) == RunOf[r] \notin Disabled /\ raw[r] \in {"new", "superseded"}

\* _claim_batch: abandoned claims are taken back, then letters of one run claimed.
ClaimBatch ==
  LET lost == {r \in Raws : Abandoned(r)} IN
  /\ job.at = "claim"
  /\ \E back \in SUBSET lost :
       /\ back = lost \/ Cardinality(back) = job.room
       /\ Cardinality(back) <= job.room
       /\ LET freed == [r \in Raws |-> IF r \in back
                THEN [letter[r] EXCEPT !.st = "pending", !.due = TRUE] ELSE letter[r]]
              ready == {r \in Raws : freed[r].st = "pending" /\ freed[r].due /\ Claimable(r)}
          IN \/ /\ ready = {}
                /\ letter' = freed
                /\ job' = IdleJob /\ heavy' = "free"
             \/ \E group \in SUBSET ready \ {{}} :
                  /\ \E r \in group :
                       LET mates == {s \in ready : RunOf[s] = RunOf[r]} IN
                       /\ group \subseteq mates
                       /\ group = mates \/ Cardinality(group) = job.room
                  /\ Cardinality(group) <= job.room
                  /\ letter' = [r \in Raws |-> IF r \notin group THEN freed[r]
                       ELSE [st |-> "retrying", tries |-> freed[r].tries + 1,
                             due |-> TRUE, claimed |-> "recent"]]
                  /\ job' = [at |-> "replay", group |-> group, room |-> 0]
                  /\ heavy' = heavy
  /\ UNCHANGED <<raw, facts, edges, work, unmarked, crashes>>

\* _release_unprocessed: paused before the group was worked on.
PauseBeforeReplay ==
  /\ job.at = "replay"
  /\ letter' = [r \in Raws |->
       IF r \in job.group /\ letter[r].st = "retrying"
       THEN [letter[r] EXCEPT !.st = "pending", !.tries = @ - 1, !.due = TRUE]
       ELSE letter[r]]
  /\ job' = IdleJob /\ heavy' = "free"
  /\ UNCHANGED <<raw, facts, edges, work, unmarked, crashes>>

\* reprocess_normalization_run: the records of the group, or the whole run.
Replayed ==
  LET run == CHOOSE x \in {RunOf[r] : r \in job.group} : TRUE
  IN IF run \in RowReplay THEN job.group ELSE RecordsOf(run)

\* mutant of Replay: the products are not marked after a replay
ReplayUnmarked ==
  /\ job.at = "replay"
  /\ \E bad \in SUBSET Replayed :
       Store(Replayed, bad) /\ unmarked' = unmarked \union (Replayed \ bad)
  /\ job' = [job EXCEPT !.at = "outcome"]
  /\ UNCHANGED <<heavy, work, crashes>>

\* The normalizer returns; a record of the group may be rejected again.
Replay ==
  /\ job.at = "replay"
  /\ \E bad \in SUBSET Replayed :
       Store(Replayed, bad) /\ unmarked' = unmarked \union (Replayed \ bad)
  /\ job' = [job EXCEPT !.at = "mark"]
  /\ UNCHANGED <<heavy, work, crashes>>

\* The normalizer raises; of its work only letters may have been committed.
ReplayRaises ==
  /\ job.at = "replay"
  /\ \E bad \in SUBSET Replayed : letter' = WithLetters(bad)
  /\ job' = [job EXCEPT !.at = "failed"]
  /\ UNCHANGED <<raw, facts, edges, heavy, work, unmarked, crashes>>

\* mark_products_dirty, before any letter is resolved; skipped when none will be.
MarkReplayed ==
  /\ job.at = "mark"
  /\ IF job.group \intersect Having("retrying") # {}
     THEN unmarked' = {} ELSE UNCHANGED unmarked
  /\ job' = [job EXCEPT !.at = "outcome"]
  /\ UNCHANGED <<rows, heavy, work, crashes>>

MarkRaises ==
  /\ job.at = "mark" /\ job.group \intersect Having("retrying") # {}
  /\ job' = [job EXCEPT !.at = "failed"]
  /\ UNCHANGED <<rows, heavy, work, unmarked, crashes>>

\* mutant of Retried: the failure counts as an attempt, as the claim did
RetriedCountedTwice(row) ==
  IF row.tries >= MaxAttempts
  THEN Closed(row, "quarantined")
  ELSE [row EXCEPT !.st = "pending", !.tries = @ + 1, !.due = FALSE]

\* _schedule_retry: the last attempt quarantines, an earlier one backs off.
Retried(row) ==
  IF row.tries >= MaxAttempts
  THEN Closed(row, "quarantined")
  ELSE [row EXCEPT !.st = "pending", !.due = FALSE]

\* _record_normalizer_outcome
RecordOutcome ==
  /\ job.at = "outcome"
  /\ letter' = [r \in Raws |->
       IF r \notin job.group THEN letter[r]
       ELSE IF letter[r].st = "retrying" THEN Closed(letter[r], "resolved")
       ELSE IF letter[r].st = "pending" THEN Retried(letter[r])
       ELSE letter[r]]
  /\ job' = IdleJob /\ heavy' = "free"
  /\ UNCHANGED <<raw, facts, edges, work, unmarked, crashes>>

\* _record_failure
RecordFailure ==
  /\ job.at = "failed"
  /\ letter' = [r \in Raws |->
       IF r \in job.group /\ letter[r].st \in {"pending", "retrying"}
       THEN Retried(letter[r]) ELSE letter[r]]
  /\ job' = IdleJob /\ heavy' = "free"
  /\ UNCHANGED <<raw, facts, edges, work, unmarked, crashes>>

-----------------------------------------------------------------------------
(* normalize_run: the records of a run, by the source job that fetched it. *)

\* The run's pending letters are set aside, without a time of claim.
RunBegin(run) ==
  /\ work.at = "idle" /\ heavy = "free"
  /\ RecordsOf(run) # {}
  /\ LET mine == RecordsOf(run) \intersect Having("pending") IN
       /\ letter' = [r \in Raws |->
            IF r \in mine THEN [letter[r] EXCEPT !.st = "retrying"] ELSE letter[r]]
       /\ work' = [at |-> "store", run |-> run, mine |-> mine]
  /\ heavy' = "source"
  /\ UNCHANGED <<raw, facts, edges, job, unmarked, crashes>>

RunStore ==
  /\ work.at = "store"
  /\ \E bad \in SUBSET RecordsOf(work.run) : Store(RecordsOf(work.run), bad)
  /\ work' = [work EXCEPT !.at = "settle"]
  /\ UNCHANGED <<heavy, job, unmarked, crashes>>

\* The normalizer raised: what is still set aside becomes pending again.
RunRaises ==
  /\ work.at = "store"
  /\ \E bad \in SUBSET RecordsOf(work.run) :
       letter' = [r \in Raws |->
         IF r \in work.mine THEN [letter[r] EXCEPT !.st = "pending"] ELSE WithLetters(bad)[r]]
  /\ work' = IdleWork /\ heavy' = "free"
  /\ UNCHANGED <<raw, facts, edges, job, unmarked, crashes>>

\* What was not rejected again is resolved.  The source job goes on to mark the
\* products: SourcePipeline shows that it does, so its records are not in unmarked.
RunSettle ==
  /\ work.at = "settle"
  /\ letter' = [r \in Raws |->
       IF r \in work.mine /\ letter[r].st = "retrying"
       THEN Closed(letter[r], "resolved") ELSE letter[r]]
  /\ work' = IdleWork /\ heavy' = "free"
  /\ UNCHANGED <<raw, facts, edges, job, unmarked, crashes>>

-----------------------------------------------------------------------------
(* Time, and crashes. *)

\* A process dies: its locks go with it, its rows stay.
LettersCrash ==
  /\ crashes < MaxCrashes
  /\ \/ job.at # "idle" /\ job' = IdleJob /\ UNCHANGED work
     \/ work.at # "idle" /\ work' = IdleWork /\ UNCHANGED job
  /\ heavy' = "free"
  /\ crashes' = crashes + 1
  /\ UNCHANGED <<rows, unmarked>>

\* 30 minutes after a claim, or the end of a backoff.  The group a job is at
\* work on is not among them: a batch ends well within 30 minutes.
TimeOut(r) ==
  /\ \/ letter[r].claimed = "recent" /\ r \notin job.group
        /\ letter' = [letter EXCEPT ![r].claimed = "old"]
     \/ ~letter[r].due /\ letter' = [letter EXCEPT ![r].due = TRUE]
  /\ UNCHANGED <<raw, facts, edges, heavy, job, work, unmarked, crashes>>

\* A later record of a catalog entry arrives, or the record turns 30 days old.
Outdate(r) ==
  /\ \/ raw[r] = "new" /\ RunOf[r] \in Catalog /\ heavy = "free"
        /\ raw' = [raw EXCEPT ![r] = "superseded"]
     \/ raw[r] \in {"new", "superseded"} /\ raw' = [raw EXCEPT ![r] = "expired"]
  /\ UNCHANGED <<letter, facts, edges, heavy, job, work, unmarked, crashes>>

LettersNext ==
  \/ LettersBegin \/ QuarantineOutOfScope \/ ClaimBatch \/ PauseBeforeReplay
  \/ Replay \/ ReplayRaises \/ MarkReplayed \/ MarkRaises
  \/ RecordOutcome \/ RecordFailure
  \/ \E run \in {RunOf[r] : r \in Raws} : RunBegin(run)
  \/ RunStore \/ RunRaises \/ RunSettle
  \/ LettersCrash
  \/ \E r \in Raws : TimeOut(r) \/ Outdate(r)

LettersSpec == LettersInit /\ [][LettersNext]_lettersVars

-----------------------------------------------------------------------------
LettersTypeOK ==
  /\ raw \in [Raws -> {"new", "superseded", "expired", "gone"}]
  /\ letter \in [Raws -> [st : Statuses, tries : Nat, due : BOOLEAN,
                          claimed : {"never", "recent", "old"}]]
  /\ facts \subseteq Facts
  /\ edges \subseteq Facts \X Raws
  /\ heavy \in {"free", "letters", "source", "retention"}
  /\ job \in [at : {"idle", "scope", "claim", "replay", "mark", "outcome", "failed"},
              group : SUBSET Raws, room : Nat]
  /\ work.at \in {"idle", "store", "settle"} /\ work.mine \subseteq Raws
  /\ unmarked \subseteq Raws
  /\ crashes \in Nat

\* A letter is tried again at most MaxAttempts times, however claims, pauses,
\* failures and normalizations of its run alternate; only a crash after the
\* claim may cost one attempt more (the count is not tested by a claim).
AttemptsBounded ==
  \A r \in Raws : letter[r].tries <= MaxAttempts + crashes

\* When the dead-letter job resolves a letter, the products of its source have
\* been marked since the record was stored: a crash between the steps repeats
\* work but never leaves a repaired record out of the products.
ResolvedIsMarked ==
  [][\A r \in job.group :
       letter[r].st = "retrying" /\ letter'[r].st = "resolved" => r \notin unmarked]_lettersVars

=============================================================================
