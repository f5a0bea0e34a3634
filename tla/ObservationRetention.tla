------------------------ MODULE ObservationRetention ------------------------
(***************************************************************************)
(* Retention of normalized rows, letters and raw records                   *)
(* (ingestion/retention.py) beside the jobs of DeadLetters that create     *)
(* them and the publication of snapshots that refer to them.  Everything   *)
(* runs under eden:heavy-write; a pass may stop between any two            *)
(* transactions, and a batch may leave a row with part of its edges.       *)
(* How old a row or a letter is is not kept: the ones past their cutoff    *)
(* may be any.                                                             *)
(***************************************************************************)
EXTENDS DeadLetters

CONSTANT MaxSnapshots   \* bound: snapshots that exist at a time

ASSUME RetentionAssumption == MaxSnapshots \in Nat

VARIABLES
  snapshots,   \* [refs: rows named in normalized_references, raws: provenance]
  pass         \* the retention pass: [at, kept: rows found to be referenced]

retentionVars == <<snapshots, pass>>
IdlePass == [at |-> "idle", kept |-> {}]

\* At most "limit" elements of S, all of S when it is no larger.
Batches(S, limit) ==
  {b \in SUBSET S : b = S \/ Cardinality(b) = limit} \intersect
  {b \in SUBSET S : Cardinality(b) <= limit}

RetentionInit ==
  /\ LettersInit
  /\ snapshots = {}
  /\ pass = IdlePass

-----------------------------------------------------------------------------
\* run_snapshot_retention reaches retain_observations with both of its locks.
RetainBegin ==
  /\ pass.at = "idle" /\ heavy = "free"
  /\ heavy' = "retention"
  /\ pass' = [at |-> "protect", kept |-> {}]
  /\ UNCHANGED <<rows, job, work, unmarked, crashes, snapshots>>

\* A deadline or a pause ends the pass; before the references are all read,
\* nothing has been deleted.
RetainStop ==
  /\ pass.at # "idle"
  /\ pass' = IdlePass /\ heavy' = "free"
  /\ UNCHANGED <<rows, job, work, unmarked, crashes, snapshots>>

\* mutant of RetainProtect: a deadline ends the reading, and deletion goes on
RetainProtectSome ==
  /\ pass.at = "protect"
  /\ \E s \in SUBSET snapshots :
       pass' = [at |-> "facts", kept |-> UNION {x.refs : x \in s}]
  /\ UNCHANGED <<rows, heavy, job, work, unmarked, crashes, snapshots>>

\* The references of every snapshot, whatever its status.
RetainProtect ==
  /\ pass.at = "protect"
  /\ pass' = [at |-> "facts", kept |-> UNION {s.refs : s \in snapshots}]
  /\ UNCHANGED <<rows, heavy, job, work, unmarked, crashes, snapshots>>

\* One policy: a batch of edges goes, then the rows that have no edge left.
RetainFacts ==
  /\ pass.at = "facts"
  /\ \E old \in SUBSET (facts \ pass.kept) :
     \E cut \in Batches({e \in edges : e[1] \in old}, Batch) :
       /\ Cardinality(old) <= Batch
       /\ edges' = edges \ cut
       /\ facts' = facts \ {f \in old : \A e \in edges' : e[1] # f}
  /\ pass' = [at |-> "letters", kept |-> {}]
  /\ UNCHANGED <<raw, letter, heavy, job, work, unmarked, crashes, snapshots>>

\* Letters older than 30 days, hence of expired records, go in whatever status
\* they are: the status "processing" that is spared is one that nothing sets.
RetainLetters ==
  /\ pass.at = "letters"
  /\ \E old \in SUBSET {r \in Raws : letter[r].st # "none" /\ raw[r] = "expired"} :
       /\ Cardinality(old) <= Batch
       /\ letter' = [r \in Raws |-> IF r \in old THEN NoLetter ELSE letter[r]]
  /\ pass' = [pass EXCEPT !.at = "raws"]
  /\ UNCHANGED <<raw, facts, edges, heavy, job, work, unmarked, crashes, snapshots>>

\* A raw record goes once no row, snapshot or letter refers to it.
RetainRaws ==
  /\ pass.at = "raws"
  /\ LET free == {r \in Raws :
           /\ raw[r] = "expired"
           /\ \A e \in edges : e[2] # r
           /\ \A s \in snapshots : r \notin s.raws
           /\ letter[r].st = "none"}
     IN \E old \in Batches(free, Batch) :
          raw' = [r \in Raws |-> IF r \in old THEN "gone" ELSE raw[r]]
  /\ pass' = IdlePass /\ heavy' = "free"
  /\ UNCHANGED <<letter, facts, edges, job, work, unmarked, crashes, snapshots>>

-----------------------------------------------------------------------------
\* A product job publishes a snapshot of some rows: their names go to its
\* references, the raw records behind their edges to its provenance.
PublishSnapshot ==
  /\ heavy = "free" /\ Cardinality(snapshots) < MaxSnapshots
  /\ \E refs \in SUBSET facts \ {{}} :
       snapshots' = snapshots \union
         {[refs |-> refs, raws |-> {e[2] : e \in {x \in edges : x[1] \in refs}}]}
  /\ UNCHANGED <<rows, heavy, job, work, unmarked, crashes, pass>>

\* retain_snapshots deletes a snapshot and its provenance.
DropSnapshot ==
  /\ heavy = "free"
  /\ \E s \in snapshots : snapshots' = snapshots \ {s}
  /\ UNCHANGED <<rows, heavy, job, work, unmarked, crashes, pass>>

RetentionNext ==
  \/ LettersNext /\ UNCHANGED retentionVars
  \/ RetainBegin \/ RetainStop \/ RetainProtect
  \/ RetainFacts \/ RetainLetters \/ RetainRaws
  \/ PublishSnapshot \/ DropSnapshot

RetentionSpec == RetentionInit /\ [][RetentionNext]_<<lettersVars, retentionVars>>

-----------------------------------------------------------------------------
RetentionTypeOK ==
  /\ LettersTypeOK
  /\ snapshots \subseteq [refs : SUBSET Facts, raws : SUBSET Raws]
  /\ pass \in [at : {"idle", "protect", "facts", "letters", "raws"}, kept : SUBSET Facts]

\* What a snapshot shows can be traced: the rows it names exist, and every row
\* still has an edge to a raw record that exists, although passes stop halfway,
\* edges go in batches and snapshots come and go between passes.
Traceable ==
  /\ \A s \in snapshots : s.refs \subseteq facts /\ \A r \in s.raws : raw[r] # "gone"
  /\ \A f \in facts : \E e \in edges : e[1] = f
  /\ \A e \in edges : raw[e[2]] # "gone"

=============================================================================
