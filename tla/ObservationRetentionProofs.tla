---------------------- MODULE ObservationRetentionProofs ----------------------
(***************************************************************************)
(* Proofs about the dead-letter job and the retention of observations for  *)
(* every set of records, rows and runs, every batch size and number of     *)
(* attempts.                                                               *)
(***************************************************************************)
EXTENDS ObservationRetention, FiniteSetTheorems, TLAPS

LEMMA Numbers == MaxAttempts \in Nat \ {0} /\ Batch \in Nat \ {0} /\ MaxCrashes \in Nat
  BY LettersAssumption DEF LettersAssumption

LEMMA RowType == \A r \in Raws : FactOf[r] \in Facts
  BY LettersAssumption DEF LettersAssumption

LEMMA CardinalityType == \A q \in SUBSET Raws : Cardinality(q) \in Nat
  BY LettersAssumption, FS_Subset, FS_CardinalityType DEF LettersAssumption

USE Numbers

LetterRow == [st : Statuses, tries : Nat, due : BOOLEAN, claimed : {"never", "recent", "old"}]
WorkRecord == [at : {"idle", "store", "settle"},
               run : {RunOf[r] : r \in Raws} \union {{}}, mine : SUBSET Raws]
JobRecord ==
  [at : {"idle", "scope", "claim", "replay", "mark", "outcome", "failed"},
   group : SUBSET Raws, room : Nat]

Typed == RetentionTypeOK /\ work \in WorkRecord

\* Who works holds eden:heavy-write, and only he: what a source job has set aside
\* stays so until it stores its records.
Exclusive ==
  /\ heavy = "letters" <=> job.at # "idle"
  /\ heavy = "source" <=> work.at # "idle"
  /\ heavy = "retention" <=> pass.at # "idle"
  /\ work.at = "store" => \A r \in work.mine : letter[r].st = "retrying"

\* The letters a job has claimed are its own until it records their outcome.
GroupHeld ==
  /\ job.at \in {"idle", "scope", "claim"} => job.group = {}
  /\ \A r \in job.group :
       /\ raw[r] # "gone"
       /\ job.at = "replay" => letter[r].st = "retrying" /\ letter[r].tries > 0
       /\ job.at = "outcome" /\ letter[r].st = "retrying" => r \notin unmarked

\* A letter that may still be claimed has an attempt left, unless it is claimed.
AttemptLeft ==
  \A r \in Raws :
    letter[r].st \in {"pending", "retrying"} /\ r \notin job.group =>
      letter[r].tries < MaxAttempts + crashes
Bounded == AttemptsBounded /\ AttemptLeft

\* What a pass deletes rows by is still what snapshots refer to.
Protected == pass.at = "facts" => \A s \in snapshots : s.refs \subseteq pass.kept

LettersSafe == Typed /\ Exclusive /\ GroupHeld /\ Bounded
RetentionSafe == LettersSafe /\ Protected /\ Traceable

-----------------------------------------------------------------------------
\* Normalization gives typed letters, and no letter of a group more attempts.
LEMMA WithLettersType ==
  ASSUME Typed, NEW bad \in SUBSET Raws
  PROVE  /\ WithLetters(bad) \in [Raws -> LetterRow]
         /\ \A r \in Raws :
              /\ WithLetters(bad)[r].tries = letter[r].tries \/ WithLetters(bad)[r].tries = 0
              /\ WithLetters(bad)[r].st = letter[r].st
                   \/ (WithLetters(bad)[r].st = "pending"
                       /\ letter[r].st \in {"pending", "retrying"})
                   \/ (WithLetters(bad)[r].st = "pending" /\ WithLetters(bad)[r].tries = 0)
<1> DEFINE W == WithLetters(bad)
<1>1. letter \in [Raws -> LetterRow]
  BY DEF Typed, RetentionTypeOK, LettersTypeOK, LetterRow
<1>2. ASSUME NEW r \in Raws
      PROVE  /\ W[r] \in LetterRow
             /\ W[r].tries = letter[r].tries \/ W[r].tries = 0
             /\ \/ W[r].st = letter[r].st
                \/ W[r].st = "pending" /\ letter[r].st \in {"pending", "retrying"}
                \/ W[r].st = "pending" /\ W[r].tries = 0
  <2>1. letter[r] \in LetterRow
    BY <1>1
  <2>2. NewLetter \in LetterRow /\ NewLetter.tries = 0 /\ NewLetter.st = "pending"
    BY DEF NewLetter, NoLetter, LetterRow, Statuses
  <2>3. W[r] = letter[r] \/ W[r] = NewLetter
          \/ (letter[r].st \in {"pending", "retrying"} /\ W[r] = [letter[r] EXCEPT !.st = "pending"])
    BY DEF WithLetters
  <2>4. QED
    BY <2>1, <2>2, <2>3 DEF LetterRow, Statuses
<1>3. W \in [Raws -> LetterRow]
  BY <1>2 DEF WithLetters
<1>4. QED
  BY <1>2, <1>3

LEMMA ClosedType ==
  ASSUME NEW row \in LetterRow, NEW status \in {"resolved", "quarantined"}
  PROVE  /\ Closed(row, status) \in LetterRow
         /\ Closed(row, status).tries = row.tries
         /\ Closed(row, status).st = status
  BY DEF Closed, LetterRow, Statuses

LEMMA RetriedType ==
  ASSUME NEW row \in LetterRow
  PROVE  /\ Retried(row) \in LetterRow
         /\ Retried(row).tries = row.tries
         /\ \/ Retried(row).st = "quarantined"
            \/ Retried(row).st = "pending" /\ row.tries < MaxAttempts
  <1>1. CASE row.tries >= MaxAttempts
    BY <1>1, ClosedType DEF Retried
  <1>2. CASE ~(row.tries >= MaxAttempts)
    <2>1. Retried(row) = [row EXCEPT !.st = "pending", !.due = FALSE]
      BY <1>2 DEF Retried
    <2>2. row.tries \in Nat /\ row.tries < MaxAttempts
      BY <1>2 DEF LetterRow
    <2>3. QED
      BY <2>1, <2>2 DEF LetterRow, Statuses
  <1>3. QED
    BY <1>1, <1>2

\* Rows and edges stay typed and traceable when existing records are stored.
LEMMA StoreTraces ==
  ASSUME Typed, Traceable, NEW read \in SUBSET Raws, NEW bad \in SUBSET read,
         \A r \in read : raw[r] # "gone",
         Store(read, bad), UNCHANGED snapshots
  PROVE  /\ Traceable'
         /\ facts' \subseteq Facts /\ edges' \subseteq Facts \X Raws
         /\ raw' = raw /\ letter' = WithLetters(bad)
<1> DEFINE good == read \ bad
<1>1. /\ facts' = facts \union {FactOf[r] : r \in good}
      /\ edges' = edges \union {<<FactOf[r], r>> : r \in good}
      /\ raw' = raw /\ letter' = WithLetters(bad)
  BY DEF Store
<1>2. \A r \in good : r \in Raws /\ raw[r] # "gone"
  OBVIOUS
<1>3. facts' \subseteq Facts /\ edges' \subseteq Facts \X Raws
  <2>1. \A r \in good : FactOf[r] \in Facts /\ <<FactOf[r], r>> \in Facts \X Raws
    BY <1>2, RowType
  <2>2. {FactOf[r] : r \in good} \subseteq Facts
    BY <2>1
  <2>3. {<<FactOf[r], r>> : r \in good} \subseteq Facts \X Raws
    BY <2>1
  <2>4. facts \subseteq Facts /\ edges \subseteq Facts \X Raws
    BY DEF Typed, RetentionTypeOK, LettersTypeOK
  <2>5. QED
    BY <1>1, <2>2, <2>3, <2>4
<1>4. \A f \in facts' : \E e \in edges' : e[1] = f
  <2> SUFFICES ASSUME NEW f \in facts' PROVE \E e \in edges' : e[1] = f
    OBVIOUS
  <2>1. CASE f \in facts
    BY <2>1, <1>1 DEF Traceable
  <2>2. CASE \E r \in good : f = FactOf[r]
    <3>1. PICK r \in good : f = FactOf[r]
      BY <2>2
    <3>2. <<f, r>> \in edges' /\ <<f, r>>[1] = f
      BY <3>1, <1>1
    <3>3. QED
      BY <3>2
  <2>3. QED
    BY <2>1, <2>2, <1>1
<1>5. \A e \in edges' : raw'[e[2]] # "gone"
  BY <1>1, <1>2 DEF Traceable
<1>6. \A s \in snapshots' : s.refs \subseteq facts' /\ \A r \in s.raws : raw'[r] # "gone"
  BY <1>1 DEF Traceable
<1>7. QED
  BY <1>1, <1>3, <1>4, <1>5, <1>6 DEF Traceable

-----------------------------------------------------------------------------
(* The parts of the invariant, as steps of one kind leave them. *)

\* A step that leaves the letters' rows and jobs alone.
LEMMA JobsKept ==
  ASSUME LettersSafe,
         UNCHANGED <<letter, job, work, unmarked, crashes>>,
         \A r \in Raws : raw'[r] = "gone" => raw[r] = "gone" \/ job.group = {}
  PROVE  GroupHeld' /\ Bounded'
<1>1. job.group \subseteq Raws
  BY DEF LettersSafe, Typed, RetentionTypeOK, LettersTypeOK
<1>2. GroupHeld'
  BY <1>1 DEF LettersSafe, GroupHeld
<1>3. Bounded'
  BY DEF LettersSafe, Bounded, AttemptsBounded, AttemptLeft
<1>4. QED
  BY <1>2, <1>3

\* A step of the dead-letter job or of a source job leaves snapshots alone.
LEMMA SnapshotsKept ==
  ASSUME Protected, Traceable, UNCHANGED <<snapshots, pass, facts, edges>>,
         \A r \in Raws : raw'[r] = "gone" => raw[r] = "gone", Typed
  PROVE  Protected' /\ Traceable'
<1>1. \A e \in edges : e[2] \in Raws
  <2>1. edges \subseteq Facts \X Raws
    BY DEF Typed, RetentionTypeOK, LettersTypeOK
  <2>2. QED
    BY <2>1
<1>2. \A s \in snapshots : s.raws \subseteq Raws
  BY DEF Typed, RetentionTypeOK
<1>3. QED
  BY <1>1, <1>2 DEF Protected, Traceable

\* How often a letter was tried is a number.
LEMMA TriesType ==
  ASSUME Typed, NEW r \in Raws
  PROVE  letter[r] \in LetterRow /\ letter[r].tries \in Nat /\ crashes \in Nat
  BY DEF Typed, RetentionTypeOK, LettersTypeOK, LetterRow

LEMMA Initially == RetentionInit => RetentionSafe
<1> SUFFICES ASSUME RetentionInit PROVE RetentionSafe
  OBVIOUS
<1> USE DEF RetentionInit, LettersInit, IdleJob, IdleWork, IdlePass
<1>1. NoLetter \in LetterRow /\ NoLetter.tries = 0 /\ NoLetter.st = "none"
  BY DEF NoLetter, LetterRow, Statuses
<1>2. Typed
  BY <1>1 DEF Typed, RetentionTypeOK, LettersTypeOK, WorkRecord, LetterRow
<1>3. Exclusive /\ GroupHeld /\ Protected /\ Traceable
  BY DEF Exclusive, GroupHeld, Protected, Traceable
<1>4. Bounded
  BY <1>1 DEF Bounded, AttemptsBounded, AttemptLeft
<1>5. QED
  BY <1>2, <1>3, <1>4 DEF RetentionSafe, LettersSafe

-----------------------------------------------------------------------------
(* The dead-letter job. *)

LEMMA BeginSafe ==
  ASSUME RetentionSafe, LettersBegin, UNCHANGED retentionVars
  PROVE  RetentionSafe'
<1> USE DEF RetentionSafe, LettersSafe, LettersBegin, retentionVars, rows
<1>1. Typed'
  BY DEF Typed, RetentionTypeOK, LettersTypeOK
<1>2. Exclusive'
  BY DEF Exclusive, Typed, RetentionTypeOK, LettersTypeOK
<1>3. job'.group = {} /\ job.group = {}
  BY DEF GroupHeld, Typed, RetentionTypeOK, LettersTypeOK
<1>4. GroupHeld' /\ Bounded'
  BY <1>3 DEF GroupHeld, Bounded, AttemptsBounded, AttemptLeft
<1>5. QED
  BY <1>1, <1>2, <1>4, SnapshotsKept

\* What every step of a job that is at work and stores no rows leaves in order.
LEMMA JobStep ==
  ASSUME RetentionSafe, job.at # "idle",
         letter' \in [Raws -> LetterRow], job' \in JobRecord, unmarked' \subseteq Raws,
         \/ job'.at # "idle" /\ heavy' = heavy
         \/ job'.at = "idle" /\ heavy' = "free",
         UNCHANGED <<raw, facts, edges, work, crashes, snapshots, pass>>
  PROVE  Typed' /\ Exclusive' /\ Protected' /\ Traceable'
<1> USE DEF RetentionSafe, LettersSafe
<1>1. Typed'
  BY DEF Typed, RetentionTypeOK, LettersTypeOK, LetterRow, JobRecord
<1>2. Exclusive'
  BY DEF Exclusive
<1>3. QED
  BY <1>1, <1>2, SnapshotsKept

\* A job that ends leaves no letter without an attempt to be claimed.
LEMMA JobEnd ==
  ASSUME job' = IdleJob, UNCHANGED crashes,
         \A r \in Raws :
           /\ letter'[r].tries <= MaxAttempts + crashes
           /\ letter'[r].st \in {"pending", "retrying"} =>
                letter'[r].tries < MaxAttempts + crashes
  PROVE  GroupHeld' /\ Bounded'
<1>1. job'.group = {} /\ job'.at = "idle"
  BY DEF IdleJob
<1>2. QED
  BY <1>1 DEF GroupHeld, Bounded, AttemptsBounded, AttemptLeft

LEMMA IdleJobType == IdleJob \in JobRecord /\ IdleJob.at = "idle"
  BY DEF IdleJob, JobRecord

LEMMA QuarantineSafe ==
  ASSUME RetentionSafe, QuarantineOutOfScope, UNCHANGED retentionVars
  PROVE  RetentionSafe'
<1> USE DEF RetentionSafe, LettersSafe
<1>1. job.at = "scope" /\ job.group = {} /\ job \in JobRecord
  BY DEF QuarantineOutOfScope, GroupHeld, Typed, RetentionTypeOK, LettersTypeOK, JobRecord
<1>2. PICK q \in SUBSET {r \in Having("pending") : OutOfScope(r)} :
        /\ letter' = [r \in Raws |-> IF r \in q
             THEN Closed(letter[r], "quarantined") ELSE letter[r]]
        /\ job' = IF Cardinality(q) < Batch
                  THEN [job EXCEPT !.at = "claim", !.room = Batch - Cardinality(q)]
                  ELSE IdleJob
        /\ heavy' = IF Cardinality(q) < Batch THEN heavy ELSE "free"
  BY DEF QuarantineOutOfScope
<1>3. UNCHANGED <<raw, facts, edges, work, unmarked, crashes, snapshots, pass>>
  BY DEF QuarantineOutOfScope, retentionVars
<1>4. q \in SUBSET Raws
  BY DEF Having
<1>5. \A r \in Raws :
        /\ letter'[r] \in LetterRow /\ letter'[r].tries = letter[r].tries
        /\ letter'[r].st \in {"pending", "retrying"} =>
             letter[r].st \in {"pending", "retrying"}
  BY <1>2, TriesType, ClosedType
<1>6. letter' \in [Raws -> LetterRow]
  BY <1>2, <1>5
<1>7. \/ /\ job' = [job EXCEPT !.at = "claim", !.room = Batch - Cardinality(q)]
         /\ Cardinality(q) < Batch /\ heavy' = heavy
      \/ job' = IdleJob /\ heavy' = "free"
  BY <1>2
<1>8. /\ job' \in JobRecord /\ job'.group = {} /\ job'.at \in {"claim", "idle"}
      /\ \/ job'.at # "idle" /\ heavy' = heavy
         \/ job'.at = "idle" /\ heavy' = "free"
  <2>1. Cardinality(q) < Batch => Batch - Cardinality(q) \in Nat
    BY <1>4, CardinalityType
  <2>2. CASE Cardinality(q) < Batch
    <3>1. job' = [job EXCEPT !.at = "claim", !.room = Batch - Cardinality(q)]
          /\ heavy' = heavy
      BY <1>2, <2>2
    <3>2. QED
      BY <1>1, <2>1, <2>2, <3>1 DEF JobRecord
  <2>3. CASE ~(Cardinality(q) < Batch)
    BY <1>2, <2>3, IdleJobType DEF IdleJob
  <2>4. QED
    BY <2>2, <2>3
<1>9. Typed' /\ Exclusive' /\ Protected' /\ Traceable'
  <2>1. unmarked' \subseteq Raws
    BY <1>3 DEF Typed, RetentionTypeOK, LettersTypeOK
  <2>2. QED
    BY <1>1, <1>3, <1>6, <1>8, <2>1, JobStep
<1>10. GroupHeld' /\ Bounded'
  BY <1>1, <1>3, <1>5, <1>8 DEF GroupHeld, Bounded, AttemptsBounded, AttemptLeft
<1>11. QED
  BY <1>9, <1>10

LEMMA ClaimSafe ==
  ASSUME RetentionSafe, ClaimBatch, UNCHANGED retentionVars
  PROVE  RetentionSafe'
<1> USE DEF RetentionSafe, LettersSafe
<1> DEFINE freed(back) == [r \in Raws |-> IF r \in back
             THEN [letter[r] EXCEPT !.st = "pending", !.due = TRUE] ELSE letter[r]]
           ready(back) == {r \in Raws :
             freed(back)[r].st = "pending" /\ freed(back)[r].due /\ Claimable(r)}
           claimed(row) ==
             [st |-> "retrying", tries |-> row.tries + 1, due |-> TRUE, claimed |-> "recent"]
<1>1. job.at = "claim" /\ job.group = {} /\ job \in JobRecord
  BY DEF ClaimBatch, GroupHeld, Typed, RetentionTypeOK, LettersTypeOK, JobRecord
<1>2. UNCHANGED <<raw, facts, edges, work, unmarked, crashes, snapshots, pass>>
  BY DEF ClaimBatch, retentionVars
<1>3. PICK back \in SUBSET {r \in Raws : Abandoned(r)} :
        \/ letter' = freed(back) /\ job' = IdleJob /\ heavy' = "free"
        \/ \E group \in SUBSET ready(back) \ {{}} :
             /\ letter' = [r \in Raws |->
                  IF r \notin group THEN freed(back)[r] ELSE claimed(freed(back)[r])]
             /\ job' = [at |-> "replay", group |-> group, room |-> 0]
             /\ heavy' = heavy
  BY DEF ClaimBatch
<1> DEFINE row(r) == freed(back)[r]
<1>4. \A r \in Raws :
        /\ row(r) \in LetterRow /\ row(r).tries = letter[r].tries
        /\ row(r).st \in {"pending", "retrying"} => letter[r].st \in {"pending", "retrying"}
  <2> SUFFICES ASSUME NEW r \in Raws
               PROVE  /\ row(r) \in LetterRow /\ row(r).tries = letter[r].tries
                      /\ row(r).st \in {"pending", "retrying"} =>
                           letter[r].st \in {"pending", "retrying"}
    OBVIOUS
  <2>1. letter[r] \in LetterRow
    BY TriesType
  <2>2. CASE r \in back
    <3>1. letter[r].st = "retrying"
      BY <2>2 DEF Abandoned
    <3>2. row(r) = [letter[r] EXCEPT !.st = "pending", !.due = TRUE]
      BY <2>2
    <3>3. QED
      BY <2>1, <3>1, <3>2 DEF LetterRow, Statuses
  <2>3. CASE r \notin back
    BY <2>1, <2>3
  <2>4. QED
    BY <2>2, <2>3
<1>5. \A r \in Raws :
        /\ row(r).tries \in Nat /\ row(r).tries <= MaxAttempts + crashes
        /\ row(r).st \in {"pending", "retrying"} => row(r).tries < MaxAttempts + crashes
  BY <1>1, <1>4, TriesType DEF Bounded, AttemptsBounded, AttemptLeft
<1>6. unmarked' \subseteq Raws
  BY <1>2 DEF Typed, RetentionTypeOK, LettersTypeOK
<1>7. CASE letter' = freed(back) /\ job' = IdleJob /\ heavy' = "free"
  <2>1. letter' \in [Raws -> LetterRow]
    BY <1>4, <1>7
  <2>2. \A r \in Raws : letter'[r] = row(r)
    BY <1>7
  <2>3. GroupHeld' /\ Bounded'
    BY <1>2, <1>5, <1>7, <2>2, JobEnd
  <2>4. Typed' /\ Exclusive' /\ Protected' /\ Traceable'
    BY <1>1, <1>2, <1>6, <1>7, <2>1, JobStep, IdleJobType
  <2>5. QED
    BY <2>3, <2>4
<1>8. CASE \E group \in SUBSET ready(back) \ {{}} :
             /\ letter' = [r \in Raws |->
                  IF r \notin group THEN freed(back)[r] ELSE claimed(freed(back)[r])]
             /\ job' = [at |-> "replay", group |-> group, room |-> 0]
             /\ heavy' = heavy
  <2>1. PICK group \in SUBSET ready(back) :
             /\ letter' = [r \in Raws |-> IF r \notin group THEN row(r) ELSE claimed(row(r))]
             /\ job' = [at |-> "replay", group |-> group, room |-> 0]
             /\ heavy' = heavy
    BY <1>8
  <2>2. \A r \in Raws :
          IF r \in group THEN letter'[r] = claimed(row(r)) ELSE letter'[r] = row(r)
    BY <2>1
  <2>3. \A r \in group : row(r).st = "pending" /\ Claimable(r) /\ r \in Raws
    OBVIOUS
  <2> HIDE DEF row, ready, freed
  <2>4. \A r \in Raws :
          /\ letter'[r] \in LetterRow
          /\ r \in group => letter'[r].st = "retrying" /\ letter'[r].tries = row(r).tries + 1
          /\ r \notin group => letter'[r] = row(r)
    <3> SUFFICES ASSUME NEW r \in Raws
                 PROVE  /\ letter'[r] \in LetterRow
                        /\ r \in group => /\ letter'[r].st = "retrying"
                                          /\ letter'[r].tries = row(r).tries + 1
                        /\ r \notin group => letter'[r] = row(r)
      OBVIOUS
    <3>1. row(r) \in LetterRow /\ row(r).tries \in Nat
      BY <1>4, <1>5
    <3>2. CASE r \in group
      <4>1. letter'[r] = claimed(row(r))
        BY <2>2, <3>2
      <4>2. letter'[r].st = "retrying" /\ letter'[r].tries = row(r).tries + 1
        BY <4>1
      <4>3. letter'[r] \in LetterRow
        BY <3>1, <4>1 DEF LetterRow, Statuses
      <4>4. QED
        BY <3>2, <4>2, <4>3
    <3>3. CASE r \notin group
      BY <2>2, <3>1, <3>3
    <3>4. QED
      BY <3>2, <3>3
  <2>5. letter' \in [Raws -> LetterRow]
    BY <2>1, <2>4
  <2>6. job' \in JobRecord /\ job'.at = "replay" /\ job'.group = group
    BY <2>1, <2>3 DEF JobRecord
  <2>7. GroupHeld'
    <3>1. \A r \in group : raw'[r] # "gone"
      BY <1>2, <2>3 DEF Claimable
    <3>2. ASSUME NEW r \in group
          PROVE  letter'[r].st = "retrying" /\ letter'[r].tries > 0
      <4>1. r \in Raws /\ row(r).tries \in Nat
        BY <1>5, <2>3
      <4>2. QED
        BY <2>4, <4>1
    <3>3. QED
      BY <2>6, <3>1, <3>2 DEF GroupHeld
  <2>8. Bounded'
    <3>1. ASSUME NEW r \in Raws
          PROVE  /\ letter'[r].tries <= MaxAttempts + crashes
                 /\ r \notin group /\ letter'[r].st \in {"pending", "retrying"} =>
                      letter'[r].tries < MaxAttempts + crashes
      <4>1. crashes \in Nat /\ row(r).tries \in Nat /\ row(r).tries <= MaxAttempts + crashes
        BY <1>5, TriesType
      <4>2. CASE r \in group
        <5>1. row(r).tries < MaxAttempts + crashes
          BY <1>5, <2>3, <4>2
        <5>2. QED
          BY <2>4, <4>1, <4>2, <5>1
      <4>3. CASE r \notin group
        BY <1>5, <2>4, <4>1, <4>3
      <4>4. QED
        BY <4>2, <4>3
    <3>2. QED
      BY <1>2, <2>6, <3>1 DEF Bounded, AttemptsBounded, AttemptLeft
  <2>9. Typed' /\ Exclusive' /\ Protected' /\ Traceable'
    BY <1>1, <1>2, <1>6, <2>1, <2>5, <2>6, JobStep
  <2>10. QED
    BY <2>7, <2>8, <2>9
<1>9. QED
  BY <1>3, <1>7, <1>8

LEMMA PauseSafe ==
  ASSUME RetentionSafe, PauseBeforeReplay, UNCHANGED retentionVars
  PROVE  RetentionSafe'
<1> USE DEF RetentionSafe, LettersSafe
<1>1. job.at = "replay" /\ job' = IdleJob /\ heavy' = "free"
      /\ UNCHANGED <<raw, facts, edges, work, unmarked, crashes, snapshots, pass>>
  BY DEF PauseBeforeReplay, retentionVars
<1>2. \A r \in Raws :
        /\ r \in job.group => letter[r].tries > 0
        /\ letter'[r] = IF r \in job.group /\ letter[r].st = "retrying"
             THEN [letter[r] EXCEPT !.st = "pending", !.tries = @ - 1, !.due = TRUE]
             ELSE letter[r]
  BY <1>1 DEF PauseBeforeReplay, GroupHeld
<1>3. \A r \in Raws :
        /\ letter'[r] \in LetterRow
        /\ letter'[r].tries <= MaxAttempts + crashes
        /\ letter'[r].st \in {"pending", "retrying"} =>
             letter'[r].tries < MaxAttempts + crashes
  <2> SUFFICES ASSUME NEW r \in Raws
               PROVE  /\ letter'[r] \in LetterRow
                      /\ letter'[r].tries <= MaxAttempts + crashes
                      /\ letter'[r].st \in {"pending", "retrying"} =>
                           letter'[r].tries < MaxAttempts + crashes
    OBVIOUS
  <2>1. letter[r] \in LetterRow /\ letter[r].tries \in Nat /\ crashes \in Nat
        /\ letter[r].tries <= MaxAttempts + crashes
    BY TriesType DEF Bounded, AttemptsBounded
  <2>2. CASE r \in job.group
    <3>1. letter[r].st = "retrying" /\ letter[r].tries > 0
      BY <1>1, <2>2 DEF GroupHeld
    <3>2. letter'[r] = [letter[r] EXCEPT !.st = "pending", !.tries = @ - 1, !.due = TRUE]
      BY <1>2, <2>2, <3>1
    <3>3. /\ letter[r].tries - 1 \in Nat /\ letter[r].tries - 1 < MaxAttempts + crashes
          /\ letter'[r] = [letter[r] EXCEPT !.st = "pending",
                                           !.tries = letter[r].tries - 1, !.due = TRUE]
      BY <2>1, <3>1, <3>2
    <3>4. letter'[r] \in LetterRow /\ letter'[r].tries = letter[r].tries - 1
      BY <2>1, <3>3 DEF LetterRow, Statuses
    <3>5. QED
      BY <2>1, <3>3, <3>4
  <2>3. CASE r \notin job.group
    BY <1>2, <2>1, <2>3 DEF Bounded, AttemptLeft
  <2>4. QED
    BY <2>2, <2>3
<1>4. letter' \in [Raws -> LetterRow]
  BY <1>3 DEF PauseBeforeReplay
<1>5. unmarked' \subseteq Raws
  BY <1>1 DEF Typed, RetentionTypeOK, LettersTypeOK
<1>6. Typed' /\ Exclusive' /\ Protected' /\ Traceable'
  BY <1>1, <1>4, <1>5, JobStep, IdleJobType
<1>7. QED
  BY <1>1, <1>3, <1>6, JobEnd

\* The records a replay reads exist.
LEMMA ReplayedExist ==
  ASSUME LettersSafe
  PROVE  Replayed \in SUBSET Raws /\ \A r \in Replayed : raw[r] # "gone"
<1>1. job.group \subseteq Raws /\ \A r \in job.group : raw[r] # "gone"
  BY DEF LettersSafe, GroupHeld, Typed, RetentionTypeOK, LettersTypeOK
<1>2. \A run : RecordsOf(run) \in SUBSET Raws /\ \A r \in RecordsOf(run) : raw[r] # "gone"
  BY DEF RecordsOf
<1>3. Replayed = job.group \/ \E run : Replayed = RecordsOf(run)
  BY DEF Replayed
<1>4. QED
  BY <1>1, <1>2, <1>3

\* Normalization uses no attempt up.
LEMMA WithLettersBound ==
  ASSUME LettersSafe, NEW bad \in SUBSET Raws
  PROVE  \A r \in Raws :
           /\ WithLetters(bad)[r].tries <= MaxAttempts + crashes
           /\ r \notin job.group /\ WithLetters(bad)[r].st \in {"pending", "retrying"} =>
                WithLetters(bad)[r].tries < MaxAttempts + crashes
<1> DEFINE W == WithLetters(bad)
<1> SUFFICES ASSUME NEW r \in Raws
             PROVE  /\ W[r].tries <= MaxAttempts + crashes
                    /\ r \notin job.group /\ W[r].st \in {"pending", "retrying"} =>
                         W[r].tries < MaxAttempts + crashes
  OBVIOUS
<1>1. Typed /\ letter[r].tries \in Nat /\ crashes \in Nat
  BY TriesType DEF LettersSafe
<1>2. /\ letter[r].tries <= MaxAttempts + crashes
      /\ r \notin job.group /\ letter[r].st \in {"pending", "retrying"} =>
           letter[r].tries < MaxAttempts + crashes
  BY DEF LettersSafe, Bounded, AttemptsBounded, AttemptLeft
<1>3. /\ W[r].tries = letter[r].tries \/ W[r].tries = 0
      /\ \/ W[r].st = letter[r].st
         \/ W[r].st = "pending" /\ letter[r].st \in {"pending", "retrying"}
         \/ W[r].st = "pending" /\ W[r].tries = 0
  BY <1>1, WithLettersType
<1> HIDE DEF W
<1>4. CASE W[r].tries = 0
  BY <1>1, <1>4
<1>5. CASE W[r].tries = letter[r].tries /\ W[r].tries # 0
  BY <1>1, <1>2, <1>3, <1>5
<1>6. QED
  BY <1>3, <1>4, <1>5 DEF W

LEMMA ReplaySafe ==
  ASSUME RetentionSafe, Replay, UNCHANGED retentionVars
  PROVE  RetentionSafe'
<1> USE DEF RetentionSafe, LettersSafe
<1>1. /\ job.at = "replay" /\ job \in JobRecord /\ job' = [job EXCEPT !.at = "mark"]
      /\ UNCHANGED <<heavy, work, crashes, snapshots, pass>>
  BY DEF Replay, retentionVars, Typed, RetentionTypeOK, LettersTypeOK, JobRecord
<1>2. PICK bad \in SUBSET Replayed :
        Store(Replayed, bad) /\ unmarked' = unmarked \union (Replayed \ bad)
  BY DEF Replay
<1>3. Replayed \in SUBSET Raws /\ \A r \in Replayed : raw[r] # "gone"
  BY ReplayedExist
<1>4. /\ Traceable'
      /\ facts' \subseteq Facts /\ edges' \subseteq Facts \X Raws
      /\ raw' = raw /\ letter' = WithLetters(bad)
  BY <1>1, <1>2, <1>3, StoreTraces
<1>5. bad \in SUBSET Raws /\ unmarked' \subseteq Raws
  BY <1>2, <1>3 DEF Typed, RetentionTypeOK, LettersTypeOK
<1>6. letter' \in [Raws -> LetterRow]
  BY <1>4, <1>5, WithLettersType
<1>7. job' \in JobRecord /\ job'.at = "mark" /\ job'.group = job.group
  BY <1>1 DEF JobRecord
<1>8. Typed'
  BY <1>1, <1>4, <1>5, <1>6, <1>7 DEF Typed, RetentionTypeOK, LettersTypeOK, LetterRow, JobRecord
<1>9. Exclusive' /\ Protected'
  BY <1>1, <1>7 DEF Exclusive, Protected
<1>10. GroupHeld'
  BY <1>4, <1>7 DEF GroupHeld
<1>11. Bounded'
  BY <1>1, <1>4, <1>5, <1>7, WithLettersBound DEF Bounded, AttemptsBounded, AttemptLeft
<1>12. QED
  BY <1>4, <1>8, <1>9, <1>10, <1>11

LEMMA ReplayRaisesSafe ==
  ASSUME RetentionSafe, ReplayRaises, UNCHANGED retentionVars
  PROVE  RetentionSafe'
<1> USE DEF RetentionSafe, LettersSafe
<1>1. /\ job.at = "replay" /\ job \in JobRecord /\ job' = [job EXCEPT !.at = "failed"]
      /\ UNCHANGED <<raw, facts, edges, heavy, work, unmarked, crashes, snapshots, pass>>
  BY DEF ReplayRaises, retentionVars, Typed, RetentionTypeOK, LettersTypeOK, JobRecord
<1>2. PICK bad \in SUBSET Raws : letter' = WithLetters(bad)
  BY ReplayedExist DEF ReplayRaises
<1>3. letter' \in [Raws -> LetterRow]
  BY <1>2, WithLettersType
<1>4. job' \in JobRecord /\ job'.at = "failed" /\ job'.group = job.group
  BY <1>1 DEF JobRecord
<1>5. unmarked' \subseteq Raws
  BY <1>1 DEF Typed, RetentionTypeOK, LettersTypeOK
<1>6. Typed' /\ Exclusive' /\ Protected' /\ Traceable'
  BY <1>1, <1>3, <1>4, <1>5, JobStep
<1>7. GroupHeld'
  BY <1>1, <1>4 DEF GroupHeld
<1>8. Bounded'
  BY <1>1, <1>2, <1>4, WithLettersBound DEF Bounded, AttemptsBounded, AttemptLeft
<1>9. QED
  BY <1>6, <1>7, <1>8

\* Products are marked before a letter can be resolved: this is where the
\* clause of GroupHeld about "outcome" comes to hold.
LEMMA MarkSafe ==
  ASSUME RetentionSafe, MarkReplayed \/ MarkRaises, UNCHANGED retentionVars
  PROVE  RetentionSafe'
<1> USE DEF RetentionSafe, LettersSafe
<1>1. /\ job.at = "mark" /\ job \in JobRecord
      /\ UNCHANGED <<raw, letter, facts, edges, heavy, work, crashes, snapshots, pass>>
  BY DEF MarkReplayed, MarkRaises, rows, retentionVars, Typed, RetentionTypeOK, LettersTypeOK,
         JobRecord
<1>2. unmarked' \in {{}, unmarked} /\ unmarked' \subseteq Raws
  BY DEF MarkReplayed, MarkRaises, Typed, RetentionTypeOK, LettersTypeOK
<1>3. job' \in JobRecord /\ job'.at \in {"outcome", "failed"} /\ job'.group = job.group
  <2>1. CASE MarkReplayed
    BY <1>1, <2>1 DEF MarkReplayed, JobRecord
  <2>2. CASE MarkRaises
    BY <1>1, <2>2 DEF MarkRaises, JobRecord
  <2>3. QED
    BY <2>1, <2>2
<1>4. job'.at = "outcome" => \A r \in job.group : letter[r].st = "retrying" => r \notin unmarked'
  <2>1. CASE MarkReplayed
    <3>1. job.group \subseteq Raws
      BY <1>1 DEF JobRecord
    <3>2. CASE job.group \intersect Having("retrying") # {}
      BY <2>1, <3>2 DEF MarkReplayed
    <3>3. CASE job.group \intersect Having("retrying") = {}
      BY <3>1, <3>3 DEF Having
    <3>4. QED
      BY <3>2, <3>3
  <2>2. CASE MarkRaises
    BY <1>1, <2>2 DEF MarkRaises, JobRecord
  <2>3. QED
    BY <2>1, <2>2
<1>5. letter' \in [Raws -> LetterRow]
  BY <1>1 DEF Typed, RetentionTypeOK, LettersTypeOK, LetterRow
<1>6. Typed' /\ Exclusive' /\ Protected' /\ Traceable'
  BY <1>1, <1>2, <1>3, <1>5, JobStep
<1>7. GroupHeld'
  BY <1>1, <1>3, <1>4 DEF GroupHeld
<1>8. Bounded'
  BY <1>1, <1>3 DEF Bounded, AttemptsBounded, AttemptLeft
<1>9. QED
  BY <1>6, <1>7, <1>8

LEMMA RecordSafe ==
  ASSUME RetentionSafe, RecordOutcome \/ RecordFailure, UNCHANGED retentionVars
  PROVE  RetentionSafe'
<1> USE DEF RetentionSafe, LettersSafe
<1>1. /\ job.at # "idle" /\ job' = IdleJob /\ heavy' = "free"
      /\ UNCHANGED <<raw, facts, edges, work, unmarked, crashes, snapshots, pass>>
  BY DEF RecordOutcome, RecordFailure, retentionVars
<1>2. \A r \in Raws :
        \/ /\ letter'[r] = letter[r]
           /\ r \in job.group => letter[r].st \notin {"pending", "retrying"}
        \/ letter'[r] = Closed(letter[r], "resolved")
        \/ letter'[r] = Retried(letter[r])
  BY DEF RecordOutcome, RecordFailure
<1>3. \A r \in Raws :
        /\ letter'[r] \in LetterRow
        /\ letter'[r].tries <= MaxAttempts + crashes
        /\ letter'[r].st \in {"pending", "retrying"} =>
             letter'[r].tries < MaxAttempts + crashes
  <2> SUFFICES ASSUME NEW r \in Raws
               PROVE  /\ letter'[r] \in LetterRow
                      /\ letter'[r].tries <= MaxAttempts + crashes
                      /\ letter'[r].st \in {"pending", "retrying"} =>
                           letter'[r].tries < MaxAttempts + crashes
    OBVIOUS
  <2>1. letter[r] \in LetterRow /\ letter[r].tries \in Nat /\ crashes \in Nat
        /\ letter[r].tries <= MaxAttempts + crashes
    BY TriesType DEF Bounded, AttemptsBounded
  <2>2. CASE letter'[r] = letter[r]
             /\ (r \in job.group => letter[r].st \notin {"pending", "retrying"})
    BY <2>1, <2>2 DEF Bounded, AttemptLeft
  <2>3. CASE letter'[r] = Closed(letter[r], "resolved")
    BY <2>1, <2>3, ClosedType
  <2>4. CASE letter'[r] = Retried(letter[r])
    <3>1. /\ letter'[r] \in LetterRow /\ letter'[r].tries = letter[r].tries
          /\ letter'[r].st = "quarantined" \/ letter[r].tries < MaxAttempts
      BY <2>1, <2>4, RetriedType
    <3>2. QED
      BY <2>1, <3>1
  <2>5. QED
    BY <1>2, <2>2, <2>3, <2>4
<1>4. letter' \in [Raws -> LetterRow]
  BY <1>3 DEF RecordOutcome, RecordFailure
<1>5. unmarked' \subseteq Raws
  BY <1>1 DEF Typed, RetentionTypeOK, LettersTypeOK
<1>6. Typed' /\ Exclusive' /\ Protected' /\ Traceable'
  BY <1>1, <1>4, <1>5, JobStep, IdleJobType
<1>7. QED
  BY <1>1, <1>3, <1>6, JobEnd

-----------------------------------------------------------------------------
(* The normalization of a run. *)

\* What a step of a source job leaves in order: no letter is claimed meanwhile.
LEMMA WorkStep ==
  ASSUME RetentionSafe, work.at # "idle" \/ heavy = "free",
         \A r \in Raws :
           /\ letter'[r] \in LetterRow
           /\ letter'[r].tries <= MaxAttempts + crashes
           /\ letter'[r].st \in {"pending", "retrying"} =>
                letter'[r].tries < MaxAttempts + crashes,
         letter' \in [Raws -> LetterRow], work' \in WorkRecord,
         work'.at = "store" => \A r \in work'.mine : letter'[r].st = "retrying",
         \/ work'.at # "idle" /\ heavy' = "source"
         \/ work'.at = "idle" /\ heavy' = "free",
         UNCHANGED <<raw, job, unmarked, crashes, snapshots, pass>>,
         facts' \subseteq Facts, edges' \subseteq Facts \X Raws
  PROVE  Typed' /\ Exclusive' /\ GroupHeld' /\ Bounded' /\ Protected'
<1> USE DEF RetentionSafe, LettersSafe
<1>1. job.at = "idle" /\ pass.at = "idle" /\ job.group = {}
  BY DEF Exclusive, GroupHeld
<1>2. Typed'
  BY DEF Typed, RetentionTypeOK, LettersTypeOK, LetterRow, WorkRecord
<1>3. Exclusive' /\ GroupHeld' /\ Protected'
  BY <1>1 DEF Exclusive, GroupHeld, Protected
<1>4. Bounded'
  BY <1>1 DEF Bounded, AttemptsBounded, AttemptLeft
<1>5. QED
  BY <1>2, <1>3, <1>4

LEMMA IdleWorkType == IdleWork \in WorkRecord /\ IdleWork.at = "idle"
  BY DEF IdleWork, WorkRecord

\* While nobody, or a source job, is at work every letter has an attempt left.
LEMMA NoneClaimed ==
  ASSUME LettersSafe, work.at # "idle" \/ heavy = "free"
  PROVE  /\ job.group = {}
         /\ \A r \in Raws :
              /\ letter[r] \in LetterRow /\ letter[r].tries <= MaxAttempts + crashes
              /\ letter[r].st \in {"pending", "retrying"} =>
                   letter[r].tries < MaxAttempts + crashes
<1>1. job.group = {}
  BY DEF LettersSafe, Exclusive, GroupHeld
<1>2. QED
  BY <1>1, TriesType DEF LettersSafe, Bounded, AttemptsBounded, AttemptLeft

LEMMA RunBeginSafe ==
  ASSUME RetentionSafe, UNCHANGED retentionVars,
         NEW run \in {RunOf[r] : r \in Raws}, RunBegin(run)
  PROVE  RetentionSafe'
<1> USE DEF RetentionSafe, LettersSafe
<1>1. /\ heavy = "free" /\ heavy' = "source"
      /\ UNCHANGED <<raw, facts, edges, job, unmarked, crashes, snapshots, pass>>
  BY DEF RunBegin, retentionVars
<1> DEFINE mine == RecordsOf(run) \intersect Having("pending")
<1>2. /\ letter' = [r \in Raws |->
           IF r \in mine THEN [letter[r] EXCEPT !.st = "retrying"] ELSE letter[r]]
      /\ work' = [at |-> "store", run |-> run, mine |-> mine]
      /\ mine \in SUBSET Raws /\ \A r \in mine : letter[r].st = "pending"
  BY DEF RunBegin, RecordsOf, Having
<1> HIDE DEF mine
<1>3. \A r \in Raws :
        /\ letter'[r] \in LetterRow
        /\ letter'[r].tries <= MaxAttempts + crashes
        /\ letter'[r].st \in {"pending", "retrying"} =>
             letter'[r].tries < MaxAttempts + crashes
  <2> SUFFICES ASSUME NEW r \in Raws
               PROVE  /\ letter'[r] \in LetterRow
                      /\ letter'[r].tries <= MaxAttempts + crashes
                      /\ letter'[r].st \in {"pending", "retrying"} =>
                           letter'[r].tries < MaxAttempts + crashes
    OBVIOUS
  <2>1. /\ letter[r] \in LetterRow /\ letter[r].tries <= MaxAttempts + crashes
        /\ letter[r].st \in {"pending", "retrying"} =>
             letter[r].tries < MaxAttempts + crashes
    BY <1>1, NoneClaimed
  <2>2. CASE r \in mine
    <3>1. letter'[r] = [letter[r] EXCEPT !.st = "retrying"] /\ letter[r].st = "pending"
      BY <1>2, <2>2
    <3>2. letter'[r] \in LetterRow /\ letter'[r].tries = letter[r].tries
      BY <2>1, <3>1 DEF LetterRow, Statuses
    <3>3. QED
      BY <2>1, <3>1, <3>2
  <2>3. CASE r \notin mine
    BY <1>2, <2>1, <2>3
  <2>4. QED
    BY <2>2, <2>3
<1>4. letter' \in [Raws -> LetterRow]
  BY <1>2, <1>3
<1>5. /\ work' \in WorkRecord /\ work'.at = "store"
      /\ \A r \in work'.mine : letter'[r].st = "retrying"
  <2>1. ASSUME NEW r \in mine
        PROVE  letter'[r].st = "retrying"
    <3>1. letter'[r] = [letter[r] EXCEPT !.st = "retrying"] /\ letter[r] \in LetterRow
      BY <1>1, <1>2, NoneClaimed
    <3>2. QED
      BY <3>1 DEF LetterRow
  <2>2. QED
    BY <1>2, <2>1 DEF WorkRecord
<1>6. facts' \subseteq Facts /\ edges' \subseteq Facts \X Raws
  BY <1>1 DEF Typed, RetentionTypeOK, LettersTypeOK
<1>7. Protected' /\ Traceable'
  BY <1>1, SnapshotsKept
<1>8. QED
  BY <1>1, <1>3, <1>4, <1>5, <1>6, <1>7, WorkStep

LEMMA RunStoreSafe ==
  ASSUME RetentionSafe, RunStore, UNCHANGED retentionVars
  PROVE  RetentionSafe'
<1> USE DEF RetentionSafe, LettersSafe
<1>1. /\ work.at = "store" /\ work \in WorkRecord /\ work' = [work EXCEPT !.at = "settle"]
      /\ UNCHANGED <<heavy, job, unmarked, crashes, snapshots, pass>>
  BY DEF RunStore, retentionVars, Typed
<1>2. PICK bad \in SUBSET RecordsOf(work.run) : Store(RecordsOf(work.run), bad)
  BY DEF RunStore
<1>3. RecordsOf(work.run) \in SUBSET Raws /\ \A r \in RecordsOf(work.run) : raw[r] # "gone"
  BY DEF RecordsOf
<1>4. /\ Traceable'
      /\ facts' \subseteq Facts /\ edges' \subseteq Facts \X Raws
      /\ raw' = raw /\ letter' = WithLetters(bad)
  BY <1>1, <1>2, <1>3, StoreTraces
<1>5. bad \in SUBSET Raws /\ job.group = {}
  BY <1>1, <1>3, NoneClaimed
<1>6. letter' \in [Raws -> LetterRow]
  BY <1>4, <1>5, WithLettersType
<1>7. \A r \in Raws :
        /\ letter'[r] \in LetterRow
        /\ letter'[r].tries <= MaxAttempts + crashes
        /\ letter'[r].st \in {"pending", "retrying"} =>
             letter'[r].tries < MaxAttempts + crashes
  BY <1>4, <1>5, <1>6, WithLettersBound
<1>8. work' \in WorkRecord /\ work'.at = "settle" /\ heavy' = "source"
  BY <1>1 DEF WorkRecord, Exclusive
<1>9. QED
  BY <1>1, <1>4, <1>6, <1>7, <1>8, WorkStep

\* The end of a normalization, whether its letters are resolved or set back.
LEMMA RunEndSafe ==
  ASSUME RetentionSafe, RunRaises \/ RunSettle, UNCHANGED retentionVars
  PROVE  RetentionSafe'
<1> USE DEF RetentionSafe, LettersSafe
<1>1. /\ work.at # "idle" /\ work' = IdleWork /\ heavy' = "free"
      /\ UNCHANGED <<raw, facts, edges, job, unmarked, crashes, snapshots, pass>>
  BY DEF RunRaises, RunSettle, retentionVars
<1>2. PICK bad \in SUBSET Raws :
        \A r \in Raws :
          \/ letter'[r] = letter[r]
          \/ letter'[r] = WithLetters(bad)[r]
          \/ /\ letter'[r] = [letter[r] EXCEPT !.st = "pending"]
             /\ letter[r].st = "retrying"
          \/ letter'[r] = Closed(letter[r], "resolved")
  <2>1. CASE RunRaises
    <3>1. PICK bad \in SUBSET RecordsOf(work.run) :
            letter' = [r \in Raws |-> IF r \in work.mine
              THEN [letter[r] EXCEPT !.st = "pending"] ELSE WithLetters(bad)[r]]
      BY <2>1 DEF RunRaises
    <3>2. bad \in SUBSET Raws
      BY DEF RecordsOf
    <3>3. \A r \in work.mine : letter[r].st = "retrying"
      BY <2>1 DEF RunRaises, Exclusive
    <3>4. QED
      BY <3>1, <3>2, <3>3
  <2>2. CASE RunSettle
    <3>1. {} \in SUBSET Raws
      OBVIOUS
    <3>2. QED
      BY <2>2, <3>1 DEF RunSettle
  <2>3. QED
    BY <2>1, <2>2
<1>3. \A r \in Raws :
        /\ letter'[r] \in LetterRow
        /\ letter'[r].tries <= MaxAttempts + crashes
        /\ letter'[r].st \in {"pending", "retrying"} =>
             letter'[r].tries < MaxAttempts + crashes
  <2> SUFFICES ASSUME NEW r \in Raws
               PROVE  /\ letter'[r] \in LetterRow
                      /\ letter'[r].tries <= MaxAttempts + crashes
                      /\ letter'[r].st \in {"pending", "retrying"} =>
                           letter'[r].tries < MaxAttempts + crashes
    OBVIOUS
  <2>1. /\ letter[r] \in LetterRow /\ letter[r].tries <= MaxAttempts + crashes
        /\ letter[r].st \in {"pending", "retrying"} =>
             letter[r].tries < MaxAttempts + crashes
    BY <1>1, NoneClaimed
  <2>2. CASE letter'[r] = letter[r]
    BY <2>1, <2>2
  <2>3. CASE letter'[r] = WithLetters(bad)[r]
    <3>1. WithLetters(bad)[r] \in LetterRow
      BY WithLettersType
    <3>2. r \notin job.group
      BY <1>1, NoneClaimed
    <3>3. QED
      BY <2>3, <3>1, <3>2, WithLettersBound
  <2>4. CASE letter'[r] = [letter[r] EXCEPT !.st = "pending"] /\ letter[r].st = "retrying"
    <3>1. letter'[r] \in LetterRow /\ letter'[r].tries = letter[r].tries
      BY <2>1, <2>4 DEF LetterRow, Statuses
    <3>2. QED
      BY <2>1, <2>4, <3>1
  <2>5. CASE letter'[r] = Closed(letter[r], "resolved")
    BY <2>1, <2>5, ClosedType
  <2>6. QED
    BY <1>2, <2>2, <2>3, <2>4, <2>5
<1>4. letter' \in [Raws -> LetterRow]
  BY <1>3 DEF RunRaises, RunSettle
<1>5. facts' \subseteq Facts /\ edges' \subseteq Facts \X Raws
  BY <1>1 DEF Typed, RetentionTypeOK, LettersTypeOK
<1>6. Traceable'
  BY <1>1, SnapshotsKept
<1>7. QED
  BY <1>1, <1>3, <1>4, <1>5, <1>6, WorkStep, IdleWorkType

-----------------------------------------------------------------------------
(* Time, and crashes. *)

LEMMA CrashSafe ==
  ASSUME RetentionSafe, LettersCrash, UNCHANGED retentionVars
  PROVE  RetentionSafe'
<1> USE DEF RetentionSafe, LettersSafe
<1>1. /\ heavy' = "free" /\ crashes' = crashes + 1
      /\ UNCHANGED <<raw, letter, facts, edges, unmarked, snapshots, pass>>
      /\ \/ job.at # "idle" /\ job' = IdleJob /\ work' = work
         \/ work.at # "idle" /\ work' = IdleWork /\ job' = job
  BY DEF LettersCrash, rows, retentionVars
<1>2. /\ job'.at = "idle" /\ job'.group = {} /\ work'.at = "idle" /\ pass.at = "idle"
      /\ job' \in JobRecord /\ work' \in WorkRecord
  <2>1. /\ job.at # "idle" => work.at = "idle" /\ pass.at = "idle"
        /\ work.at # "idle" => job.at = "idle" /\ pass.at = "idle"
        /\ job.at = "idle" => job.group = {}
        /\ job \in JobRecord /\ work \in WorkRecord
    BY DEF Exclusive, GroupHeld, Typed, RetentionTypeOK, LettersTypeOK, JobRecord
  <2>2. IdleJob.at = "idle" /\ IdleJob.group = {} /\ IdleWork.at = "idle"
    BY DEF IdleJob, IdleWork
  <2>3. QED
    BY <1>1, <2>1, <2>2, IdleJobType, IdleWorkType
<1>3. Typed'
  BY <1>1, <1>2 DEF Typed, RetentionTypeOK, LettersTypeOK, JobRecord, WorkRecord
<1>4. Exclusive' /\ GroupHeld'
  BY <1>1, <1>2 DEF Exclusive, GroupHeld
<1>5. \A r \in Raws :
        letter'[r].tries <= MaxAttempts + crashes' /\ letter'[r].tries < MaxAttempts + crashes'
  BY <1>1, TriesType DEF Bounded, AttemptsBounded
<1>6. Bounded'
  BY <1>5 DEF Bounded, AttemptsBounded, AttemptLeft
<1>7. Protected' /\ Traceable'
  BY <1>1, SnapshotsKept
<1>8. QED
  BY <1>3, <1>4, <1>6, <1>7

LEMMA TimeOutSafe ==
  ASSUME RetentionSafe, UNCHANGED retentionVars, NEW t \in Raws, TimeOut(t)
  PROVE  RetentionSafe'
<1> USE DEF RetentionSafe, LettersSafe
<1>1. UNCHANGED <<raw, facts, edges, heavy, job, work, unmarked, crashes, snapshots, pass>>
  BY DEF TimeOut, retentionVars
<1>2. letter \in [Raws -> LetterRow]
  BY DEF Typed, RetentionTypeOK, LettersTypeOK, LetterRow
<1>3. /\ letter' \in [Raws -> LetterRow]
      /\ \A r \in Raws : letter'[r].st = letter[r].st /\ letter'[r].tries = letter[r].tries
  <2>1. CASE letter' = [letter EXCEPT ![t].claimed = "old"]
    BY <1>2, <2>1 DEF LetterRow
  <2>2. CASE letter' = [letter EXCEPT ![t].due = TRUE]
    BY <1>2, <2>2 DEF LetterRow
  <2>3. QED
    BY <2>1, <2>2 DEF TimeOut
<1>4. job.group \subseteq Raws /\ work.mine \subseteq Raws
  BY DEF Typed, RetentionTypeOK, LettersTypeOK
<1>5. Typed'
  BY <1>1, <1>3 DEF Typed, RetentionTypeOK, LettersTypeOK, LetterRow
<1>6. Exclusive' /\ GroupHeld'
  BY <1>1, <1>3, <1>4 DEF Exclusive, GroupHeld
<1>7. Bounded'
  BY <1>1, <1>3 DEF Bounded, AttemptsBounded, AttemptLeft
<1>8. QED
  BY <1>1, <1>5, <1>6, <1>7, SnapshotsKept

LEMMA OutdateSafe ==
  ASSUME RetentionSafe, UNCHANGED retentionVars, NEW t \in Raws, Outdate(t)
  PROVE  RetentionSafe'
<1> USE DEF RetentionSafe, LettersSafe
<1>1. UNCHANGED <<letter, facts, edges, heavy, job, work, unmarked, crashes, snapshots, pass>>
  BY DEF Outdate, retentionVars
<1>2. /\ raw' \in [Raws -> {"new", "superseded", "expired", "gone"}]
      /\ \A r \in Raws : raw'[r] = "gone" => raw[r] = "gone"
  BY DEF Outdate, Typed, RetentionTypeOK, LettersTypeOK
<1>3. Typed' /\ Exclusive'
  BY <1>1, <1>2 DEF Typed, RetentionTypeOK, LettersTypeOK, Exclusive
<1>4. QED
  BY <1>1, <1>2, <1>3, JobsKept, SnapshotsKept

-----------------------------------------------------------------------------
(* Retention, and the snapshots. *)

\* What a step of retention or of a publication leaves in order: it changes no
\* job, and no letter of one.
LEMMA PassStep ==
  ASSUME LettersSafe, pass.at # "idle" \/ heavy = "free",
         UNCHANGED <<job, work, unmarked, crashes>>,
         raw' \in [Raws -> {"new", "superseded", "expired", "gone"}],
         letter' \in [Raws -> LetterRow],
         \A r \in Raws : letter'[r] = letter[r] \/ letter'[r] = NoLetter,
         facts' \subseteq Facts, edges' \subseteq Facts \X Raws,
         snapshots' \subseteq [refs : SUBSET Facts, raws : SUBSET Raws],
         pass' \in [at : {"idle", "protect", "facts", "letters", "raws"}, kept : SUBSET Facts],
         \/ pass'.at # "idle" /\ heavy' = "retention"
         \/ pass'.at = "idle" /\ heavy' = "free"
  PROVE  LettersSafe'
<1> USE DEF LettersSafe
<1>1. job.at = "idle" /\ work.at = "idle" /\ job.group = {}
  BY DEF Exclusive, GroupHeld
<1>2. Typed'
  BY DEF Typed, RetentionTypeOK, LettersTypeOK, LetterRow
<1>3. Exclusive' /\ GroupHeld'
  BY <1>1 DEF Exclusive, GroupHeld
<1>4. Bounded'
  <2>1. NoLetter.tries = 0 /\ NoLetter.st = "none"
    BY DEF NoLetter
  <2>2. ASSUME NEW r \in Raws
        PROVE  /\ letter'[r].tries <= MaxAttempts + crashes
               /\ letter'[r].st \in {"pending", "retrying"} =>
                    letter'[r].tries < MaxAttempts + crashes
    <3>1. /\ letter[r].tries <= MaxAttempts + crashes
          /\ letter[r].st \in {"pending", "retrying"} =>
               letter[r].tries < MaxAttempts + crashes
      BY <1>1 DEF Bounded, AttemptsBounded, AttemptLeft
    <3>2. CASE letter'[r] = letter[r]
      BY <3>1, <3>2
    <3>3. CASE letter'[r] = NoLetter
      BY <2>1, <3>3, TriesType
    <3>4. QED
      BY <3>2, <3>3
  <2>3. QED
    BY <2>2 DEF Bounded, AttemptsBounded, AttemptLeft
<1>5. QED
  BY <1>2, <1>3, <1>4

LEMMA PassTypes ==
  ASSUME LettersSafe
  PROVE  /\ raw \in [Raws -> {"new", "superseded", "expired", "gone"}]
         /\ letter \in [Raws -> LetterRow]
         /\ facts \subseteq Facts /\ edges \subseteq Facts \X Raws
         /\ snapshots \subseteq [refs : SUBSET Facts, raws : SUBSET Raws]
         /\ pass \in [at : {"idle", "protect", "facts", "letters", "raws"}, kept : SUBSET Facts]
         /\ pass.at # "idle" => heavy = "retention"
         /\ heavy = "free" => pass.at = "idle"
  BY DEF LettersSafe, Typed, RetentionTypeOK, LettersTypeOK, LetterRow, Exclusive

\* A pass begins, stops, or has read what snapshots refer to.
LEMMA RetainPauseSafe ==
  ASSUME RetentionSafe, RetainBegin \/ RetainStop \/ RetainProtect
  PROVE  RetentionSafe'
<1> USE DEF RetentionSafe
<1>1. UNCHANGED <<raw, letter, facts, edges, job, work, unmarked, crashes, snapshots>>
  BY DEF RetainBegin, RetainStop, RetainProtect, rows
<1>2. /\ pass.at # "idle" \/ heavy = "free"
      /\ pass' \in [at : {"idle", "protect", "facts", "letters", "raws"}, kept : SUBSET Facts]
      /\ \/ pass'.at # "idle" /\ heavy' = "retention"
         \/ pass'.at = "idle" /\ heavy' = "free"
      /\ pass'.at = "facts" => pass'.kept = UNION {s.refs : s \in snapshots}
  <2>1. CASE RetainBegin
    BY <2>1 DEF RetainBegin
  <2>2. CASE RetainStop
    BY <2>2 DEF RetainStop, IdlePass
  <2>3. CASE RetainProtect
    <3>1. UNION {s.refs : s \in snapshots} \subseteq Facts
      BY PassTypes
    <3>2. pass.at = "protect" /\ heavy' = "retention"
          /\ pass' = [at |-> "facts", kept |-> UNION {s.refs : s \in snapshots}]
      BY <2>3, PassTypes DEF RetainProtect
    <3>3. QED
      BY <3>1, <3>2
  <2>4. QED
    BY <2>1, <2>2, <2>3
<1>3. LettersSafe'
  BY <1>1, <1>2, PassTypes, PassStep
<1>4. Protected' /\ Traceable'
  BY <1>1, <1>2 DEF Protected, Traceable
<1>5. QED
  BY <1>3, <1>4

\* No row that a snapshot names is deleted, and no row is left without an edge.
LEMMA RetainFactsSafe ==
  ASSUME RetentionSafe, RetainFacts
  PROVE  RetentionSafe'
<1> USE DEF RetentionSafe
<1>1. PICK old \in SUBSET (facts \ pass.kept), cut \in SUBSET edges :
        /\ edges' = edges \ cut
        /\ \A e \in cut : e[1] \in old
        /\ facts' = facts \ {f \in old : \A e \in edges' : e[1] # f}
  BY DEF RetainFacts, Batches
<1>2. /\ pass.at = "facts" /\ pass' = [at |-> "letters", kept |-> {}] /\ heavy' = heavy
      /\ UNCHANGED <<raw, letter, job, work, unmarked, crashes, snapshots>>
  BY DEF RetainFacts
<1>3. LettersSafe'
  <2>1. facts' \subseteq Facts /\ edges' \subseteq Facts \X Raws
    BY <1>1, PassTypes
  <2>2. pass' \in [at : {"idle", "protect", "facts", "letters", "raws"}, kept : SUBSET Facts]
        /\ pass'.at # "idle" /\ heavy' = "retention"
    BY <1>2, PassTypes
  <2>3. QED
    BY <1>2, <2>1, <2>2, PassTypes, PassStep
<1>4. Protected'
  BY <1>2 DEF Protected
<1>5. Traceable'
  <2>1. \A s \in snapshots : s.refs \subseteq facts'
    <3>1. \A s \in snapshots : s.refs \subseteq facts /\ s.refs \subseteq pass.kept
      BY <1>2 DEF Traceable, Protected
    <3>2. QED
      BY <1>1, <3>1
  <2>2. ASSUME NEW f \in facts'
        PROVE  \E e \in edges' : e[1] = f
    <3>1. f \in facts
      BY <1>1
    <3>2. CASE f \in old
      BY <1>1, <3>2
    <3>3. CASE f \notin old
      <4>1. PICK e \in edges : e[1] = f
        BY <3>1 DEF Traceable
      <4>2. e \in edges'
        BY <1>1, <3>3, <4>1
      <4>3. QED
        BY <4>1, <4>2
    <3>4. QED
      BY <3>2, <3>3
  <2>3. \A e \in edges' : raw'[e[2]] # "gone"
    BY <1>1, <1>2 DEF Traceable
  <2>4. QED
    BY <1>2, <2>1, <2>2, <2>3 DEF Traceable
<1>6. QED
  BY <1>3, <1>4, <1>5

LEMMA RetainLettersSafe ==
  ASSUME RetentionSafe, RetainLetters
  PROVE  RetentionSafe'
<1> USE DEF RetentionSafe
<1>1. /\ pass.at = "letters" /\ pass' = [pass EXCEPT !.at = "raws"] /\ heavy' = heavy
      /\ UNCHANGED <<raw, facts, edges, job, work, unmarked, crashes, snapshots>>
  BY DEF RetainLetters
<1>2. PICK old \in SUBSET Raws :
        letter' = [r \in Raws |-> IF r \in old THEN NoLetter ELSE letter[r]]
  BY DEF RetainLetters
<1>3. letter' \in [Raws -> LetterRow]
      /\ \A r \in Raws : letter'[r] = letter[r] \/ letter'[r] = NoLetter
  <2>1. NoLetter \in LetterRow
    BY DEF NoLetter, LetterRow, Statuses
  <2>2. QED
    BY <1>2, <2>1, PassTypes
<1>4. pass' \in [at : {"idle", "protect", "facts", "letters", "raws"}, kept : SUBSET Facts]
      /\ pass'.at = "raws" /\ heavy' = "retention"
  BY <1>1, PassTypes
<1>5. LettersSafe'
  BY <1>1, <1>3, <1>4, PassTypes, PassStep
<1>6. Protected' /\ Traceable'
  BY <1>1, <1>4 DEF Protected, Traceable
<1>7. QED
  BY <1>5, <1>6

\* A raw record that goes is no evidence of a row or of a snapshot.
LEMMA RetainRawsSafe ==
  ASSUME RetentionSafe, RetainRaws
  PROVE  RetentionSafe'
<1> USE DEF RetentionSafe
<1>1. /\ pass.at = "raws" /\ pass' = IdlePass /\ heavy' = "free"
      /\ UNCHANGED <<letter, facts, edges, job, work, unmarked, crashes, snapshots>>
  BY DEF RetainRaws
<1>2. PICK old \in SUBSET Raws :
        /\ raw' = [r \in Raws |-> IF r \in old THEN "gone" ELSE raw[r]]
        /\ \A r \in old : /\ \A e \in edges : e[2] # r
                          /\ \A s \in snapshots : r \notin s.raws
  BY DEF RetainRaws, Batches
<1>3. raw' \in [Raws -> {"new", "superseded", "expired", "gone"}]
  BY <1>2, PassTypes
<1>4. pass' \in [at : {"idle", "protect", "facts", "letters", "raws"}, kept : SUBSET Facts]
      /\ pass'.at = "idle"
  BY <1>1 DEF IdlePass
<1>5. LettersSafe'
  BY <1>1, <1>3, <1>4, PassTypes, PassStep
<1>6. Traceable'
  <2>1. ASSUME NEW s \in snapshots, NEW r \in s.raws
        PROVE  raw'[r] # "gone"
    <3>1. r \in Raws /\ raw[r] # "gone" /\ r \notin old
      BY <1>2, PassTypes DEF Traceable
    <3>2. QED
      BY <1>2, <3>1
  <2>2. ASSUME NEW e \in edges
        PROVE  raw'[e[2]] # "gone"
    <3>1. e[2] \in Raws /\ raw[e[2]] # "gone" /\ e[2] \notin old
      BY <1>2, PassTypes DEF Traceable
    <3>2. QED
      BY <1>2, <3>1
  <2>3. QED
    BY <1>1, <2>1, <2>2 DEF Traceable
<1>7. Protected'
  BY <1>4 DEF Protected
<1>8. QED
  BY <1>5, <1>6, <1>7

LEMMA PublishSafe ==
  ASSUME RetentionSafe, PublishSnapshot
  PROVE  RetentionSafe'
<1> USE DEF RetentionSafe
<1>1. PICK refs \in SUBSET facts :
        snapshots' = snapshots \union
          {[refs |-> refs, raws |-> {e[2] : e \in {x \in edges : x[1] \in refs}}]}
  BY DEF PublishSnapshot
<1>2. heavy = "free" /\ UNCHANGED <<raw, letter, facts, edges, heavy, job, work, unmarked,
                                    crashes, pass>>
  BY DEF PublishSnapshot, rows
<1> DEFINE raws == {e[2] : e \in {x \in edges : x[1] \in refs}}
<1>3. raws \subseteq Raws /\ \A r \in raws : raw[r] # "gone"
  BY PassTypes DEF Traceable
<1> HIDE DEF raws
<1>4. snapshots' = snapshots \union {[refs |-> refs, raws |-> raws]}
  BY <1>1 DEF raws
<1>5. snapshots' \subseteq [refs : SUBSET Facts, raws : SUBSET Raws]
  BY <1>3, <1>4, PassTypes
<1>6. pass.at = "idle"
  BY <1>2, PassTypes
<1>7. LettersSafe'
  BY <1>2, <1>5, <1>6, PassTypes, PassStep
<1>8. \A s \in snapshots' : s.refs \subseteq facts /\ \A r \in s.raws : raw[r] # "gone"
  BY <1>3, <1>4 DEF Traceable
<1>9. Traceable' /\ Protected'
  BY <1>2, <1>6, <1>8 DEF Traceable, Protected
<1>10. QED
  BY <1>7, <1>9

LEMMA DropSafe ==
  ASSUME RetentionSafe, DropSnapshot
  PROVE  RetentionSafe'
<1> USE DEF RetentionSafe
<1>1. heavy = "free" /\ UNCHANGED <<raw, letter, facts, edges, heavy, job, work, unmarked,
                                    crashes, pass>>
  BY DEF DropSnapshot, rows
<1>2. snapshots' \subseteq snapshots
  BY DEF DropSnapshot
<1>3. pass.at = "idle"
  BY <1>1, PassTypes
<1>4. LettersSafe'
  BY <1>1, <1>2, <1>3, PassTypes, PassStep
<1>5. Traceable' /\ Protected'
  BY <1>1, <1>2, <1>3 DEF Traceable, Protected
<1>6. QED
  BY <1>4, <1>5

-----------------------------------------------------------------------------
LEMMA StutterSafe ==
  ASSUME RetentionSafe, UNCHANGED <<lettersVars, retentionVars>>
  PROVE  RetentionSafe'
<1>1. UNCHANGED <<raw, letter, facts, edges, heavy, job, work, unmarked, crashes,
                  snapshots, pass>>
  BY DEF lettersVars, rows, retentionVars
<1>2. QED
  BY <1>1 DEF RetentionSafe, LettersSafe, Typed, RetentionTypeOK, LettersTypeOK, Exclusive,
    GroupHeld, Bounded, AttemptsBounded, AttemptLeft, Protected, Traceable, Claimable

LEMMA Preserved == RetentionSafe /\ [RetentionNext]_<<lettersVars, retentionVars>> => RetentionSafe'
<1> SUFFICES ASSUME RetentionSafe, [RetentionNext]_<<lettersVars, retentionVars>>
             PROVE  RetentionSafe'
  OBVIOUS
<1>1. CASE LettersNext /\ UNCHANGED retentionVars
  BY <1>1, BeginSafe, QuarantineSafe, ClaimSafe, PauseSafe, ReplaySafe, ReplayRaisesSafe,
     MarkSafe, RecordSafe, RunBeginSafe, RunStoreSafe, RunEndSafe, CrashSafe, TimeOutSafe,
     OutdateSafe DEF LettersNext
<1>2. CASE RetainBegin \/ RetainStop \/ RetainProtect
  BY <1>2, RetainPauseSafe
<1>3. CASE RetainFacts \/ RetainLetters \/ RetainRaws
  BY <1>3, RetainFactsSafe, RetainLettersSafe, RetainRawsSafe
<1>4. CASE PublishSnapshot \/ DropSnapshot
  BY <1>4, PublishSafe, DropSafe
<1>5. CASE UNCHANGED <<lettersVars, retentionVars>>
  BY <1>5, StutterSafe
<1>6. QED
  BY <1>1, <1>2, <1>3, <1>4, <1>5 DEF RetentionNext

LEMMA Invariance == RetentionSpec => []RetentionSafe
  BY Initially, Preserved, PTL DEF RetentionSpec

\* The variables keep their types for every set of records, runs and rows.
THEOREM TypeCorrect == RetentionSpec => []RetentionTypeOK
<1>1. RetentionSafe => RetentionTypeOK
  BY DEF RetentionSafe, LettersSafe, Typed
<1>2. QED
  BY <1>1, Invariance, PTL

\* No letter is tried more often than MaxAttempts allows, a crash after a claim
\* apart, however the dead-letter job and the normalization of runs alternate.
THEOREM AttemptsStayBounded == RetentionSpec => []AttemptsBounded
<1>1. RetentionSafe => AttemptsBounded
  BY DEF RetentionSafe, LettersSafe, Bounded
<1>2. QED
  BY <1>1, Invariance, PTL

\* What a snapshot shows can always be traced, wherever a pass of retention stops.
THEOREM AlwaysTraceable == RetentionSpec => []Traceable
<1>1. RetentionSafe => Traceable
  BY DEF RetentionSafe
<1>2. QED
  BY <1>1, Invariance, PTL

\* A group's letter is resolved by nobody but RecordOutcome.
LEMMA OnlyOutcomeResolves ==
  ASSUME RetentionSafe, RetentionNext, NEW r \in job.group,
         letter[r].st = "retrying", letter'[r].st = "resolved"
  PROVE  job.at = "outcome"
<1> USE DEF RetentionSafe, LettersSafe
<1>1. r \in Raws /\ letter[r] \in LetterRow /\ Typed
  <2>1. r \in Raws
    BY DEF Typed, RetentionTypeOK, LettersTypeOK
  <2>2. QED
    BY <2>1, TriesType
<1>2. job.at \notin {"idle", "scope", "claim"} /\ heavy = "letters"
  BY DEF GroupHeld, Exclusive
<1>3. work.at = "idle" /\ pass.at = "idle"
  BY <1>2 DEF Exclusive
<1>4. letter'[r] # letter[r] /\ letter'[r].st # "pending" /\ letter'[r].st # "quarantined"
  OBVIOUS
<1>5. ~LettersBegin /\ ~QuarantineOutOfScope /\ ~ClaimBatch
  BY <1>2 DEF LettersBegin, QuarantineOutOfScope, ClaimBatch
<1>6. ~PauseBeforeReplay
  <2>1. PauseBeforeReplay => letter'[r].st = "pending"
    <3>1. PauseBeforeReplay => letter'[r] =
            [letter[r] EXCEPT !.st = "pending", !.tries = letter[r].tries - 1, !.due = TRUE]
      BY <1>1 DEF PauseBeforeReplay
    <3>2. QED
      BY <1>1, <3>1 DEF LetterRow
  <2>2. QED
    BY <2>1, <1>4
<1>7. \A bad \in SUBSET Raws : letter' # WithLetters(bad)
  BY <1>1, <1>4, WithLettersType
<1>8. ~Replay /\ ~ReplayRaises
  <2>1. Replayed \in SUBSET Raws
    BY ReplayedExist
  <2>2. QED
    BY <2>1, <1>7 DEF Replay, ReplayRaises, Store
<1>9. ~MarkReplayed /\ ~MarkRaises
  BY <1>4 DEF MarkReplayed, MarkRaises, rows
<1>10. ~RecordFailure
  <2>1. RecordFailure => letter'[r] = Retried(letter[r])
    BY <1>1 DEF RecordFailure
  <2>2. Retried(letter[r]).st \in {"pending", "quarantined"}
    BY <1>1, RetriedType
  <2>3. QED
    BY <2>1, <2>2, <1>4
<1>11. /\ ~\E run \in {RunOf[x] : x \in Raws} : RunBegin(run)
       /\ ~RunStore /\ ~RunRaises /\ ~RunSettle
  BY <1>2, <1>3 DEF RunBegin, RunStore, RunRaises, RunSettle
<1>12. ~LettersCrash
  BY <1>4 DEF LettersCrash, rows
<1>13. ~\E t \in Raws : TimeOut(t) \/ Outdate(t)
  <2>1. letter \in [Raws -> LetterRow]
    BY DEF Typed, RetentionTypeOK, LettersTypeOK, LetterRow
  <2>2. ASSUME NEW t \in Raws, TimeOut(t)
        PROVE  letter'[r].st = letter[r].st
    <3>1. CASE letter' = [letter EXCEPT ![t].claimed = "old"]
      BY <1>1, <2>1, <3>1 DEF LetterRow
    <3>2. CASE letter' = [letter EXCEPT ![t].due = TRUE]
      BY <1>1, <2>1, <3>2 DEF LetterRow
    <3>3. QED
      BY <2>2, <3>1, <3>2 DEF TimeOut
  <2>3. ASSUME NEW t \in Raws, Outdate(t)
        PROVE  letter'[r] = letter[r]
    BY <2>3 DEF Outdate
  <2>4. QED
    BY <2>2, <2>3, <1>4
<1>14. ~RetainBegin /\ ~RetainStop /\ ~RetainProtect /\ ~RetainFacts /\ ~RetainLetters
       /\ ~RetainRaws /\ ~PublishSnapshot /\ ~DropSnapshot
  BY <1>2, <1>3 DEF RetainBegin, RetainStop, RetainProtect, RetainFacts, RetainLetters,
                    RetainRaws, PublishSnapshot, DropSnapshot
<1>15. RecordOutcome
  BY <1>5, <1>6, <1>8, <1>9, <1>10, <1>11, <1>12, <1>13, <1>14 DEF RetentionNext, LettersNext
<1>16. QED
  BY <1>15 DEF RecordOutcome

\* A letter resolved by the dead-letter job had the products of its source
\* marked since its record was stored.
THEOREM ResolvedWereMarked == RetentionSpec => ResolvedIsMarked
<1> DEFINE Marked == \A r \in job.group :
      letter[r].st = "retrying" /\ letter'[r].st = "resolved" => r \notin unmarked
<1>1. RetentionSafe /\ [RetentionNext]_<<lettersVars, retentionVars>> => [Marked]_lettersVars
  <2> SUFFICES ASSUME RetentionSafe, [RetentionNext]_<<lettersVars, retentionVars>>,
                      ~UNCHANGED lettersVars, NEW r \in job.group,
                      letter[r].st = "retrying", letter'[r].st = "resolved"
               PROVE  r \notin unmarked
    OBVIOUS
  <2>1. RetentionNext
    OBVIOUS
  <2>2. job.at = "outcome"
    BY <2>1, OnlyOutcomeResolves
  <2>3. QED
    BY <2>2 DEF RetentionSafe, LettersSafe, GroupHeld
<1>2. QED
  BY <1>1, Invariance, PTL DEF RetentionSpec, ResolvedIsMarked

===============================================================================
