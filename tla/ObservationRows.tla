--------------------------- MODULE ObservationRows ---------------------------
(***************************************************************************)
(* How normalizers turn the records of a run into observation rows, and    *)
(* what a replay of dead letters does to them.  A behaviour is about one   *)
(* source and one of its rows (for "plain", one row for each record);      *)
(* "discipline" says how its normalizer writes it:                         *)
(*   visitors  regional visitors: the row is a total over the run, and an  *)
(*             older run never replaces it (public_data.py)                *)
(*   merged    airport country: flights and passengers come in separate    *)
(*             records and each keeps the other (inbound_sources.py)       *)
(*   grouped   tourism balance, weekly flights: the row is made of the     *)
(*             run's records alone                                         *)
(*   plain     exchange rates, admissions, inbound visitors, social        *)
(*             aggregates, resource demand: a record writes its own row    *)
(*   shops     nearby shops: several records show the same shop, and one   *)
(*             of them fills its row unless the row has a later time       *)
(*             (places.py)                                                 *)
(* A replay of dead letters reads the whole run again, but for shops, a    *)
(* source of ROW_IDENTITY_REPLAY_SOURCES, only the records of the letters. *)
(***************************************************************************)
EXTENDS Integers

CONSTANTS
  Parts,      \* what the records of a run are about: pages, metrics, operations
  MaxRuns,    \* bound: runs of the source
  SourceTime  \* source_updated_at of the records of each run; runs are
              \* numbered in the order of ingestion

ASSUME ObservationAssumption ==
  MaxRuns \in Nat \ {0} /\ SourceTime \in [1..MaxRuns -> Nat]

VARIABLES
  discipline, \* one of Disciplines
  runs,       \* runs so far; a run is its number
  kept,       \* kept[r]: the parts of which run r stored a record; one that has
              \* not changed since an earlier run is not stored again, and one
              \* that was not fetched is not stored either
  good,       \* good[r]: the parts whose record the normalizer accepts
  row         \* [at, from]: the run whose times the row carries, and the run
              \* from which each part of it comes

observationVars == <<discipline, runs, kept, good, row>>

Disciplines == {"visitors", "merged", "grouped", "plain", "shops"}
NoRun == 0
EmptyRow == [at |-> NoRun, from |-> [p \in Parts |-> NoRun]]
Parted(r, parts, old) == [p \in Parts |-> IF p \in parts THEN r ELSE old[p]]

ObservationInit ==
  /\ discipline \in Disciplines
  /\ runs = 0
  /\ kept = [r \in 1..MaxRuns |-> {}]
  /\ good = [r \in 1..MaxRuns |-> {}]
  /\ row = EmptyRow

-----------------------------------------------------------------------------
\* _write_regional_visit_groups, _write_regional_visit_batch: a total with an
\* earlier pair of times than the row is passed over.
Earlier(r, q) ==
  q # NoRun /\ (SourceTime[r] < SourceTime[q] \/ (SourceTime[r] = SourceTime[q] /\ r < q))
TotalWritten(r, parts) ==
  IF Earlier(r, row.at) THEN row ELSE [at |-> r, from |-> Parted(r, parts, EmptyRow.from)]

\* _write_shop_batch: all columns are compared with the time the row had, as
\* source_updated_at is assigned last; the last record of the run wins.
ShopWritten(r, parts) ==
  IF row.at # NoRun /\ SourceTime[r] < SourceTime[row.at] THEN row
  ELSE [at |-> r, from |-> Parted(r, {CHOOSE p \in parts : TRUE}, EmptyRow.from)]

\* merge_airport_metrics: the fact a record does not have is kept.
FactsMerged(r, parts) == [at |-> r, from |-> Parted(r, parts, row.from)]

\* normalize_bok_run, normalize_airport_weekly_run: what the run does not have
\* is unknown.
GroupWritten(r, parts) == [at |-> r, from |-> Parted(r, parts, EmptyRow.from)]

\* normalize_fx_run and its like: on duplicate key, every value is replaced.
PlainWritten(r, parts) == [at |-> r, from |-> Parted(r, parts, row.from)]

RowAfter(r, parts) ==
  IF parts = {} THEN row
  ELSE CASE discipline = "visitors" -> TotalWritten(r, parts)
         [] discipline = "merged" -> FactsMerged(r, parts)
         [] discipline = "grouped" -> GroupWritten(r, parts)
         [] discipline = "plain" -> PlainWritten(r, parts)
         [] discipline = "shops" -> ShopWritten(r, parts)

\* A run stores the records that changed, and its normalizer accepts some.
Normalize ==
  /\ runs < MaxRuns
  /\ runs' = runs + 1
  /\ \E changed \in SUBSET Parts : \E fine \in SUBSET changed :
       /\ kept' = [kept EXCEPT ![runs'] = changed]
       /\ good' = [good EXCEPT ![runs'] = fine]
       /\ row' = RowAfter(runs', fine)
  /\ UNCHANGED discipline

\* mutant of ReadAgain: only the records of the letters are read.
ReadLetters(r, letters, fine) == letters \intersect fine

\* What a replay of the letters of some parts writes: regional visitors are
\* added up again over the whole run and written if a letter is part of the
\* total (a run that had none yet is written anyway, and then every part is a
\* letter's); shops read the letters; the rest write everything the run has.
ReadAgain(r, letters, fine) ==
  CASE discipline = "visitors" -> IF letters \intersect fine = {} THEN {} ELSE fine
    [] discipline = "shops" -> letters \intersect fine
    [] OTHER -> fine

\* reprocess_normalization_run: a letter may be accepted now, as the reference
\* data it lacked has come.
ReplayRun(r) ==
  \E letters \in (SUBSET (kept[r] \ good[r])) \ {{}} : \E mended \in SUBSET letters :
    /\ good' = [good EXCEPT ![r] = @ \union mended]
    /\ row' = RowAfter(r, ReadAgain(r, letters, good'[r]))
    /\ UNCHANGED <<discipline, runs, kept>>

ObservationNext == Normalize \/ \E r \in 1..runs : ReplayRun(r)

ObservationSpec == ObservationInit /\ [][ObservationNext]_observationVars

-----------------------------------------------------------------------------
\* Every variable keeps its type.
ObservationTypeOK ==
  /\ discipline \in Disciplines
  /\ runs \in 0..MaxRuns
  /\ kept \in [1..MaxRuns -> SUBSET Parts]
  /\ good \in [1..MaxRuns -> SUBSET Parts]
  /\ row \in [at : 0..MaxRuns, from : [Parts -> 0..MaxRuns]]

Accepted == {r \in 1..MaxRuns : good[r] # {}}

\* In whatever order runs and replays of their letters come, a visitor total
\* adds up all that one run has, the newest of those that have a part of it:
\* never parts of two runs, never those of an earlier run and never the
\* replayed part alone; an airport row has every fact that any record ever
\* gave; and a shop is never shown as of an earlier time than a record gave
\* (public_data.py:515-575, inbound_sources.py:109-120, places.py:851-884).
\* What a run has need not be the whole: a part it did not store because
\* nothing had changed (ingestion/service.py:590), or that its normalizer
\* refused, is missing from the total, which is stored as complete all the same
\* (public_data.py:450).
TotalsAreOfOneRun ==
  /\ discipline = "visitors" /\ Accepted # {} =>
       \E r \in Accepted :
         /\ \A q \in Accepted : ~Earlier(r, q)
         /\ row = [at |-> r, from |-> Parted(r, good[r], EmptyRow.from)]
  /\ discipline = "merged" =>
       \A p \in Parts : (\E r \in 1..MaxRuns : p \in good[r]) => row.from[p] # NoRun
  /\ discipline = "shops" =>
       \A r \in Accepted : row.at # NoRun /\ SourceTime[r] <= SourceTime[row.at]
=============================================================================
