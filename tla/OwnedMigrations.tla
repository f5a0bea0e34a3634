---------------------------- MODULE OwnedMigrations ----------------------------
(***************************************************************************)
(* Revisions 0004, 0005 and 0008 of the schema, which create what is not   *)
(* there yet and note in a ledger, the table eden_migration_object, what   *)
(* they created, so that their downgrades drop that and nothing else.      *)
(*                                                                         *)
(* MariaDB commits at every DDL statement, before and after it, so a row   *)
(* of the ledger lasts from the next DDL statement, or the end of the      *)
(* revision, on.  Alembic runs a revision and writes its number in one     *)
(* transaction.  A command that dies or fails is given again.              *)
(*                                                                         *)
(* An object is named <<kind, table, name>>.  A database of revision 0003  *)
(* may hold some of the objects already.                                   *)
(***************************************************************************)
EXTENDS Naturals, Sequences, SequencesExt, FiniteSets

CONSTANT MaxStops  \* bound: crashes

ASSUME MigrationAssumption == MaxStops \in Nat

VARIABLES
  exists,   \* the objects of the database
  ledger,   \* the committed rows: <<revision, object>>
  view,     \* the rows as the running transaction sees them
  filed,    \* the ledger's table exists
  version,  \* the number of revisions applied
  job,      \* the command: what it does, where it is, and the DDL done there
  before,   \* history: the objects of the database at revision 0003
  stops     \* history: crashes

migrationVars == <<exists, ledger, view, filed, version, job, before, stops>>

Object(kind, table, name) == <<kind, table, name>>
Table(t) == Object("table", t, t)
Column(t, c) == Object("column", t, c)
Index(t, i) == Object("index", t, i)
ForeignKey(t, k) == Object("foreign_key", t, k)

\* A step is the objects it creates, a statement each, unless the first exists.
Singly(objects) == [i \in 1..Len(objects) |-> <<objects[i]>>]

-----------------------------------------------------------------------------
\* What 0004 creates, by the tables it is about.
RefreshTable == Table("product_refresh_request")
NextAttempt == Column("product_refresh_request", "next_attempt_at")
ClaimIndex == Index("product_refresh_request", "ix_product_refresh_claim_due")

PlaceColumn == Column("place", "canonical_place_id")
PlaceLink == ForeignKey("place", "fk_place_canonical_place_id")
PlaceIndex == Index("place", "ix_place_canonical_place_id")

ReadIndexes == <<
  Index("area_source_map", "ix_area_source_external_code"),
  Index("place_source_map", "ix_place_source_external_content"),
  Index("place_source_map", "ix_place_source_eden"),
  Index("place_relation", "ix_place_relation_from_type_observed"),
  Index("nearby_shop", "ix_nearby_shop_area_coordinates"),
  Index("alert_document", "ix_alert_country_active_published"),
  Index("alert_revision", "ix_alert_revision_alert_revision") >>

Languages == <<Column("alert_revision", "language_original")>>

LetterDue == Column("dead_letter", "next_attempt_at")
LetterIndex == Index("dead_letter", "ix_dead_letter_retry_due")
LetterObjects == <<
  Column("dead_letter", "attempt_count"), LetterDue,
  Column("dead_letter", "last_attempt_at"), LetterIndex>>

RecordColumns == <<
  Column("raw_record", "body_encoding"), Column("raw_record", "body_blob"),
  Column("raw_record", "uncompressed_bytes"), Column("raw_record", "compressed_bytes")>>

CapacityObjects == <<
  Table("storage_capacity_sample"),
  Index("storage_capacity_sample", "ix_storage_capacity_table_sampled")>>

\* What 0005 creates.  The rows of a snapshot store are left out: those there
\* before get their state right after StateColumn, and a crash in between leaves
\* them staging, as the command given again finds the column there.
StateCheck == Object("check", "read_model_snapshot", "ck_read_model_snapshot_state")
StorageLink == ForeignKey("read_model_snapshot", "fk_read_model_snapshot_payload_id")
PayloadColumn == Column("read_model_snapshot", "payload_id")
StateColumn == Column("read_model_snapshot", "state")
RetentionIndex == Index("read_model_snapshot", "ix_read_model_retention")
StorageObjects == <<
  Table("read_model_payload"), PayloadColumn, StateColumn, StorageLink, RetentionIndex,
  StateCheck, Table("read_model_head")>>

\* What 0008 creates.
PilotObjects == <<
  Table("pilot_daily_usage"),
  Index("pilot_daily_usage", "ix_pilot_daily_usage_endpoint_date"),
  Table("pilot_event"),
  Index("pilot_event", "ix_pilot_event_pilot_occurred"),
  Index("pilot_event", "ix_pilot_event_type_occurred")>>

\* The foreign key of a place is no step of its own.
ControlUpgrade ==
  Singly(<<RefreshTable, NextAttempt, ClaimIndex>>)
    \o <<<<PlaceColumn, PlaceLink>>, <<PlaceIndex>>>>
    \o Singly(ReadIndexes \o Languages \o LetterObjects \o RecordColumns \o CapacityObjects)
Upgrades == <<ControlUpgrade, Singly(StorageObjects), Singly(PilotObjects)>>

\* A downgrade drops what its upgrade created in the reverse order, but for 0004,
\* which goes by tables, and leaves one column to the table it came with.
ControlDowngrade ==
  Reverse(CapacityObjects) \o ReadIndexes \o Reverse(LetterObjects) \o Reverse(RecordColumns)
    \o <<ClaimIndex, RefreshTable>> \o <<PlaceIndex, PlaceLink, PlaceColumn>> \o Languages
Downgrades == <<ControlDowngrade, Reverse(StorageObjects), Reverse(PilotObjects)>>

CreatedBy(r) == UNION {ToSet(Upgrades[r][i]) : i \in 1..Len(Upgrades[r])}
AllObjects == CreatedBy(1) \union CreatedBy(2) \union CreatedBy(3)
Revisions == 1..3

\* What comes with an object, and what goes with it.
Brought(o) == IF o = RefreshTable THEN {o, NextAttempt} ELSE {o}
Dropped(o) == IF o[1] = "table" THEN {p \in AllObjects : p[2] = o[2]} ELSE {o}

\* A database in which every object has its table, and what it refers to.
LinkEnds(link) ==
  IF link = PlaceLink THEN {PlaceColumn} ELSE {Table("read_model_payload"), PayloadColumn}
Indexed(o) == CASE o = PlaceIndex -> {PlaceColumn}
  [] o = ClaimIndex -> {NextAttempt}
  [] o = LetterIndex -> {LetterDue}
  [] o \in {RetentionIndex, StateCheck} -> {StateColumn}
  [] o \in {PlaceLink, StorageLink} -> LinkEnds(o)
  [] OTHER -> {}
Whole(db) ==
  \A o \in db : Indexed(o) \union ({Table(o[2])} \intersect AllObjects) \subseteq db

\* MariaDB drops nothing that a foreign key refers to.
Droppable(o) ==
  \A link \in {PlaceLink, StorageLink} \intersect exists : o \notin LinkEnds(link)

\* The databases at revision 0003: one that an earlier 0001 created from the
\* models of a later revision, and one with an odd object, or all but one.
Databases ==
  {{}, CreatedBy(1), CreatedBy(1) \union CreatedBy(2), AllObjects}
    \union {Brought(o) : o \in AllObjects} \union {AllObjects \ {o} : o \in AllObjects}

Idle == [does |-> "nothing", at |-> 0, done |-> 0]
Marker == <<0, Table("eden_migration_object")>>

MigrationInit ==
  /\ before \in {db \in Databases : Whole(db)}
  /\ exists = before /\ ledger = {} /\ view = {} /\ filed = FALSE
  /\ version = 0 /\ job = Idle /\ stops = 0

-----------------------------------------------------------------------------
\* A DDL statement commits what the transaction has written.
Commit == ledger' = view /\ UNCHANGED view
Onward == job' = [job EXCEPT !.at = @ + 1, !.done = 0]
Halfway == job' = [job EXCEPT !.done = @ + 1]

Command ==
  /\ job = Idle
  /\ \E does \in (IF version < 3 THEN {"upgrade"} ELSE {})
                   \union (IF version > 0 THEN {"downgrade"} ELSE {}) :
       job' = [job EXCEPT !.does = does]
  /\ UNCHANGED <<exists, ledger, view, filed, version, before, stops>>

\* _ensure_ownership_table; a downgrade without a ledger returns at once.
OpenLedger ==
  /\ job.does # "nothing" /\ job.at = 0
  /\ \/ filed /\ Onward /\ UNCHANGED <<ledger, view, filed, version>>
     \/ /\ ~filed /\ job.does = "upgrade" /\ Onward
        /\ filed' = TRUE /\ view' = {Marker} /\ UNCHANGED <<ledger, version>>
     \/ /\ ~filed /\ job.does = "downgrade" /\ job' = Idle
        /\ version' = version - 1 /\ UNCHANGED <<ledger, view, filed>>
  /\ UNCHANGED <<exists, before, stops>>

-----------------------------------------------------------------------------
steps == Upgrades[version + 1]
Upgrading == job.does = "upgrade" /\ job.at \in 1..Len(steps)
Rows(objects) == {version + 1} \X objects

\* mutant of Pass: the object is noted although it was there already.
PassMarking ==
  /\ Upgrading /\ job.done = 0
  /\ Head(steps[job.at]) \in exists
  /\ view' = view \union Rows(ToSet(steps[job.at]))
  /\ Onward
  /\ UNCHANGED <<exists, ledger, filed, version, before, stops>>

\* The object is there, or the table is too large to check its rows.
Pass ==
  /\ Upgrading /\ job.done = 0
  /\ Head(steps[job.at]) \in exists \union {StateCheck}
  /\ Onward
  /\ UNCHANGED <<exists, ledger, view, filed, version, before, stops>>

Create ==
  /\ Upgrading /\ job.done < Len(steps[job.at])
  /\ job.done = 0 => Head(steps[job.at]) \notin exists
  /\ exists' = exists \union Brought(steps[job.at][job.done + 1])
  /\ Commit /\ Halfway
  /\ UNCHANGED <<filed, version, before, stops>>

\* mutant of MarkOwned: only the last object of a step is noted.
MarkOwnedLast ==
  /\ Upgrading /\ job.done = Len(steps[job.at])
  /\ view' = view \union Rows({Last(steps[job.at])})
  /\ Onward
  /\ UNCHANGED <<exists, ledger, filed, version, before, stops>>

MarkOwned ==
  /\ Upgrading /\ job.done = Len(steps[job.at])
  /\ view' = view \union Rows(ToSet(steps[job.at]))
  /\ Onward
  /\ UNCHANGED <<exists, ledger, filed, version, before, stops>>

EndUpgrade ==
  /\ job.does = "upgrade" /\ job.at > Len(steps)
  /\ version' = version + 1 /\ job' = Idle
  /\ Commit
  /\ UNCHANGED <<exists, filed, before, stops>>

-----------------------------------------------------------------------------
drops == Downgrades[version]
Dropping == job.does = "downgrade" /\ job.at \in 1..Len(drops)
Owned(o) == <<version, o>> \in view

Leave ==
  /\ Dropping /\ job.done = 0
  /\ ~(Owned(drops[job.at]) /\ drops[job.at] \in exists)
  /\ Onward
  /\ UNCHANGED <<exists, ledger, view, filed, version, before, stops>>

DropOwned ==
  /\ Dropping /\ job.done = 0
  /\ Owned(drops[job.at]) /\ drops[job.at] \in exists /\ Droppable(drops[job.at])
  /\ exists' = exists \ Dropped(drops[job.at])
  /\ Commit /\ Halfway
  /\ UNCHANGED <<filed, version, before, stops>>

UnmarkOwned ==
  /\ Dropping /\ job.done = 1
  /\ view' = view \ {<<version, drops[job.at]>>}
  /\ Onward
  /\ UNCHANGED <<exists, ledger, filed, version, before, stops>>

\* _cleanup_ownership: 0004 drops the ledger it opened, once it is empty.
Cleanup ==
  /\ job.does = "downgrade" /\ job.at = Len(drops) + 1
  /\ LET kept == {row \in view : row[1] # version}
     IN IF version = 1 /\ kept = {Marker}
        THEN view' = {} /\ ledger' = {} /\ filed' = FALSE
        ELSE view' = kept /\ UNCHANGED <<ledger, filed>>
  /\ Onward
  /\ UNCHANGED <<exists, version, before, stops>>

EndDowngrade ==
  /\ job.does = "downgrade" /\ job.at = Len(drops) + 2
  /\ version' = version - 1 /\ job' = Idle
  /\ Commit
  /\ UNCHANGED <<exists, filed, before, stops>>

-----------------------------------------------------------------------------
\* What is not committed is rolled back, and the command starts again.
Restart == view' = ledger /\ job' = [job EXCEPT !.at = 0, !.done = 0]

Refused ==
  /\ Dropping /\ job.done = 0
  /\ Owned(drops[job.at]) /\ drops[job.at] \in exists /\ ~Droppable(drops[job.at])
  /\ Restart
  /\ UNCHANGED <<exists, ledger, filed, version, before, stops>>

Crash ==
  /\ job.does # "nothing" /\ stops < MaxStops
  /\ Restart /\ stops' = stops + 1
  /\ UNCHANGED <<exists, ledger, filed, version, before>>

MigrationNext ==
  \/ Command \/ OpenLedger
  \/ Pass \/ Create \/ MarkOwned \/ EndUpgrade
  \/ Leave \/ DropOwned \/ UnmarkOwned \/ Cleanup \/ EndDowngrade
  \/ Refused \/ Crash

MigrationSpec == MigrationInit /\ [][MigrationNext]_migrationVars

-----------------------------------------------------------------------------
\* Every variable keeps its type; the ledger is empty when there is none.
MigrationTypeOK ==
  /\ {exists, before} \subseteq SUBSET AllObjects
  /\ {ledger, view} \subseteq SUBSET ((Revisions \X AllObjects) \union {Marker})
  /\ filed \in BOOLEAN /\ (~filed => view = {})
  /\ version \in 0..3 /\ stops \in 0..MaxStops
  /\ job \in [does : {"nothing", "upgrade", "downgrade"}, at : Nat, done : 0..2]

\* What was there before 0004 is never dropped: not when a crash separates an
\* object from its row of the ledger, nor when a dropped object's row outlives it
\* (the tests "preserves_preexisting_0004_objects" and
\* "removes_only_indexes_and_tables_it_created").
PreexistingKept == before \subseteq exists

\* A revision that has been applied has everything it is to create, but for the
\* check that it may pass over and the foreign key of a column that was there or
\* that a crash came after (0004:188-201 adds the two or neither); and without a
\* crash, a database back at 0003 has nothing more than before, but for the column
\* that 0004 adds to a request table it found and never drops.
CommandsFinish ==
  job = Idle =>
    /\ \A r \in 1..version :
         CreatedBy(r) \ exists \subseteq
           {StateCheck} \union IF stops > 0 \/ PlaceColumn \in before THEN {PlaceLink} ELSE {}
    /\ version = 0 /\ stops = 0 => exists \subseteq before \union {NextAttempt} /\ ~filed
=============================================================================
