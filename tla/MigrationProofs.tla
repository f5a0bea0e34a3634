--------------------------- MODULE MigrationProofs ---------------------------
(*****************************************************************************)
(* Proofs about the revisions of the schema: what the downgrades of owned    *)
(* revisions drop, and what readers of snapshots see while 0006 and 0007     *)
(* move the payloads.                                                        *)
(*****************************************************************************)
EXTENDS MCRefreshAndSchema, ProductRefreshProofs, NaturalsInduction, WellFoundedInduction,
        TLAPS

-----------------------------------------------------------------------------
(*****************************************************************************)
(* OwnedMigrations: what the downgrades of owned revisions drop, for any     *)
(* number of crashes and of commands, and every database whose objects       *)
(* have what they refer to.                                                  *)
(*****************************************************************************)

(* Lists of objects, and the steps that create them. *)

Listed(q, S) == q \in Seq(S) /\ ToSet(q) = S

LEMMA ListedIndexes ==
  ASSUME NEW S, NEW q, Listed(q, S)
  PROVE  /\ Len(q) \in Nat
         /\ \A i \in 1..Len(q) : q[i] \in S
         /\ \A o \in S : \E i \in 1..Len(q) : q[i] = o
  BY DEF Listed, ToSet

\* Lists that are written out.
LEMMA ListOfOne == ASSUME NEW a PROVE Listed(<<a>>, {a})
  BY DEF Listed, ToSet

LEMMA ListedConcat ==
  ASSUME NEW S, NEW T, NEW p, NEW q, Listed(p, S), Listed(q, T)
  PROVE  Listed(p \o q, S \union T)
<1>1. p \in Seq(S \union T) /\ q \in Seq(S \union T)
  BY DEF Listed
<1>2. p \o q \in Seq(S \union T) /\ Len(p \o q) = Len(p) + Len(q) /\ Len(p) \in Nat /\ Len(q) \in Nat
  BY <1>1
<1>3. ASSUME NEW i \in 1..Len(p \o q) PROVE (p \o q)[i] \in S \union T
  BY <1>2
<1>4. ASSUME NEW o \in S PROVE \E i \in 1..Len(p \o q) : (p \o q)[i] = o
  <2>1. PICK i \in 1..Len(p) : p[i] = o
    BY ListedIndexes
  <2>2. i \in 1..Len(p \o q) /\ (p \o q)[i] = o
    BY <1>1, <1>2, <2>1
  <2>3. QED
    BY <2>2
<1>5. ASSUME NEW o \in T PROVE \E i \in 1..Len(p \o q) : (p \o q)[i] = o
  <2>1. PICK i \in 1..Len(q) : q[i] = o
    BY ListedIndexes
  <2>2. Len(p) + i \in 1..Len(p \o q) /\ (p \o q)[Len(p) + i] = o
    BY <1>1, <1>2, <2>1
  <2>3. QED
    BY <2>2
<1>6. DOMAIN (p \o q) = 1..Len(p \o q)
  BY <1>2
<1>7. QED
  BY <1>2, <1>3, <1>4, <1>5, <1>6 DEF Listed, ToSet

LEMMA ListedReverse ==
  ASSUME NEW S, NEW q, Listed(q, S)
  PROVE  Listed(Reverse(q), S)
<1>1. q \in Seq(S) /\ Len(q) \in Nat
  BY DEF Listed
<1>2. Reverse(q) \in Seq(S) /\ Len(Reverse(q)) = Len(q)
  BY <1>1 DEF Reverse
<1>3. ASSUME NEW o \in S PROVE \E i \in 1..Len(q) : Reverse(q)[i] = o
  <2>1. PICK i \in 1..Len(q) : q[i] = o
    BY ListedIndexes
  <2>2. /\ Len(q) - i + 1 \in 1..Len(q)
        /\ Len(q) - (Len(q) - i + 1) + 1 = i
    BY <1>1
  <2>3. Reverse(q)[Len(q) - i + 1] = o
    BY <1>1, <2>1, <2>2 DEF Reverse
  <2>4. QED
    BY <2>2, <2>3
<1>4. DOMAIN Reverse(q) = 1..Len(q)
  BY <1>1 DEF Reverse
<1>5. \A i \in 1..Len(q) : Reverse(q)[i] \in S
  BY <1>2
<1>6. QED
  BY <1>2, <1>3, <1>4, <1>5 DEF Listed, ToSet

LEMMA ListByIndex ==
  ASSUME NEW S, NEW q \in Seq(S), \A o \in S : \E i \in 1..Len(q) : q[i] = o
  PROVE  Listed(q, S)
<1>1. DOMAIN q = 1..Len(q) /\ \A i \in 1..Len(q) : q[i] \in S
  OBVIOUS
<1>2. QED
  BY <1>1 DEF Listed, ToSet

LEMMA ListOfTwo ==
  ASSUME NEW a, NEW b
  PROVE  Listed(<<a, b>>, {a, b})
<1> DEFINE q == <<a, b>>
           S == {a, b}
<1>1. q \in Seq(S) /\ Len(q) = 2
  OBVIOUS
<1>2. q[1] = a /\ q[2] = b
  OBVIOUS
<1>3. \A o \in S : \E i \in 1..Len(q) : q[i] = o
  BY <1>1, <1>2
<1> HIDE DEF q, S
<1>4. Listed(q, S)
  BY <1>1, <1>3, ListByIndex
<1>5. QED
  BY <1>4 DEF q, S

LEMMA ListOfThree ==
  ASSUME NEW a, NEW b, NEW c
  PROVE  Listed(<<a, b, c>>, {a, b, c})
<1> DEFINE q == <<a, b, c>>
           S == {a, b, c}
<1>1. q \in Seq(S) /\ Len(q) = 3
  OBVIOUS
<1>2. q[1] = a /\ q[2] = b /\ q[3] = c
  OBVIOUS
<1>3. \A o \in S : \E i \in 1..Len(q) : q[i] = o
  BY <1>1, <1>2
<1> HIDE DEF q, S
<1>4. Listed(q, S)
  BY <1>1, <1>3, ListByIndex
<1>5. QED
  BY <1>4 DEF q, S

LEMMA ListOfFour ==
  ASSUME NEW a, NEW b, NEW c, NEW d
  PROVE  Listed(<<a, b, c, d>>, {a, b, c, d})
<1> DEFINE q == <<a, b, c, d>>
           S == {a, b, c, d}
<1>1. q \in Seq(S) /\ Len(q) = 4
  OBVIOUS
<1>2. q[1] = a /\ q[2] = b /\ q[3] = c /\ q[4] = d
  OBVIOUS
<1>3. \A o \in S : \E i \in 1..Len(q) : q[i] = o
  BY <1>1, <1>2
<1> HIDE DEF q, S
<1>4. Listed(q, S)
  BY <1>1, <1>3, ListByIndex
<1>5. QED
  BY <1>4 DEF q, S

LEMMA ListOfFive ==
  ASSUME NEW a, NEW b, NEW c, NEW d, NEW e
  PROVE  Listed(<<a, b, c, d, e>>, {a, b, c, d, e})
<1> DEFINE q == <<a, b, c, d, e>>
           S == {a, b, c, d, e}
<1>1. q \in Seq(S) /\ Len(q) = 5
  OBVIOUS
<1>2. q[1] = a /\ q[2] = b /\ q[3] = c /\ q[4] = d /\ q[5] = e
  OBVIOUS
<1>3. \A o \in S : \E i \in 1..Len(q) : q[i] = o
  BY <1>1, <1>2
<1> HIDE DEF q, S
<1>4. Listed(q, S)
  BY <1>1, <1>3, ListByIndex
<1>5. QED
  BY <1>4 DEF q, S

LEMMA ListOfSeven ==
  ASSUME NEW a, NEW b, NEW c, NEW d, NEW e, NEW f, NEW g
  PROVE  Listed(<<a, b, c, d, e, f, g>>, {a, b, c, d, e, f, g})
<1> DEFINE q == <<a, b, c, d, e, f, g>>
           S == {a, b, c, d, e, f, g}
<1>1. q \in Seq(S) /\ Len(q) = 7
  OBVIOUS
<1>2. q[1] = a /\ q[2] = b /\ q[3] = c /\ q[4] = d /\ q[5] = e /\ q[6] = f /\ q[7] = g
  OBVIOUS
<1>3. \A o \in S : \E i \in 1..Len(q) : q[i] = o
  BY <1>1, <1>2
<1> HIDE DEF q, S
<1>4. Listed(q, S)
  BY <1>1, <1>3, ListByIndex
<1>5. QED
  BY <1>4 DEF q, S

\* A table is named as such; other objects may be named as they like.
Tidy(o) == o[1] = "table" => o = Table(o[2])

\* A step creates one object, or a column and the foreign key on it.
GoodStep(s) ==
  \/ \E o : s = <<o>> /\ Tidy(o) /\ o # PlaceColumn
  \/ s = <<PlaceColumn, PlaceLink>>
GoodSteps(q) ==
  /\ \E S : q \in Seq(S)
  /\ \A i \in 1..Len(q) : GoodStep(q[i])
Makes(q, S) == GoodSteps(q) /\ UNION {ToSet(q[i]) : i \in 1..Len(q)} = S

LEMMA SinglyMakes ==
  ASSUME NEW S, NEW q, Listed(q, S), \A o \in S : Tidy(o) /\ o # PlaceColumn
  PROVE  Makes(Singly(q), S)
<1>1. q \in Seq(S) /\ Len(q) \in Nat /\ \A i \in 1..Len(q) : q[i] \in S
  BY ListedIndexes DEF Listed
<1>2. Singly(q) \in Seq({<<o>> : o \in S}) /\ Len(Singly(q)) = Len(q)
  BY <1>1 DEF Singly
<1>3. \A i \in 1..Len(q) : Singly(q)[i] = <<q[i]>> /\ ToSet(Singly(q)[i]) = {q[i]}
  BY <1>1, ListOfOne DEF Singly, Listed
<1>4. GoodSteps(Singly(q))
  BY <1>1, <1>2, <1>3 DEF GoodSteps, GoodStep
<1>5. UNION {{q[i]} : i \in 1..Len(q)} = S
  BY <1>1, ListedIndexes
<1>6. {ToSet(Singly(q)[i]) : i \in 1..Len(q)} = {{q[i]} : i \in 1..Len(q)}
  BY <1>3
<1>7. QED
  BY <1>2, <1>4, <1>5, <1>6 DEF Makes

LEMMA MakesConcat ==
  ASSUME NEW S, NEW T, NEW p, NEW q, Makes(p, S), Makes(q, T)
  PROVE  Makes(p \o q, S \union T)
<1> DEFINE w == p \o q
<1>1. PICK A : p \in Seq(A)
  BY DEF Makes, GoodSteps
<1>2. PICK B : q \in Seq(B)
  BY DEF Makes, GoodSteps
<1>3. p \in Seq(A \union B) /\ q \in Seq(A \union B)
  BY <1>1, <1>2
<1>4. /\ w \in Seq(A \union B) /\ Len(w) = Len(p) + Len(q)
      /\ Len(p) \in Nat /\ Len(q) \in Nat
      /\ \A i \in 1..Len(p) : w[i] = p[i]
      /\ \A i \in 1..Len(q) : w[Len(p) + i] = q[i]
  BY <1>3
<1>5. ASSUME NEW i \in 1..Len(w)
      PROVE  \/ i \in 1..Len(p) /\ w[i] = p[i]
             \/ i - Len(p) \in 1..Len(q) /\ w[i] = q[i - Len(p)]
  BY <1>3
<1> HIDE DEF w
<1>6. GoodSteps(w)
  <2>1. \A i \in 1..Len(p) : GoodStep(p[i])
    BY DEF Makes, GoodSteps
  <2>2. \A i \in 1..Len(q) : GoodStep(q[i])
    BY DEF Makes, GoodSteps
  <2>3. \A i \in 1..Len(w) : GoodStep(w[i])
    BY <1>5, <2>1, <2>2
  <2>4. QED
    BY <1>4, <2>3 DEF GoodSteps
<1>7. UNION {ToSet(p[i]) : i \in 1..Len(p)} = S /\ UNION {ToSet(q[i]) : i \in 1..Len(q)} = T
  BY DEF Makes
<1>8. ASSUME NEW o, NEW i \in 1..Len(w), o \in ToSet(w[i])
      PROVE  o \in S \union T
  BY <1>5, <1>7, <1>8
<1>9. ASSUME NEW o \in S PROVE \E i \in 1..Len(w) : o \in ToSet(w[i])
  <2>1. PICK i \in 1..Len(p) : o \in ToSet(p[i])
    BY <1>7
  <2>2. i \in 1..Len(w) /\ o \in ToSet(w[i])
    BY <1>4, <2>1
  <2>3. QED
    BY <2>2
<1>10. ASSUME NEW o \in T PROVE \E i \in 1..Len(w) : o \in ToSet(w[i])
  <2>1. PICK i \in 1..Len(q) : o \in ToSet(q[i])
    BY <1>7
  <2>2. Len(p) + i \in 1..Len(w) /\ o \in ToSet(w[Len(p) + i])
    BY <1>4, <2>1
  <2>3. QED
    BY <2>2
<1>11. UNION {ToSet(w[i]) : i \in 1..Len(w)} = S \union T
  BY <1>8, <1>9, <1>10
<1>12. QED
  BY <1>6, <1>11 DEF Makes, w

-----------------------------------------------------------------------------
(* The objects of the revisions. *)

OtherTables == {"area_source_map", "place_source_map", "place_relation", "nearby_shop",
                "alert_document", "alert_revision", "dead_letter", "raw_record",
                "storage_capacity_sample"}
StorageTables == {"read_model_payload", "read_model_snapshot", "read_model_head"}
PilotTables == {"pilot_daily_usage", "pilot_event"}
TablesOf(r) ==
  CASE r = 1 -> OtherTables \union {"place", "product_refresh_request"}
    [] r = 2 -> StorageTables
    [] r = 3 -> PilotTables

\* A list of objects of some tables.
OfTables(q, T) == Listed(q, ToSet(q)) /\ \A o \in ToSet(q) : Tidy(o) /\ o[2] \in T

LEMMA Named ==
  /\ \A t : Tidy(Table(t)) /\ Table(t)[2] = t
  /\ \A t, n : Tidy(Column(t, n)) /\ Tidy(Index(t, n)) /\ Tidy(ForeignKey(t, n))
  /\ \A t, n : Column(t, n)[2] = t /\ Index(t, n)[2] = t /\ ForeignKey(t, n)[2] = t
  /\ Tidy(StateCheck) /\ StateCheck[2] = "read_model_snapshot"
  BY DEF Tidy, Table, Column, Index, ForeignKey, StateCheck, Object

LEMMA OfTheseTables ==
  ASSUME NEW q, NEW S, Listed(q, S), NEW T, \A o \in S : Tidy(o) /\ o[2] \in T
  PROVE  OfTables(q, T)
  BY DEF OfTables, Listed

LEMMA ListsOfObjects ==
  /\ OfTables(ReadIndexes, OtherTables) /\ OfTables(Languages, OtherTables)
  /\ OfTables(LetterObjects, OtherTables) /\ OfTables(RecordColumns, OtherTables)
  /\ OfTables(CapacityObjects, OtherTables)
  /\ OfTables(StorageObjects, StorageTables) /\ OfTables(PilotObjects, PilotTables)
<1>1. OfTables(ReadIndexes, OtherTables)
  <2> DEFINE S ==
           {Index("area_source_map", "ix_area_source_external_code"),
            Index("place_source_map", "ix_place_source_external_content"),
            Index("place_source_map", "ix_place_source_eden"),
            Index("place_relation", "ix_place_relation_from_type_observed"),
            Index("nearby_shop", "ix_nearby_shop_area_coordinates"),
            Index("alert_document", "ix_alert_country_active_published"),
            Index("alert_revision", "ix_alert_revision_alert_revision")}
  <2>1. Listed(ReadIndexes, S)
    BY ListOfSeven DEF ReadIndexes
  <2>2. \A o \in S : Tidy(o) /\ o[2] \in OtherTables
    BY Named DEF OtherTables
  <2> HIDE DEF S
  <2>3. QED
    BY <2>1, <2>2, OfTheseTables
<1>2. OfTables(Languages, OtherTables)
  <2> DEFINE S ==
           {Column("alert_revision", "language_original")}
  <2>1. Listed(Languages, S)
    BY ListOfOne DEF Languages
  <2>2. \A o \in S : Tidy(o) /\ o[2] \in OtherTables
    BY Named DEF OtherTables
  <2> HIDE DEF S
  <2>3. QED
    BY <2>1, <2>2, OfTheseTables
<1>3. OfTables(LetterObjects, OtherTables)
  <2> DEFINE S ==
           {Column("dead_letter", "attempt_count"), LetterDue,
            Column("dead_letter", "last_attempt_at"), LetterIndex}
  <2>1. Listed(LetterObjects, S)
    BY ListOfFour DEF LetterObjects
  <2>2. \A o \in S : Tidy(o) /\ o[2] \in OtherTables
    BY Named DEF LetterDue, LetterIndex, OtherTables
  <2> HIDE DEF S
  <2>3. QED
    BY <2>1, <2>2, OfTheseTables
<1>4. OfTables(RecordColumns, OtherTables)
  <2> DEFINE S ==
           {Column("raw_record", "body_encoding"), Column("raw_record", "body_blob"),
            Column("raw_record", "uncompressed_bytes"),
            Column("raw_record", "compressed_bytes")}
  <2>1. Listed(RecordColumns, S)
    BY ListOfFour DEF RecordColumns
  <2>2. \A o \in S : Tidy(o) /\ o[2] \in OtherTables
    BY Named DEF OtherTables
  <2> HIDE DEF S
  <2>3. QED
    BY <2>1, <2>2, OfTheseTables
<1>5. OfTables(CapacityObjects, OtherTables)
  <2> DEFINE S ==
           {Table("storage_capacity_sample"),
            Index("storage_capacity_sample", "ix_storage_capacity_table_sampled")}
  <2>1. Listed(CapacityObjects, S)
    BY ListOfTwo DEF CapacityObjects
  <2>2. \A o \in S : Tidy(o) /\ o[2] \in OtherTables
    BY Named DEF OtherTables
  <2> HIDE DEF S
  <2>3. QED
    BY <2>1, <2>2, OfTheseTables
<1>6. OfTables(StorageObjects, StorageTables)
  <2> DEFINE S ==
           {Table("read_model_payload"), PayloadColumn, StateColumn, StorageLink,
            RetentionIndex, StateCheck, Table("read_model_head")}
  <2>1. Listed(StorageObjects, S)
    BY ListOfSeven DEF StorageObjects
  <2>2. \A o \in S : Tidy(o) /\ o[2] \in StorageTables
    BY Named DEF PayloadColumn, StateColumn, StorageLink, RetentionIndex, StorageTables
  <2> HIDE DEF S
  <2>3. QED
    BY <2>1, <2>2, OfTheseTables
<1>7. OfTables(PilotObjects, PilotTables)
  <2> DEFINE S ==
           {Table("pilot_daily_usage"),
            Index("pilot_daily_usage", "ix_pilot_daily_usage_endpoint_date"),
            Table("pilot_event"),
            Index("pilot_event", "ix_pilot_event_pilot_occurred"),
            Index("pilot_event", "ix_pilot_event_type_occurred")}
  <2>1. Listed(PilotObjects, S)
    BY ListOfFive DEF PilotObjects
  <2>2. \A o \in S : Tidy(o) /\ o[2] \in PilotTables
    BY Named DEF PilotTables
  <2> HIDE DEF S
  <2>3. QED
    BY <2>1, <2>2, OfTheseTables
<1>8. QED
  BY <1>1, <1>2, <1>3, <1>4, <1>5, <1>6, <1>7

LEMMA ControlObjects ==
  /\ GoodSteps(ControlUpgrade)
  /\ Listed(ControlDowngrade, CreatedBy(1) \ {NextAttempt})
  /\ {PlaceColumn, PlaceLink, NextAttempt, RefreshTable} \subseteq CreatedBy(1)
  /\ \A o \in CreatedBy(1) : o[2] \in TablesOf(1)
<1> DEFINE R == {RefreshTable, NextAttempt, ClaimIndex}
           P == {PlaceColumn, PlaceLink, PlaceIndex}
           A == ToSet(ReadIndexes) \union ToSet(Languages) \union ToSet(LetterObjects)
                  \union ToSet(RecordColumns) \union ToSet(CapacityObjects)
           others == ReadIndexes \o Languages \o LetterObjects \o RecordColumns \o CapacityObjects
           placing == <<<<PlaceColumn, PlaceLink>>, <<PlaceIndex>>>>
<1>1. \A o \in A : Tidy(o) /\ o[2] \in OtherTables
  BY ListsOfObjects DEF OfTables
<1>2. \A o \in R : Tidy(o) /\ o[2] = "product_refresh_request"
  BY Named DEF RefreshTable, NextAttempt, ClaimIndex
<1>3. \A o \in P : Tidy(o) /\ o[2] = "place"
  BY Named DEF PlaceColumn, PlaceLink, PlaceIndex
<1>4. "product_refresh_request" \notin OtherTables /\ "place" \notin OtherTables
  BY DEF OtherTables
<1>5. PlaceColumn \notin A /\ PlaceColumn \notin R
  BY <1>1, <1>2, <1>3, <1>4
<1>6. Makes(Singly(<<RefreshTable, NextAttempt, ClaimIndex>>), R)
  BY <1>2, <1>5, ListOfThree, SinglyMakes
<1>7. Makes(placing, P)
  <2>1. PlaceIndex # PlaceColumn
    BY DEF PlaceIndex, PlaceColumn, Index, Column, Object
  <2>2. GoodStep(<<PlaceColumn, PlaceLink>>) /\ GoodStep(<<PlaceIndex>>)
    BY <1>3, <2>1 DEF GoodStep
  <2>3. ToSet(<<PlaceColumn, PlaceLink>>) = {PlaceColumn, PlaceLink}
    BY ListOfTwo DEF Listed
  <2>4. ToSet(<<PlaceIndex>>) = {PlaceIndex}
    BY ListOfOne DEF Listed
  <2>5. /\ placing \in Seq({<<PlaceColumn, PlaceLink>>, <<PlaceIndex>>}) /\ Len(placing) = 2
        /\ placing[1] = <<PlaceColumn, PlaceLink>> /\ placing[2] = <<PlaceIndex>>
    OBVIOUS
  <2> HIDE DEF placing
  <2>6. \A i \in 1..2 : i = 1 \/ i = 2
    OBVIOUS
  <2>7. GoodSteps(placing)
    BY <2>2, <2>5, <2>6 DEF GoodSteps
  <2>8. ToSet(placing[1]) \union ToSet(placing[2]) = P
    BY <2>3, <2>4, <2>5
  <2>9. 1 \in 1..2 /\ 2 \in 1..2
    OBVIOUS
  <2>10. UNION {ToSet(placing[i]) : i \in 1..2} = ToSet(placing[1]) \union ToSet(placing[2])
    BY <2>6, <2>9, Zenon
  <2>11. QED
    BY <2>5, <2>7, <2>8, <2>10 DEF Makes
<1>8. Listed(others, A)
  <2>1. /\ Listed(ReadIndexes, ToSet(ReadIndexes)) /\ Listed(Languages, ToSet(Languages))
        /\ Listed(LetterObjects, ToSet(LetterObjects))
        /\ Listed(RecordColumns, ToSet(RecordColumns))
        /\ Listed(CapacityObjects, ToSet(CapacityObjects))
    BY ListsOfObjects DEF OfTables
  <2>2. QED
    BY <2>1, ListedConcat
<1>9. Makes(Singly(others), A)
  BY <1>1, <1>5, <1>8, SinglyMakes
<1>10. Makes(ControlUpgrade, R \union P \union A)
  BY <1>6, <1>7, <1>9, MakesConcat DEF ControlUpgrade
<1>11. CreatedBy(1) = R \union P \union A
  <2>1. Upgrades[1] = ControlUpgrade
    BY DEF Upgrades
  <2>2. QED
    BY <1>10, <2>1 DEF CreatedBy, Makes
<1>12. Listed(ControlDowngrade,
              A \union {ClaimIndex, RefreshTable} \union {PlaceIndex, PlaceLink, PlaceColumn})
  <2>1. /\ Listed(ReadIndexes, ToSet(ReadIndexes)) /\ Listed(Languages, ToSet(Languages))
        /\ Listed(Reverse(LetterObjects), ToSet(LetterObjects))
        /\ Listed(Reverse(RecordColumns), ToSet(RecordColumns))
        /\ Listed(Reverse(CapacityObjects), ToSet(CapacityObjects))
    BY ListsOfObjects, ListedReverse DEF OfTables
  <2>2. /\ Listed(<<ClaimIndex, RefreshTable>>, {ClaimIndex, RefreshTable})
        /\ Listed(<<PlaceIndex, PlaceLink, PlaceColumn>>, {PlaceIndex, PlaceLink, PlaceColumn})
    BY ListOfTwo, ListOfThree
  <2>3. Listed(ControlDowngrade,
          ToSet(CapacityObjects) \union ToSet(ReadIndexes) \union ToSet(LetterObjects)
            \union ToSet(RecordColumns) \union {ClaimIndex, RefreshTable}
            \union {PlaceIndex, PlaceLink, PlaceColumn} \union ToSet(Languages))
    BY <2>1, <2>2, ListedConcat DEF ControlDowngrade
  <2>4. ToSet(CapacityObjects) \union ToSet(ReadIndexes) \union ToSet(LetterObjects)
            \union ToSet(RecordColumns) \union {ClaimIndex, RefreshTable}
            \union {PlaceIndex, PlaceLink, PlaceColumn} \union ToSet(Languages)
        = A \union {ClaimIndex, RefreshTable} \union {PlaceIndex, PlaceLink, PlaceColumn}
    OBVIOUS
  <2>5. QED
    BY <2>3, <2>4
<1>13. CreatedBy(1) \ {NextAttempt} =
         A \union {ClaimIndex, RefreshTable} \union {PlaceIndex, PlaceLink, PlaceColumn}
  <2>1. NextAttempt \notin A /\ NextAttempt \notin P
    BY <1>1, <1>2, <1>3, <1>4
  <2>2. NextAttempt # ClaimIndex /\ NextAttempt # RefreshTable
    BY DEF NextAttempt, ClaimIndex, RefreshTable, Column, Index, Table, Object
  <2>3. QED
    BY <1>11, <2>1, <2>2
<1>14. \A o \in CreatedBy(1) : o[2] \in TablesOf(1)
  <2>1. TablesOf(1) = OtherTables \union {"place", "product_refresh_request"}
    BY DEF TablesOf
  <2>2. QED
    BY <1>1, <1>2, <1>3, <1>11, <2>1
<1>15. {PlaceColumn, PlaceLink, NextAttempt, RefreshTable} \subseteq CreatedBy(1)
  BY <1>11
<1>16. GoodSteps(ControlUpgrade)
  BY <1>10 DEF Makes
<1>17. Listed(ControlDowngrade, CreatedBy(1) \ {NextAttempt})
  BY <1>12, <1>13
<1>18. QED
  BY <1>14, <1>15, <1>16, <1>17

LEMMA RevisionObjects ==
  ASSUME NEW r \in Revisions
  PROVE  /\ GoodSteps(Upgrades[r])
         /\ Listed(Downgrades[r], CreatedBy(r) \ {NextAttempt})
         /\ \A o \in CreatedBy(r) : o[2] \in TablesOf(r)
         /\ CreatedBy(r) \subseteq AllObjects
         /\ \A i \in 1..Len(Upgrades[r]) : ToSet(Upgrades[r][i]) \subseteq CreatedBy(r)
<1>1. r = 1 \/ r = 2 \/ r = 3
  BY DEF Revisions
<1>2. /\ Upgrades[1] = ControlUpgrade /\ Upgrades[2] = Singly(StorageObjects)
      /\ Upgrades[3] = Singly(PilotObjects)
  BY DEF Upgrades
<1>3. /\ Downgrades[1] = ControlDowngrade /\ Downgrades[2] = Reverse(StorageObjects)
      /\ Downgrades[3] = Reverse(PilotObjects)
  BY DEF Downgrades
<1>4. ASSUME NEW q, NEW T, OfTables(q, T), "place" \notin T, "product_refresh_request" \notin T
      PROVE  /\ Makes(Singly(q), ToSet(q))
             /\ Listed(Reverse(q), ToSet(q) \ {NextAttempt})
             /\ \A o \in ToSet(q) : o[2] \in T
  <2>1. PlaceColumn[2] = "place" /\ NextAttempt[2] = "product_refresh_request"
    BY Named DEF PlaceColumn, NextAttempt
  <2>2. \A o \in ToSet(q) : Tidy(o) /\ o[2] \in T /\ o # PlaceColumn /\ o # NextAttempt
    BY <1>4, <2>1 DEF OfTables
  <2>3. Listed(q, ToSet(q)) /\ ToSet(q) \ {NextAttempt} = ToSet(q)
    BY <1>4, <2>2 DEF OfTables
  <2>4. QED
    BY <2>2, <2>3, SinglyMakes, ListedReverse
<1>5. CASE r = 1
  BY <1>2, <1>3, <1>5, ControlObjects DEF AllObjects, CreatedBy
<1>6. CASE r = 2
  <2>1. /\ Makes(Upgrades[r], ToSet(StorageObjects))
        /\ Listed(Downgrades[r], ToSet(StorageObjects) \ {NextAttempt})
        /\ \A o \in ToSet(StorageObjects) : o[2] \in TablesOf(2)
    <3>1. "place" \notin StorageTables /\ "product_refresh_request" \notin StorageTables
      BY DEF StorageTables
    <3>2. TablesOf(2) = StorageTables
      BY DEF TablesOf
    <3>3. QED
      BY <1>2, <1>3, <1>4, <1>6, <3>1, <3>2, ListsOfObjects
  <2>2. QED
    BY <1>6, <2>1 DEF Makes, CreatedBy, AllObjects
<1>7. CASE r = 3
  <2>1. /\ Makes(Upgrades[r], ToSet(PilotObjects))
        /\ Listed(Downgrades[r], ToSet(PilotObjects) \ {NextAttempt})
        /\ \A o \in ToSet(PilotObjects) : o[2] \in TablesOf(3)
    <3>1. "place" \notin PilotTables /\ "product_refresh_request" \notin PilotTables
      BY DEF PilotTables
    <3>2. TablesOf(3) = PilotTables
      BY DEF TablesOf
    <3>3. QED
      BY <1>2, <1>3, <1>4, <1>7, <3>1, <3>2, ListsOfObjects
  <2>2. QED
    BY <1>7, <2>1 DEF Makes, CreatedBy, AllObjects
<1>8. QED
  BY <1>1, <1>5, <1>6, <1>7

\* No two revisions create something in one table.
LEMMA RevisionsApart ==
  ASSUME NEW r \in Revisions, NEW q \in Revisions, r # q,
         NEW o \in CreatedBy(r), NEW p \in CreatedBy(q)
  PROVE  p[2] # o[2] /\ p # o /\ p \notin Dropped(o)
<1>1. o[2] \in TablesOf(r) /\ p[2] \in TablesOf(q)
  BY RevisionObjects
<1>2. TablesOf(r) \intersect TablesOf(q) = {}
  BY DEF TablesOf, OtherTables, StorageTables, PilotTables, Revisions
<1>3. p[2] # o[2]
  BY <1>1, <1>2
<1>4. QED
  BY <1>3 DEF Dropped

\* What a step creates.
LEMMA StepObjects ==
  ASSUME NEW s, GoodStep(s)
  PROVE  /\ Len(s) \in 1..2 /\ ToSet(s) = {s[k] : k \in 1..Len(s)} /\ Head(s) = s[1]
         /\ PlaceColumn \in ToSet(s) => s = <<PlaceColumn, PlaceLink>>
         /\ s # <<PlaceColumn, PlaceLink>> =>
              Len(s) = 1 /\ ToSet(s) = {Head(s)} /\ Tidy(Head(s)) /\ Head(s) # PlaceColumn
<1>1. CASE s = <<PlaceColumn, PlaceLink>>
  <2>1. Len(s) = 2 /\ DOMAIN s = 1..2 /\ Head(s) = s[1]
    BY <1>1
  <2>2. QED
    BY <1>1, <2>1 DEF ToSet
<1>2. ASSUME NEW x, s = <<x>>, Tidy(x), x # PlaceColumn
      PROVE  /\ Len(s) = 1 /\ DOMAIN s = 1..1 /\ Head(s) = x /\ s[1] = x /\ ToSet(s) = {x}
  BY <1>2, ListOfOne DEF Listed
<1>3. QED
  BY <1>1, <1>2 DEF GoodStep, ToSet

-----------------------------------------------------------------------------
(* What a step creates, and what goes with an object. *)

\* In a database whose objects have what they refer to, a step finds none of
\* its objects when it does not find the first.
LEMMA HeadDecides ==
  ASSUME NEW db, Whole(db), NEW s, GoodStep(s), Head(s) \notin db,
         NEW o \in ToSet(s)
  PROVE  o \notin db /\ Tidy(o)
<1>1. CASE s # <<PlaceColumn, PlaceLink>>
  BY <1>1, StepObjects
<1>2. CASE s = <<PlaceColumn, PlaceLink>>
  <2>1. Head(s) = PlaceColumn /\ ToSet(s) = {PlaceColumn, PlaceLink}
    BY <1>2, ListOfTwo DEF Listed
  <2>2. PlaceLink \in db => PlaceColumn \in db
    <3>1. Indexed(PlaceLink) = {PlaceColumn}
      BY DEF Indexed, LinkEnds, PlaceLink, PlaceIndex, ClaimIndex, LetterIndex, RetentionIndex,
        StateCheck, Object, ForeignKey, Index
    <3>2. QED
      BY <3>1 DEF Whole
  <2>3. Tidy(PlaceColumn) /\ Tidy(PlaceLink)
    BY Named DEF PlaceColumn, PlaceLink
  <2>4. QED
    BY <2>1, <2>2, <2>3
<1>3. QED
  BY <1>1, <1>2

\* No object that was there goes with one that was not.
LEMMA DropsOwn ==
  ASSUME NEW db, Whole(db), NEW o \in AllObjects, o \notin db, Tidy(o)
  PROVE  Dropped(o) \intersect db = {}
<1>1. CASE o[1] = "table"
  <2> SUFFICES ASSUME NEW p \in db, p[2] = o[2] PROVE FALSE
    BY <1>1 DEF Dropped
  <2>1. o = Table(o[2])
    BY <1>1 DEF Tidy
  <2>2. Table(p[2]) \in AllObjects
    BY <2>1
  <2>3. Table(p[2]) \in db
    BY <2>2 DEF Whole
  <2>4. QED
    BY <2>1, <2>3
<1>2. CASE o[1] # "table"
  BY <1>2 DEF Dropped
<1>3. QED
  BY <1>1, <1>2

-----------------------------------------------------------------------------
(* The inductive invariant. *)

\* The rows of the ledger, committed or not, are of objects that were not there.
OursOnly ==
  \A row \in view \union ledger :
    row = Marker \/ (row[2] \in AllObjects /\ Tidy(row[2]) /\ row[2] \notin before)

\* A command has a revision to apply or to take back; a step that has begun to
\* create found its first object missing.
Working ==
  /\ version \in 0..3
  /\ job \in [does : {"nothing", "upgrade", "downgrade"}, at : Nat, done : Nat]
  /\ job.does = "upgrade" => version \in 0..2
  /\ job.does = "downgrade" => version \in 1..3
  /\ Upgrading /\ job.done # 0 => Head(steps[job.at]) \notin before

Keeping == PreexistingKept /\ OursOnly /\ Working /\ Whole(before)

LEMMA IdleType ==
  /\ Idle \in [does : {"nothing", "upgrade", "downgrade"}, at : Nat, done : Nat]
  /\ Idle.does = "nothing" /\ Idle.done = 0
  BY DEF Idle

LEMMA Initially == MigrationInit => Keeping
  BY IdleType DEF MigrationInit, Keeping, PreexistingKept, OursOnly, Working

\* A command moves on, starts again or ends.
LEMMA Moved ==
  ASSUME Working, UNCHANGED <<version, before>>, Onward \/ Restart
  PROVE  Working'
<1>1. job \in [does : {"nothing", "upgrade", "downgrade"}, at : Nat, done : Nat]
  BY DEF Working
<1>2. /\ job' \in [does : {"nothing", "upgrade", "downgrade"}, at : Nat, done : Nat]
      /\ job'.does = job.does /\ job'.done = 0
  <2>1. CASE Onward
    <3>1. job.at + 1 \in Nat /\ job' = [job EXCEPT !.at = job.at + 1, !.done = 0]
      BY <1>1, <2>1 DEF Onward
    <3>2. QED
      BY <1>1, <3>1
  <2>2. CASE Restart
    BY <1>1, <2>2 DEF Restart
  <2>3. QED
    BY <2>1, <2>2
<1>3. QED
  BY <1>2 DEF Working

LEMMA Ended ==
  ASSUME job' = Idle, version' \in 0..3
  PROVE  Working'
<1>1. /\ job'.does = "nothing" /\ job'.done = 0
      /\ job' \in [does : {"nothing", "upgrade", "downgrade"}, at : Nat, done : Nat]
  BY IdleType
<1>2. QED
  BY <1>1 DEF Working

\* What is committed or rolled back was already in the ledger or in view.
LEMMA LedgerKept ==
  ASSUME OursOnly, UNCHANGED before,
         view' \union ledger' \subseteq view \union ledger \union {Marker}
  PROVE  OursOnly'
  BY DEF OursOnly

LEMMA CommandSafe ==
  ASSUME Keeping, Command
  PROVE  Keeping'
<1> USE DEF Keeping
<1>1. UNCHANGED <<exists, ledger, view, filed, version, before, stops>> /\ job = Idle
  BY DEF Command
<1>2. PICK does \in (IF version < 3 THEN {"upgrade"} ELSE {})
                      \union (IF version > 0 THEN {"downgrade"} ELSE {}) :
        job' = [job EXCEPT !.does = does]
  BY DEF Command
<1>3. Working'
  <2>1. /\ job'.does = does /\ job'.done = 0
        /\ job' \in [does : {"nothing", "upgrade", "downgrade"}, at : Nat, done : Nat]
    BY <1>1, <1>2, IdleType
  <2>2. QED
    BY <1>1, <2>1 DEF Working
<1>4. QED
  BY <1>1, <1>3, LedgerKept DEF PreexistingKept

LEMMA OpenSafe ==
  ASSUME Keeping, OpenLedger
  PROVE  Keeping'
<1> USE DEF Keeping
<1>1. /\ UNCHANGED <<exists, before>>
      /\ view' \union ledger' \subseteq view \union ledger \union {Marker}
      /\ \/ Onward /\ UNCHANGED version
         \/ job.does = "downgrade" /\ job' = Idle /\ version' = version - 1
  BY DEF OpenLedger
<1>2. Working'
  <2>1. CASE Onward /\ UNCHANGED version
    BY <1>1, <2>1, Moved
  <2>2. CASE job.does = "downgrade" /\ job' = Idle /\ version' = version - 1
    BY <2>2, Ended DEF Working
  <2>3. QED
    BY <1>1, <2>1, <2>2
<1>3. QED
  BY <1>1, <1>2, LedgerKept DEF PreexistingKept

\* Steps that change neither the database nor what the ledger says of it.
LEMMA PassSafe ==
  ASSUME Keeping, Pass \/ Leave \/ Refused \/ Crash
  PROVE  Keeping'
<1> USE DEF Keeping
<1>1. /\ UNCHANGED <<exists, before, version>>
      /\ view' \union ledger' \subseteq view \union ledger
      /\ Onward \/ Restart
  BY DEF Pass, Leave, Refused, Crash, Restart
<1>2. QED
  BY <1>1, Moved, LedgerKept DEF PreexistingKept

LEMMA CreateSafe ==
  ASSUME Keeping, Create
  PROVE  Keeping'
<1> USE DEF Keeping
<1>1. /\ Upgrading /\ exists \subseteq exists' /\ ledger' = view /\ view' = view
      /\ job.done = 0 => Head(steps[job.at]) \notin exists
      /\ job' = [job EXCEPT !.done = @ + 1] /\ UNCHANGED <<version, before>>
  BY DEF Create, Commit, Halfway
<1>2. Head(steps[job.at]) \notin before
  BY <1>1 DEF Working, PreexistingKept
<1>3. /\ job' \in [does : {"nothing", "upgrade", "downgrade"}, at : Nat, done : Nat]
      /\ job'.does = job.does /\ job'.at = job.at
  BY <1>1 DEF Working
<1>4. Working'
  BY <1>1, <1>2, <1>3 DEF Working, steps
<1>5. QED
  BY <1>1, <1>4, LedgerKept DEF PreexistingKept

\* A step that notes its objects has created the first of them: none was there.
LEMMA MarkSafe ==
  ASSUME Keeping, MarkOwned
  PROVE  Keeping'
<1> USE DEF Keeping
<1> DEFINE s == steps[job.at]
<1>1. /\ Upgrading /\ job.done = Len(s)
      /\ view' = view \union Rows(ToSet(s))
      /\ Onward /\ UNCHANGED <<exists, ledger, version, before>>
  BY DEF MarkOwned
<1>2. version + 1 \in Revisions /\ job.at \in 1..Len(Upgrades[version + 1])
      /\ s = Upgrades[version + 1][job.at]
  BY <1>1 DEF Upgrading, Working, Revisions, steps
<1>3. GoodStep(s)
  BY <1>2, RevisionObjects DEF GoodSteps
<1>4. Len(s) # 0
  BY <1>3, StepObjects
<1>5. Head(s) \notin before
  BY <1>1, <1>4 DEF Working
<1>6. ToSet(s) \subseteq AllObjects
  BY <1>2, RevisionObjects
<1>7. \A o \in ToSet(s) : o \in AllObjects /\ Tidy(o) /\ o \notin before
  BY <1>3, <1>5, <1>6, HeadDecides
<1> HIDE DEF s
<1>8. \A row \in Rows(ToSet(s)) : row[2] \in ToSet(s)
  BY DEF Rows
<1>9. OursOnly'
  BY <1>1, <1>7, <1>8 DEF OursOnly
<1>10. QED
  BY <1>1, <1>9, Moved DEF PreexistingKept

\* A downgrade drops only what a row of the ledger names.
LEMMA DropSafe ==
  ASSUME Keeping, DropOwned
  PROVE  Keeping'
<1> USE DEF Keeping
<1> DEFINE o == drops[job.at]
<1>1. /\ Dropping /\ Owned(o) /\ exists' = exists \ Dropped(o)
      /\ ledger' = view /\ view' = view
      /\ job' = [job EXCEPT !.done = @ + 1] /\ UNCHANGED <<version, before>>
  BY DEF DropOwned, Commit, Halfway
<1>2. job.does = "downgrade" /\ version \in 1..3
  BY <1>1 DEF Dropping, Working
<1>3. o \in AllObjects /\ Tidy(o) /\ o \notin before
  <2>1. <<version, o>> \in view /\ <<version, o>> # Marker
    BY <1>1, <1>2 DEF Owned, Marker
  <2>2. QED
    BY <2>1 DEF OursOnly
<1>4. PreexistingKept'
  BY <1>1, <1>3, DropsOwn DEF PreexistingKept
<1>5. Working'
  <2>1. /\ job' \in [does : {"nothing", "upgrade", "downgrade"}, at : Nat, done : Nat]
        /\ job'.does = "downgrade"
    BY <1>1, <1>2 DEF Working
  <2>2. QED
    BY <1>1, <1>2, <2>1 DEF Working, Upgrading
<1>6. QED
  BY <1>1, <1>4, <1>5, LedgerKept

LEMMA UnmarkSafe ==
  ASSUME Keeping, UnmarkOwned \/ Cleanup
  PROVE  Keeping'
<1> USE DEF Keeping
<1>1. /\ Onward /\ UNCHANGED <<exists, version, before>>
      /\ view' \union ledger' \subseteq view \union ledger
  BY DEF UnmarkOwned, Cleanup
<1>2. QED
  BY <1>1, Moved, LedgerKept DEF PreexistingKept

LEMMA EndSafe ==
  ASSUME Keeping, EndUpgrade \/ EndDowngrade
  PROVE  Keeping'
<1> USE DEF Keeping
<1>1. /\ job' = Idle /\ UNCHANGED <<exists, before>> /\ ledger' = view /\ view' = view
      /\ \/ job.does = "upgrade" /\ version' = version + 1
         \/ job.does = "downgrade" /\ version' = version - 1
  BY DEF EndUpgrade, EndDowngrade, Commit
<1>2. version' \in 0..3
  BY <1>1 DEF Working
<1>3. QED
  BY <1>1, <1>2, Ended, LedgerKept DEF PreexistingKept

LEMMA Preserved == Keeping /\ [MigrationNext]_migrationVars => Keeping'
<1> SUFFICES ASSUME Keeping, [MigrationNext]_migrationVars PROVE Keeping'
  OBVIOUS
<1>1. CASE Command \/ OpenLedger
  BY <1>1, CommandSafe, OpenSafe
<1>2. CASE Pass \/ Leave \/ Refused \/ Crash
  BY <1>2, PassSafe
<1>3. CASE Create \/ MarkOwned
  BY <1>3, CreateSafe, MarkSafe
<1>4. CASE DropOwned \/ UnmarkOwned \/ Cleanup
  BY <1>4, DropSafe, UnmarkSafe
<1>5. CASE EndUpgrade \/ EndDowngrade
  BY <1>5, EndSafe
<1>6. CASE UNCHANGED migrationVars
  BY <1>6 DEF migrationVars, Keeping, PreexistingKept, OursOnly, Working, Upgrading, steps
<1>7. QED
  BY <1>1, <1>2, <1>3, <1>4, <1>5, <1>6 DEF MigrationNext

\* What was there before 0004 is never dropped, wherever commands are cut off
\* and however often they are given again.
THEOREM PreexistingAlwaysKept == MigrationSpec => []PreexistingKept
<1>1. Keeping => PreexistingKept
  BY DEF Keeping
<1>2. QED
  BY <1>1, Initially, Preserved, PTL DEF MigrationSpec

-----------------------------------------------------------------------------
(* What a command has done and has still to do. *)

CommandType == [does : {"nothing", "upgrade", "downgrade"}, at : Nat, done : Nat]
LedgerRowType == (Revisions \X AllObjects) \union {Marker}

\* A command is at a step of its revision, and notes it in the ledger.
UpgradePlaced ==
  /\ version \in 0..2 /\ job.at <= Len(steps) + 1 /\ (job.at # 0 => filed)
  /\ Upgrading => job.done <= Len(steps[job.at])
  /\ ~Upgrading => job.done = 0
DowngradePlaced ==
  /\ version \in 1..3 /\ job.at <= Len(drops) + 2
  /\ Dropping => job.done <= 1
  /\ ~Dropping => job.done = 0
MigrationTyped ==
  /\ {exists, before} \subseteq SUBSET AllObjects
  /\ {ledger, view} \subseteq SUBSET LedgerRowType
  /\ filed \in BOOLEAN /\ (~filed => view = {} /\ ledger = {})
  /\ version \in 0..3 /\ stops \in 0..MaxStops /\ job \in CommandType
  /\ job.does = "nothing" => job = Idle
  /\ job.does = "upgrade" => UpgradePlaced
  /\ job.does = "downgrade" => DowngradePlaced

LEMMA BroughtObjects ==
  ASSUME NEW o \in AllObjects
  PROVE  o \in Brought(o) /\ Brought(o) \subseteq AllObjects /\ Brought(o) \subseteq {o, NextAttempt}
  BY ControlObjects DEF Brought, AllObjects

LEMMA UpgradeObjects ==
  ASSUME MigrationTyped, job.does = "upgrade"
  PROVE  /\ version + 1 \in Revisions /\ steps = Upgrades[version + 1] /\ Len(steps) \in Nat
         /\ Upgrading <=> job.at \in 1..Len(steps)
         /\ \A i \in 1..Len(steps) :
              /\ GoodStep(steps[i]) /\ Len(steps[i]) \in 1..2
              /\ ToSet(steps[i]) = {steps[i][k] : k \in 1..Len(steps[i])}
              /\ ToSet(steps[i]) \subseteq CreatedBy(version + 1)
              /\ ToSet(steps[i]) \subseteq AllObjects
         /\ CreatedBy(version + 1) = UNION {ToSet(steps[i]) : i \in 1..Len(steps)}
<1>1. version + 1 \in Revisions /\ steps = Upgrades[version + 1]
  BY DEF MigrationTyped, UpgradePlaced, Revisions, steps
<1>2. GoodSteps(steps) /\ CreatedBy(version + 1) \subseteq AllObjects
  BY <1>1, RevisionObjects
<1>3. Len(steps) \in Nat /\ \A i \in 1..Len(steps) : GoodStep(steps[i])
  BY <1>2 DEF GoodSteps
<1>4. CreatedBy(version + 1) = UNION {ToSet(steps[i]) : i \in 1..Len(steps)}
  BY <1>1 DEF CreatedBy
<1>5. \A i \in 1..Len(steps) : ToSet(steps[i]) \subseteq CreatedBy(version + 1)
  BY <1>4
<1>6. Upgrading <=> job.at \in 1..Len(steps)
  BY DEF Upgrading
<1>7. QED
  BY <1>1, <1>2, <1>3, <1>4, <1>5, <1>6, StepObjects

LEMMA DowngradeObjects ==
  ASSUME MigrationTyped, job.does = "downgrade"
  PROVE  /\ version \in Revisions /\ Len(drops) \in Nat
         /\ Dropping <=> job.at \in 1..Len(drops)
         /\ \A j \in 1..Len(drops) : drops[j] \in CreatedBy(version) /\ drops[j] \in AllObjects
         /\ \A o \in CreatedBy(version) : o # NextAttempt => \E j \in 1..Len(drops) : drops[j] = o
<1>1. version \in Revisions /\ drops = Downgrades[version]
  BY DEF MigrationTyped, DowngradePlaced, Revisions, drops
<1>2. Listed(drops, CreatedBy(version) \ {NextAttempt}) /\ CreatedBy(version) \subseteq AllObjects
  BY <1>1, RevisionObjects
<1>3. /\ Len(drops) \in Nat
      /\ \A j \in 1..Len(drops) : drops[j] \in CreatedBy(version) \ {NextAttempt}
      /\ \A o \in CreatedBy(version) \ {NextAttempt} : \E j \in 1..Len(drops) : drops[j] = o
  BY <1>2, ListedIndexes
<1>4. Dropping <=> job.at \in 1..Len(drops)
  BY DEF Dropping
<1>5. QED
  BY <1>1, <1>2, <1>3, <1>4

LEMMA JobMoves ==
  ASSUME job \in CommandType
  PROVE  /\ Onward => job' \in CommandType /\ job'.does = job.does
                      /\ job'.at = job.at + 1 /\ job'.done = 0
         /\ Halfway => job' \in CommandType /\ job'.does = job.does
                       /\ job'.at = job.at /\ job'.done = job.done + 1
         /\ (job' = [job EXCEPT !.at = 0, !.done = 0]) =>
              job' \in CommandType /\ job'.does = job.does /\ job'.at = 0 /\ job'.done = 0
<1>1. job.at + 1 \in Nat /\ job.done + 1 \in Nat
  BY DEF CommandType
<1>2. ASSUME NEW a \in Nat, NEW d \in Nat, job' = [job EXCEPT !.at = a, !.done = d]
      PROVE  job' \in CommandType /\ job'.does = job.does /\ job'.at = a /\ job'.done = d
  BY <1>2 DEF CommandType
<1>3. Onward => job' = [job EXCEPT !.at = job.at + 1, !.done = 0]
  BY DEF Onward
<1>4. ASSUME Halfway
      PROVE  job' \in CommandType /\ job'.does = job.does /\ job'.at = job.at /\ job'.done = job.done + 1
  BY <1>1, <1>4 DEF Halfway, CommandType
<1>5. QED
  BY <1>1, <1>2, <1>3, <1>4

LEMMA IdleJob ==
  Idle \in CommandType /\ Idle.does = "nothing" /\ Idle.at = 0 /\ Idle.done = 0
  BY DEF Idle, CommandType

\* A step of the same command of the same revision.
LEMMA StepTyped ==
  ASSUME MigrationTyped, UNCHANGED <<version, before>>, job' \in CommandType,
         job'.does = job.does, job.does # "nothing",
         stops' \in 0..MaxStops, exists' \subseteq AllObjects,
         ledger' \subseteq LedgerRowType, view' \subseteq LedgerRowType,
         filed' \in BOOLEAN, ~filed' => view' = {} /\ ledger' = {},
         job.does = "upgrade" =>
           /\ job'.at <= Len(steps) + 1 /\ (job'.at # 0 => filed')
           /\ job'.at \in 1..Len(steps) => job'.done <= Len(steps[job'.at])
           /\ job'.at \notin 1..Len(steps) => job'.done = 0,
         job.does = "downgrade" =>
           /\ job'.at <= Len(drops) + 2
           /\ job'.at \in 1..Len(drops) => job'.done <= 1
           /\ job'.at \notin 1..Len(drops) => job'.done = 0
  PROVE  MigrationTyped'
<1>1. steps' = steps /\ drops' = drops
  BY DEF steps, drops
<1>2. job'.does = "upgrade" => UpgradePlaced'
  BY <1>1 DEF MigrationTyped, UpgradePlaced, Upgrading
<1>3. job'.does = "downgrade" => DowngradePlaced'
  BY <1>1 DEF MigrationTyped, DowngradePlaced, Dropping
<1>4. QED
  BY <1>2, <1>3 DEF MigrationTyped

LEMMA TypedInitially == MigrationInit => MigrationTyped
<1> SUFFICES ASSUME MigrationInit PROVE MigrationTyped
  OBVIOUS
<1>1. before \subseteq AllObjects
  <2>1. \A o \in AllObjects : Brought(o) \subseteq AllObjects
    BY BroughtObjects
  <2>2. CreatedBy(1) \subseteq AllObjects /\ CreatedBy(1) \union CreatedBy(2) \subseteq AllObjects
    BY DEF AllObjects
  <2>3. before \in Databases
    BY DEF MigrationInit
  <2>4. QED
    BY <2>1, <2>2, <2>3 DEF Databases
<1>2. /\ exists = before /\ ledger = {} /\ view = {} /\ filed = FALSE
      /\ version = 0 /\ job = Idle /\ stops = 0 /\ MaxStops \in Nat
  BY MigrationAssumption DEF MigrationInit
<1>3. {exists, before} \subseteq SUBSET AllObjects /\ {ledger, view} \subseteq SUBSET LedgerRowType
  BY <1>1, <1>2
<1>4. version \in 0..3 /\ stops \in 0..MaxStops
  BY <1>2
<1>5. job \in CommandType /\ job.does = "nothing" /\ filed \in BOOLEAN
  BY <1>2, IdleJob
<1>6. QED
  BY <1>2, <1>3, <1>4, <1>5 DEF MigrationTyped

\* Commands begin and end.
LEMMA EndsTyped ==
  ASSUME MigrationTyped, Command \/ EndUpgrade \/ EndDowngrade
  PROVE  MigrationTyped'
<1>1. CASE Command
  <2>1. UNCHANGED <<exists, ledger, view, filed, version, before, stops>> /\ job = Idle
    BY <1>1 DEF Command
  <2>2. PICK does \in (IF version < 3 THEN {"upgrade"} ELSE {})
                        \union (IF version > 0 THEN {"downgrade"} ELSE {}) :
          job' = [job EXCEPT !.does = does]
    BY <1>1 DEF Command
  <2>3. job' \in CommandType /\ job'.does = does /\ job'.at = 0 /\ job'.done = 0
    BY <2>1, <2>2, IdleJob DEF CommandType
  <2>4. version \in 0..3
    BY DEF MigrationTyped
  <2>6. ASSUME does = "upgrade" PROVE UpgradePlaced'
    <3>1. version' + 1 \in Revisions /\ steps' = Upgrades[version' + 1]
      BY <2>1, <2>2, <2>4, <2>6 DEF Revisions, steps
    <3>2. Len(steps') \in Nat
      BY <3>1, RevisionObjects DEF GoodSteps
    <3>3. QED
      BY <2>1, <2>2, <2>3, <2>4, <2>6, <3>2 DEF UpgradePlaced, Upgrading
  <2>7. ASSUME does = "downgrade" PROVE DowngradePlaced'
    <3>1. version' \in Revisions /\ drops' = Downgrades[version']
      BY <2>1, <2>2, <2>4, <2>7 DEF Revisions, drops
    <3>2. Len(drops') \in Nat
      BY <3>1, RevisionObjects DEF Listed
    <3>3. QED
      BY <2>1, <2>2, <2>3, <2>4, <2>7, <3>2 DEF DowngradePlaced, Dropping
  <2>8. QED
    BY <2>1, <2>2, <2>3, <2>6, <2>7 DEF MigrationTyped
<1>2. CASE EndUpgrade \/ EndDowngrade
  <2>1. /\ job' = Idle /\ UNCHANGED <<exists, filed, before, stops>> /\ ledger' = view
        /\ view' = view
        /\ \/ job.does = "upgrade" /\ version' = version + 1
           \/ job.does = "downgrade" /\ version' = version - 1
    BY <1>2 DEF EndUpgrade, EndDowngrade, Commit
  <2>2. version' \in 0..3
    BY <2>1 DEF MigrationTyped, UpgradePlaced, DowngradePlaced
  <2>3. QED
    BY <2>1, <2>2, IdleJob DEF MigrationTyped
<1>3. QED
  BY <1>1, <1>2

\* What a step of an upgrade does to the database and to the ledger.
LEMMA UpgradeTyped ==
  ASSUME MigrationTyped, Pass \/ Create \/ MarkOwned
  PROVE  MigrationTyped'
<1>0. /\ Upgrading /\ UNCHANGED <<filed, version, before, stops>>
      /\ job.does = "upgrade" /\ filed /\ job \in CommandType /\ stops \in 0..MaxStops
  BY DEF Pass, Create, MarkOwned, Upgrading, MigrationTyped, UpgradePlaced
<1>1. /\ job.at \in 1..Len(steps) /\ Len(steps) \in Nat /\ version + 1 \in Revisions
      /\ Len(steps[job.at]) \in 1..2 /\ job.done \in 0..Len(steps[job.at])
      /\ ToSet(steps[job.at]) \subseteq AllObjects
      /\ ToSet(steps[job.at]) = {steps[job.at][k] : k \in 1..Len(steps[job.at])}
  <2>1. job.at \in 1..Len(steps) /\ Len(steps) \in Nat /\ version + 1 \in Revisions
    BY <1>0, UpgradeObjects
  <2>2. /\ Len(steps[job.at]) \in 1..2 /\ ToSet(steps[job.at]) \subseteq AllObjects
        /\ ToSet(steps[job.at]) = {steps[job.at][k] : k \in 1..Len(steps[job.at])}
    BY <1>0, <2>1, UpgradeObjects
  <2>3. job.done \in Nat /\ job.done <= Len(steps[job.at])
    BY <1>0 DEF MigrationTyped, UpgradePlaced, CommandType
  <2>4. QED
    BY <2>1, <2>2, <2>3
<1>2. ASSUME Onward, exists' = exists, ledger' = ledger, view' \subseteq LedgerRowType
      PROVE  MigrationTyped'
  BY <1>0, <1>1, <1>2, JobMoves, StepTyped DEF MigrationTyped
<1>3. CASE Pass
  BY <1>2, <1>3 DEF Pass, MigrationTyped
<1>4. CASE MarkOwned
  <2>1. Rows(ToSet(steps[job.at])) \subseteq LedgerRowType
    BY <1>1 DEF Rows, LedgerRowType
  <2>2. QED
    BY <1>2, <1>4, <2>1 DEF MarkOwned, MigrationTyped
<1>5. CASE Create
  <2>1. /\ exists' = exists \union Brought(steps[job.at][job.done + 1])
        /\ job.done < Len(steps[job.at]) /\ ledger' = view /\ view' = view /\ Halfway
    BY <1>5 DEF Create, Commit
  <2>2. job.done + 1 \in 1..Len(steps[job.at])
    BY <1>1, <2>1
  <2>3. steps[job.at][job.done + 1] \in AllObjects
    BY <1>1, <2>2
  <2>4. exists' \subseteq AllObjects
    BY <2>1, <2>3, BroughtObjects DEF MigrationTyped
  <2>5. QED
    BY <1>0, <1>1, <2>1, <2>2, <2>4, JobMoves, StepTyped DEF MigrationTyped
<1>6. QED
  BY <1>3, <1>4, <1>5

LEMMA DowngradeTyped ==
  ASSUME MigrationTyped, Leave \/ DropOwned \/ UnmarkOwned \/ Cleanup
  PROVE  MigrationTyped'
<1>0. /\ UNCHANGED <<version, before, stops>> /\ job.does = "downgrade"
      /\ job \in CommandType /\ stops \in 0..MaxStops /\ Len(drops) \in Nat
      /\ job.at <= Len(drops) + 1 /\ exists' \subseteq exists
  <2>1. job.does = "downgrade"
    BY DEF Leave, DropOwned, UnmarkOwned, Cleanup, Dropping
  <2>2. Len(drops) \in Nat /\ (Dropping <=> job.at \in 1..Len(drops))
    BY <2>1, DowngradeObjects
  <2>3. job.at <= Len(drops) + 1
    BY <2>2 DEF Leave, DropOwned, UnmarkOwned, Cleanup
  <2>4. QED
    BY <2>1, <2>2, <2>3 DEF Leave, DropOwned, UnmarkOwned, Cleanup, MigrationTyped
<1>1. ASSUME Onward, exists' = exists, ledger' \subseteq ledger, view' \subseteq view,
             filed' \in BOOLEAN, ~filed' => view' = {} /\ ledger' = {}
      PROVE  MigrationTyped'
  <2>1. exists' \subseteq AllObjects /\ ledger' \subseteq LedgerRowType /\ view' \subseteq LedgerRowType
    BY <1>1 DEF MigrationTyped
  <2>2. job'.at <= Len(drops) + 2 /\ job'.done = 0 /\ job' \in CommandType /\ job'.does = job.does
    BY <1>0, <1>1, JobMoves DEF CommandType
  <2>3. QED
    BY <1>0, <1>1, <2>1, <2>2, StepTyped
<1>2. CASE Leave
  BY <1>1, <1>2 DEF Leave, MigrationTyped
<1>3. CASE UnmarkOwned
  BY <1>1, <1>3 DEF UnmarkOwned, MigrationTyped
<1>4. CASE Cleanup
  <2>1. PICK kept : kept = {row \in view : row[1] # version}
    OBVIOUS
  <2>2. /\ Onward /\ exists' = exists
        /\ \/ view' = {} /\ ledger' = {} /\ filed' = FALSE
           \/ view' = kept /\ UNCHANGED <<ledger, filed>>
    BY <1>4, <2>1 DEF Cleanup
  <2>3. kept \subseteq view
    BY <2>1
  <2>4. filed \in BOOLEAN /\ (~filed => view = {} /\ ledger = {})
    BY DEF MigrationTyped
  <2>5. QED
    BY <1>1, <2>2, <2>3, <2>4
<1>5. CASE DropOwned
  <2>1. Dropping /\ job.done = 0 /\ ledger' = view /\ view' = view /\ Halfway /\ UNCHANGED filed
    BY <1>5 DEF DropOwned, Commit
  <2>2. job'.at = job.at /\ job'.done = 1 /\ job' \in CommandType /\ job'.does = job.does
    BY <1>0, <2>1, JobMoves
  <2>3. job.at \in 1..Len(drops)
    BY <1>0, <2>1, DowngradeObjects
  <2>4. exists' \subseteq AllObjects /\ ledger' \subseteq LedgerRowType /\ view' \subseteq LedgerRowType
    BY <1>0, <2>1 DEF MigrationTyped
  <2>5. QED
    BY <1>0, <2>1, <2>2, <2>3, <2>4, StepTyped DEF MigrationTyped
<1>6. QED
  BY <1>2, <1>3, <1>4, <1>5

LEMMA OpenTyped ==
  ASSUME MigrationTyped, OpenLedger
  PROVE  MigrationTyped'
<1>0. /\ UNCHANGED <<exists, before, stops>> /\ job.does \in {"upgrade", "downgrade"}
      /\ job.at = 0 /\ job \in CommandType /\ stops \in 0..MaxStops
      /\ job.does = "upgrade" => Len(steps) \in Nat
      /\ job.does = "downgrade" => Len(drops) \in Nat
  BY UpgradeObjects, DowngradeObjects DEF OpenLedger, MigrationTyped, CommandType
<1>1. ASSUME Onward, UNCHANGED <<ledger, version>>, filed' = TRUE, view' \subseteq LedgerRowType
      PROVE  MigrationTyped'
  <2>1. job'.at = 1 /\ job'.done = 0 /\ job' \in CommandType /\ job'.does = job.does
    BY <1>0, <1>1, JobMoves
  <2>2. QED
    <3>1. ASSUME NEW n \in Nat PROVE 1 <= n + 1 /\ 1 <= n + 2 /\ (1 \in 1..n => 0 <= n)
      OBVIOUS
    <3>2. job.does = "upgrade" /\ 1 \in 1..Len(steps) => 0 <= Len(steps[1])
      BY <1>0, UpgradeObjects
    <3>3. exists' \subseteq AllObjects /\ ledger' \subseteq LedgerRowType
      BY <1>0, <1>1 DEF MigrationTyped
    <3>4. QED
      BY <1>0, <1>1, <2>1, <3>1, <3>2, <3>3, StepTyped
<1>2. CASE filed /\ Onward /\ UNCHANGED <<ledger, view, filed, version>>
  BY <1>1, <1>2 DEF MigrationTyped
<1>3. CASE filed' = TRUE /\ view' = {Marker} /\ Onward /\ UNCHANGED <<ledger, version>>
  BY <1>1, <1>3 DEF LedgerRowType
<1>4. CASE ~filed /\ job.does = "downgrade" /\ job' = Idle /\ version' = version - 1
           /\ UNCHANGED <<ledger, view, filed>>
  <2>1. version' \in 0..3
    BY <1>4 DEF MigrationTyped, DowngradePlaced
  <2>2. QED
    BY <1>0, <1>4, <2>1, IdleJob DEF MigrationTyped
<1>5. QED
  BY <1>2, <1>3, <1>4 DEF OpenLedger

LEMMA RestartTyped ==
  ASSUME MigrationTyped, Refused \/ Crash
  PROVE  MigrationTyped'
<1>1. /\ Restart /\ UNCHANGED <<exists, ledger, filed, version, before>>
      /\ job.does \in {"upgrade", "downgrade"} /\ stops' \in 0..MaxStops
  <2>1. MaxStops \in Nat /\ stops \in 0..MaxStops /\ job \in CommandType
    BY MigrationAssumption DEF MigrationTyped
  <2>2. QED
    BY <2>1 DEF Refused, Crash, Dropping, CommandType
<1>2. /\ job'.at = 0 /\ job'.done = 0 /\ job' \in CommandType /\ job'.does = job.does
      /\ view' = ledger
  BY <1>1, JobMoves DEF Restart, MigrationTyped
<1>3. /\ job.does = "upgrade" => Len(steps) \in Nat
      /\ job.does = "downgrade" => Len(drops) \in Nat
  BY UpgradeObjects, DowngradeObjects
<1>4. \A n \in Nat : 0 <= n + 1 /\ 0 <= n + 2 /\ 0 \notin 1..n
  OBVIOUS
<1>5. /\ exists' \subseteq AllObjects /\ ledger' \subseteq LedgerRowType /\ view' \subseteq LedgerRowType
      /\ filed' \in BOOLEAN /\ (~filed' => view' = {} /\ ledger' = {})
  BY <1>1, <1>2 DEF MigrationTyped
<1>6. QED
  BY <1>1, <1>2, <1>3, <1>4, <1>5, StepTyped

LEMMA TypedKept == MigrationTyped /\ [MigrationNext]_migrationVars => MigrationTyped'
<1> SUFFICES ASSUME MigrationTyped, [MigrationNext]_migrationVars PROVE MigrationTyped'
  OBVIOUS
<1>1. CASE UNCHANGED migrationVars
  <2>1. steps' = steps /\ drops' = drops
    BY <1>1 DEF migrationVars, steps, drops
  <2>2. QED
    BY <1>1, <2>1 DEF migrationVars, MigrationTyped, UpgradePlaced, DowngradePlaced, Upgrading, Dropping
<1>2. QED
  BY <1>1, EndsTyped, UpgradeTyped, DowngradeTyped, OpenTyped, RestartTyped DEF MigrationNext

\* No command ever has more than a step's two objects to create.
LEMMA TypesHold == MigrationTyped => MigrationTypeOK
<1> SUFFICES ASSUME MigrationTyped PROVE MigrationTypeOK
  OBVIOUS
<1>1. job.done \in 0..2
  <2>1. job \in CommandType
    BY DEF MigrationTyped
  <2>2. CASE job.does = "nothing"
    BY <2>2, IdleJob DEF MigrationTyped
  <2>3. CASE job.does = "upgrade"
    <3>1. CASE Upgrading
      <4>1. Len(steps[job.at]) \in 1..2 /\ job.done <= Len(steps[job.at])
        BY <2>3, <3>1, UpgradeObjects DEF MigrationTyped, UpgradePlaced
      <4>2. job.done \in Nat
        BY <2>1 DEF CommandType
      <4>3. \A n \in 1..2, m \in Nat : m <= n => m \in 0..2
        OBVIOUS
      <4>4. QED
        BY <4>1, <4>2, <4>3, Zenon
    <3>2. CASE ~Upgrading
      BY <2>3, <3>2 DEF MigrationTyped, UpgradePlaced
    <3>3. QED
      BY <3>1, <3>2
  <2>4. CASE job.does = "downgrade"
    BY <2>1, <2>4 DEF MigrationTyped, DowngradePlaced, CommandType
  <2>5. QED
    BY <2>1, <2>2, <2>3, <2>4 DEF CommandType
<1>2. job \in [does : {"nothing", "upgrade", "downgrade"}, at : Nat, done : 0..2]
  BY <1>1 DEF MigrationTyped, CommandType
<1>3. QED
  BY <1>2 DEF MigrationTyped, MigrationTypeOK, LedgerRowType

\* Every variable of the migrations keeps its type, for any number of commands
\* and crashes; the ledger is empty while its table does not exist.
THEOREM MigrationTypes == MigrationSpec => []MigrationTypeOK
  BY TypedInitially, TypedKept, TypesHold, PTL DEF MigrationSpec

-----------------------------------------------------------------------------
(* What the ledger knows as long as no command was cut off. *)

\* The objects that a step has created and not yet noted.
Fresh == IF Upgrading THEN {steps[job.at][k] : k \in 1..job.done} ELSE {}

\* A row of an applied revision notes the object, and a downgrade has its
\* statement still to come.
ToDrop(o) == \E j \in 1..Len(drops) : j >= job.at /\ drops[j] = o
Noted(o) ==
  \E r \in Revisions :
    /\ o \in CreatedBy(r) /\ <<r, o>> \in view
    /\ r <= version \/ job.does = "upgrade"
    /\ job.does = "downgrade" /\ r = version => ToDrop(o)
ObjectsNoted == \A o \in exists \ before : o = NextAttempt \/ o \in Fresh \/ Noted(o)

\* The rows are of the applied revisions and of the steps an upgrade has passed.
RowPlaced(row) ==
  \/ row[1] <= version
  \/ /\ job.does = "upgrade" /\ row[1] = version + 1
     /\ \E i \in 1..Len(steps) : i < job.at /\ row[2] \in ToSet(steps[i])
RowsPlaced == \A row \in view \union ledger : row = Marker \/ RowPlaced(row)

\* What is committed lags behind what the command sees; the marker stands for
\* the ledger, which goes when the first revision is taken back.
LedgerFollows ==
  /\ filed => Marker \in view
  /\ job.does = "nothing" => ledger = view /\ (version = 0 => ~filed)
  /\ job.does = "upgrade" => ledger \subseteq view
  /\ job.does = "downgrade" =>
       /\ job.at <= Len(drops) + 1 => view \subseteq ledger
       /\ job.at = Len(drops) + 2 => (\A row \in view : row[1] < version) /\ (version = 1 => ~filed)
       /\ Dropping /\ job.done = 1 => drops[job.at] \notin exists
Tracked == ObjectsNoted /\ RowsPlaced /\ LedgerFollows

LEMMA TrackedInitially == MigrationInit => Tracked
  BY DEF MigrationInit, Tracked, ObjectsNoted, RowsPlaced, LedgerFollows, Idle

\* Rows number revisions, but for the marker.
LEMMA RowNumbers ==
  ASSUME MigrationTyped
  PROVE  /\ version \in Int /\ Marker[1] = 0
         /\ \A row \in view \union ledger : row[1] \in Int /\ row[1] >= 0
         /\ \A row \in view \union ledger : row # Marker => row[1] >= 1
<1>1. \A row \in view \union ledger : row \in Revisions \X AllObjects \/ row = Marker
  BY DEF MigrationTyped, LedgerRowType
<1>2. \A row \in Revisions \X AllObjects : row[1] \in 1..3
  BY DEF Revisions
<1>3. Marker[1] = 0
  BY DEF Marker
<1>4. version \in Int
  BY DEF MigrationTyped
<1>5. QED
  BY <1>1, <1>2, <1>3, <1>4

\* Nothing stands between the steps of a command.
LEMMA CommandTracked ==
  ASSUME MigrationTyped, Tracked, Command
  PROVE  Tracked'
<1>1. UNCHANGED <<exists, ledger, view, filed, version, before, stops>> /\ job = Idle
  BY DEF Command
<1>2. PICK does \in {"upgrade", "downgrade"} :
        /\ job' = [job EXCEPT !.does = does]
        /\ does = "downgrade" => version > 0
        /\ does = "upgrade" => version < 3
  BY DEF Command
<1>3. job'.does = does /\ job'.at = 0 /\ job'.done = 0 /\ job.does = "nothing" /\ job.at = 0
  BY <1>1, <1>2, IdleJob DEF CommandType
<1>4. MigrationTyped'
  BY EndsTyped
<1>5. /\ does = "downgrade" => /\ version' \in Revisions /\ Len(drops') \in Nat
                               /\ \A o \in CreatedBy(version') : o # NextAttempt =>
                                    \E j \in 1..Len(drops') : drops'[j] = o
  <2>1. drops' = Downgrades[version']
    BY DEF drops
  <2>2. version \in 0..3
    BY DEF MigrationTyped
  <2>3. does = "downgrade" => version' \in Revisions
    BY <1>1, <1>2, <2>2 DEF Revisions
  <2>4. ASSUME does = "downgrade"
        PROVE  Len(drops') \in Nat /\ \A o \in CreatedBy(version') \ {NextAttempt} :
                                        \E j \in 1..Len(drops') : drops'[j] = o
    <3>1. Listed(Downgrades[version'], CreatedBy(version') \ {NextAttempt})
      BY <2>3, <2>4, RevisionObjects
    <3>2. PICK S : S = CreatedBy(version') \ {NextAttempt}
      OBVIOUS
    <3>3. Listed(drops', S)
      BY <2>1, <3>1, <3>2
    <3>4. Len(drops') \in Nat /\ \A o \in S : \E j \in 1..Len(drops') : drops'[j] = o
      BY <3>3, ListedIndexes
    <3>5. QED
      BY <3>2, <3>4
  <2>5. QED
    BY <2>3, <2>4
<1>6. ObjectsNoted'
  <2> SUFFICES ASSUME NEW o \in exists \ before, o # NextAttempt PROVE Noted(o)'
    BY <1>1 DEF ObjectsNoted
  <2>1. ~Upgrading
    BY <1>3 DEF Upgrading
  <2>2. PICK r \in Revisions : o \in CreatedBy(r) /\ <<r, o>> \in view /\ r <= version
    BY <1>3, <2>1 DEF Tracked, ObjectsNoted, Noted, Fresh
  <2>3. does = "downgrade" /\ r = version' => ToDrop(o)'
    <3>1. ASSUME does = "downgrade", r = version' PROVE ToDrop(o)'
      <4>1. PICK j \in 1..Len(drops') : drops'[j] = o
        BY <1>5, <2>2, <3>1
      <4>2. j >= job'.at
        BY <1>3, <1>5, <3>1, <4>1
      <4>3. QED
        BY <4>1, <4>2 DEF ToDrop
    <3>2. QED
      BY <3>1
  <2>4. QED
    BY <1>1, <1>3, <2>2, <2>3 DEF Noted
<1>7. RowsPlaced'
  <2>1. \A row \in view \union ledger : row = Marker \/ row[1] <= version
    BY <1>3 DEF Tracked, RowsPlaced, RowPlaced
  <2>2. QED
    BY <1>1, <2>1 DEF RowsPlaced, RowPlaced
<1>8. LedgerFollows'
  <2>1. ledger = view /\ (filed => Marker \in view)
    BY <1>3 DEF Tracked, LedgerFollows
  <2>2. does = "downgrade" => job'.at # Len(drops') + 2 /\ ~(Dropping')
    BY <1>3, <1>5 DEF Dropping
  <2>3. QED
    BY <1>1, <1>2, <1>3, <2>1, <2>2 DEF LedgerFollows
<1>9. QED
  BY <1>6, <1>7, <1>8 DEF Tracked

LEMMA OpenTracked ==
  ASSUME MigrationTyped, Tracked, OpenLedger
  PROVE  Tracked'
<1>0. /\ UNCHANGED <<exists, before, stops>> /\ job.does \in {"upgrade", "downgrade"}
      /\ job.at = 0 /\ job \in CommandType /\ ~Upgrading
  BY DEF OpenLedger, MigrationTyped, CommandType, Upgrading
<1>1. ASSUME Onward, UNCHANGED <<ledger, version>>, view \subseteq view',
             view' \subseteq view \union {Marker}, filed' => Marker \in view',
             job.does = "downgrade" => view' = view
      PROVE  Tracked'
  <2>1. job'.at = 1 /\ job'.done = 0 /\ job' \in CommandType /\ job'.does = job.does
    BY <1>0, <1>1, JobMoves
  <2>2. steps' = steps /\ drops' = drops
    BY <1>1 DEF steps, drops
  <2>3. job.does = "downgrade" => Len(drops) \in Nat
    BY DowngradeObjects
  <2>4. ObjectsNoted'
    <3> SUFFICES ASSUME NEW o \in exists \ before, o # NextAttempt PROVE Noted(o)'
      BY <1>0 DEF ObjectsNoted
    <3>1. Noted(o)
      BY <1>0 DEF Tracked, ObjectsNoted, Fresh
    <3>2. job.does = "downgrade" => (ToDrop(o) => ToDrop(o)')
      BY <2>1, <2>2, <2>3 DEF ToDrop
    <3>3. QED
      BY <1>1, <2>1, <2>2, <3>1, <3>2 DEF Noted
  <2>5. RowsPlaced'
    <3>1. \A row \in view' \union ledger' : row = Marker \/ row \in view \union ledger
      BY <1>1
    <3>2. \A row \in view \union ledger : row = Marker \/ row[1] <= version
      BY <1>0, UpgradeObjects DEF Tracked, RowsPlaced, RowPlaced
    <3>3. QED
      BY <1>1, <3>1, <3>2 DEF RowsPlaced, RowPlaced
  <2>6. LedgerFollows'
    <3>2. job.does = "upgrade" => ledger' \subseteq view'
      BY <1>1 DEF Tracked, LedgerFollows
    <3>3. job.does = "downgrade" => view' \subseteq ledger'
      BY <1>0, <1>1, <2>3 DEF Tracked, LedgerFollows
    <3>4. job.does = "downgrade" => job'.at # Len(drops') + 2 /\ job'.done = 0
      BY <2>1, <2>2, <2>3
    <3>5. QED
      BY <1>0, <1>1, <2>1, <3>2, <3>3, <3>4 DEF LedgerFollows
  <2>7. QED
    BY <2>4, <2>5, <2>6 DEF Tracked
<1>2. CASE ~filed /\ job.does = "downgrade" /\ job' = Idle /\ version' = version - 1
           /\ UNCHANGED <<ledger, view, filed>>
  <2>1. view = {} /\ ledger = {}
    BY <1>2 DEF MigrationTyped
  <2>2. \A o \in exists \ before : o = NextAttempt
    BY <1>0, <2>1 DEF Tracked, ObjectsNoted, Noted, Fresh
  <2>3. QED
    BY <1>0, <1>2, <2>1, <2>2, IdleJob DEF Tracked, ObjectsNoted, RowsPlaced, LedgerFollows
<1>3. ASSUME filed /\ Onward /\ UNCHANGED <<ledger, view, filed, version>>
      PROVE  Tracked'
  BY <1>1, <1>3 DEF Tracked, LedgerFollows
<1>4. ASSUME /\ ~filed /\ job.does = "upgrade" /\ Onward
             /\ filed' = TRUE /\ view' = {Marker} /\ UNCHANGED <<ledger, version>>
      PROVE  Tracked'
  BY <1>1, <1>4 DEF MigrationTyped
<1>5. \/ filed /\ Onward /\ UNCHANGED <<ledger, view, filed, version>>
      \/ /\ ~filed /\ job.does = "upgrade" /\ Onward
         /\ filed' = TRUE /\ view' = {Marker} /\ UNCHANGED <<ledger, version>>
      \/ /\ ~filed /\ job.does = "downgrade" /\ job' = Idle
         /\ version' = version - 1 /\ UNCHANGED <<ledger, view, filed>>
  BY DEF OpenLedger
<1>6. QED
  BY <1>2, <1>3, <1>4, <1>5

\* The steps of an upgrade note what they create.
LEMMA PassTracked ==
  ASSUME MigrationTyped, Tracked, Pass
  PROVE  Tracked'
<1>0. /\ Upgrading /\ job.done = 0 /\ Onward /\ job.does = "upgrade" /\ job \in CommandType
      /\ UNCHANGED <<exists, ledger, view, filed, version, before, stops>>
  BY DEF Pass, Upgrading, MigrationTyped
<1>1. job'.does = "upgrade" /\ job'.at = job.at + 1 /\ job'.done = 0 /\ steps' = steps
      /\ job.at \in Nat
  BY <1>0, JobMoves DEF steps, CommandType
<1>2. Fresh = {}
  BY <1>0 DEF Fresh
<1>3. ObjectsNoted'
  BY <1>0, <1>1, <1>2 DEF Tracked, ObjectsNoted, Noted
<1>4. RowsPlaced'
  <2>1. \A i \in 1..Len(steps) : i < job.at => i < job.at + 1
    BY <1>1
  <2>2. QED
    BY <1>0, <1>1, <2>1 DEF Tracked, RowsPlaced, RowPlaced
<1>5. LedgerFollows'
  BY <1>0, <1>1 DEF Tracked, LedgerFollows
<1>6. QED
  BY <1>3, <1>4, <1>5 DEF Tracked

LEMMA CreateTracked ==
  ASSUME MigrationTyped, Tracked, Create
  PROVE  Tracked'
<1>0. /\ Upgrading /\ job.done < Len(steps[job.at]) /\ job.does = "upgrade" /\ job \in CommandType
      /\ exists' = exists \union Brought(steps[job.at][job.done + 1])
      /\ ledger' = view /\ view' = view /\ Halfway
      /\ UNCHANGED <<filed, version, before, stops>>
  BY DEF Create, Commit, Upgrading, MigrationTyped
<1>1. /\ job'.does = "upgrade" /\ job'.at = job.at /\ job'.done = job.done + 1 /\ steps' = steps
      /\ Upgrading'
  BY <1>0, JobMoves DEF steps, Upgrading
<1>2. /\ job.at \in 1..Len(steps) /\ Len(steps[job.at]) \in Nat /\ job.done \in Nat
      /\ ToSet(steps[job.at]) \subseteq AllObjects
      /\ ToSet(steps[job.at]) = {steps[job.at][k] : k \in 1..Len(steps[job.at])}
  <2>1. job.at \in 1..Len(steps)
    BY <1>0, UpgradeObjects
  <2>2. /\ Len(steps[job.at]) \in 1..2 /\ ToSet(steps[job.at]) \subseteq AllObjects
        /\ ToSet(steps[job.at]) = {steps[job.at][k] : k \in 1..Len(steps[job.at])}
    BY <1>0, <2>1, UpgradeObjects
  <2>3. job.done \in Nat
    BY <1>0 DEF CommandType
  <2>4. QED
    BY <2>1, <2>2, <2>3
<1>3. PICK o : o = steps[job.at][job.done + 1]
  OBVIOUS
<1>4. job.done + 1 \in 1..Len(steps[job.at]) /\ job.done + 1 \in 1..(job.done + 1)
  BY <1>0, <1>2
<1>5. o \in AllObjects /\ Brought(o) \subseteq {o, NextAttempt}
  BY <1>2, <1>3, <1>4, BroughtObjects
<1>6. o \in Fresh' /\ Fresh \subseteq Fresh'
  <2>1. Fresh' = {steps[job.at][k] : k \in 1..(job.done + 1)}
    BY <1>1 DEF Fresh
  <2>2. Fresh = {steps[job.at][k] : k \in 1..job.done}
    BY <1>0 DEF Fresh
  <2>3. 1..job.done \subseteq 1..(job.done + 1)
    BY <1>2
  <2>4. QED
    BY <1>3, <1>4, <2>1, <2>2, <2>3
<1>7. ObjectsNoted'
  <2>1. \A x \in exists' \ before : x \in exists \ before \/ x = o \/ x = NextAttempt
    BY <1>0, <1>3, <1>5
  <2>2. \A x : Noted(x) => Noted(x)'
    BY <1>0, <1>1 DEF Noted
  <2>3. QED
    BY <1>0, <1>6, <2>1, <2>2 DEF Tracked, ObjectsNoted
<1>8. RowsPlaced'
  BY <1>0, <1>1 DEF Tracked, RowsPlaced, RowPlaced
<1>9. LedgerFollows'
  BY <1>0, <1>1 DEF Tracked, LedgerFollows
<1>10. QED
  BY <1>7, <1>8, <1>9 DEF Tracked

LEMMA MarkTracked ==
  ASSUME MigrationTyped, Tracked, MarkOwned
  PROVE  Tracked'
<1>0. /\ Upgrading /\ job.done = Len(steps[job.at]) /\ job.does = "upgrade" /\ job \in CommandType
      /\ view' = view \union Rows(ToSet(steps[job.at])) /\ Onward
      /\ UNCHANGED <<exists, ledger, filed, version, before, stops>>
  BY DEF MarkOwned, Upgrading, MigrationTyped
<1>1. /\ job'.does = "upgrade" /\ job'.at = job.at + 1 /\ job'.done = 0 /\ steps' = steps
      /\ job.at \in Nat
  BY <1>0, JobMoves DEF steps, CommandType
<1>2. /\ job.at \in 1..Len(steps) /\ version + 1 \in Revisions
      /\ ToSet(steps[job.at]) \subseteq CreatedBy(version + 1)
      /\ ToSet(steps[job.at]) = {steps[job.at][k] : k \in 1..Len(steps[job.at])}
  BY <1>0, UpgradeObjects
<1>3. Fresh = ToSet(steps[job.at])
  BY <1>0, <1>2 DEF Fresh
<1>4. \A o \in ToSet(steps[job.at]) : <<version + 1, o>> \in view'
  BY <1>0 DEF Rows
<1>5. \A o \in Fresh : Noted(o)'
  BY <1>0, <1>1, <1>2, <1>3, <1>4 DEF Noted
<1>6. ObjectsNoted'
  <2>1. \A x : Noted(x) => Noted(x)'
    BY <1>0, <1>1 DEF Noted
  <2>2. QED
    BY <1>0, <1>5, <2>1 DEF Tracked, ObjectsNoted
<1>7. RowsPlaced'
  <2>1. \A i \in 1..Len(steps) : i < job.at => i < job.at + 1
    BY <1>1
  <2>2. job.at < job.at + 1
    BY <1>1
  <2>3. \A row \in Rows(ToSet(steps[job.at])) :
          row[1] = version + 1 /\ row[2] \in ToSet(steps[job.at])
    BY DEF Rows
  <2>4. \A row \in Rows(ToSet(steps[job.at])) : RowPlaced(row)'
    BY <1>0, <1>1, <1>2, <2>2, <2>3 DEF RowPlaced
  <2>5. \A row \in view \union ledger : row = Marker \/ RowPlaced(row)'
    BY <1>0, <1>1, <2>1 DEF Tracked, RowsPlaced, RowPlaced
  <2>6. QED
    BY <1>0, <2>4, <2>5 DEF RowsPlaced
<1>8. LedgerFollows'
  BY <1>0, <1>1 DEF Tracked, LedgerFollows
<1>9. QED
  BY <1>6, <1>7, <1>8 DEF Tracked

LEMMA EndUpgradeTracked ==
  ASSUME MigrationTyped, Tracked, EndUpgrade
  PROVE  Tracked'
<1>0. /\ job.does = "upgrade" /\ job.at > Len(steps) /\ version' = version + 1 /\ job' = Idle
      /\ ledger' = view /\ view' = view /\ UNCHANGED <<exists, filed, before, stops>>
  BY DEF EndUpgrade, Commit
<1>1. Len(steps) \in Nat /\ version \in 0..2 /\ job.at \in Nat /\ job'.does = "nothing"
  BY <1>0, UpgradeObjects, IdleJob DEF MigrationTyped, UpgradePlaced, CommandType
<1>2. ~Upgrading /\ Fresh = {}
  BY <1>0, <1>1 DEF Upgrading, Fresh
<1>3. ObjectsNoted'
  <2> SUFFICES ASSUME NEW o \in exists \ before, o # NextAttempt PROVE Noted(o)'
    BY <1>0 DEF ObjectsNoted
  <2>1. PICK r \in Revisions : o \in CreatedBy(r) /\ <<r, o>> \in view
    BY <1>2 DEF Tracked, ObjectsNoted, Noted
  <2>2. r <= version + 1
    <3>1. <<r, o>> \in view /\ <<r, o>>[1] = r /\ r \in 1..3
      BY <2>1 DEF Revisions
    <3>2. <<r, o>> # Marker
      BY <3>1, RowNumbers
    <3>3. RowPlaced(<<r, o>>)
      BY <3>1, <3>2 DEF Tracked, RowsPlaced
    <3>4. QED
      BY <1>1, <3>1, <3>3 DEF RowPlaced
  <2>3. QED
    BY <1>0, <1>1, <2>1, <2>2 DEF Noted
<1>4. RowsPlaced'
  <2>1. \A row \in view : row = Marker \/ (row[1] \in Int /\ (row[1] <= version \/ row[1] = version + 1))
    BY RowNumbers DEF Tracked, RowsPlaced, RowPlaced
  <2>2. QED
    BY <1>0, <1>1, <2>1 DEF RowsPlaced, RowPlaced
<1>5. LedgerFollows'
  BY <1>0, <1>1 DEF Tracked, LedgerFollows
<1>6. QED
  BY <1>3, <1>4, <1>5 DEF Tracked

\* The steps of a downgrade drop what a row of its revision notes.
LEMMA LeaveTracked ==
  ASSUME MigrationTyped, Tracked, Leave
  PROVE  Tracked'
<1>0. /\ Dropping /\ job.done = 0 /\ Onward /\ job.does = "downgrade" /\ job \in CommandType
      /\ UNCHANGED <<exists, ledger, view, filed, version, before, stops>>
      /\ ~(<<version, drops[job.at]>> \in view /\ drops[job.at] \in exists)
  BY DEF Leave, Dropping, Owned, MigrationTyped
<1>1. /\ job'.does = "downgrade" /\ job'.at = job.at + 1 /\ job'.done = 0 /\ drops' = drops
  BY <1>0, JobMoves DEF drops
<1>2. job.at \in 1..Len(drops) /\ Len(drops) \in Nat
  BY <1>0, DowngradeObjects
<1>3. ObjectsNoted'
  <2> SUFFICES ASSUME NEW o \in exists \ before, o # NextAttempt PROVE Noted(o)'
    BY <1>0 DEF ObjectsNoted
  <2>1. Noted(o)
    BY <1>0 DEF Tracked, ObjectsNoted, Fresh, Upgrading
  <2>2. PICK r \in Revisions : /\ o \in CreatedBy(r) /\ <<r, o>> \in view /\ r <= version
                               /\ r = version => ToDrop(o)
    BY <1>0, <2>1 DEF Noted
  <2>3. ASSUME r = version PROVE ToDrop(o)'
    <3>1. PICK j \in 1..Len(drops) : j >= job.at /\ drops[j] = o
      BY <2>2, <2>3 DEF ToDrop
    <3>2. j # job.at
      BY <1>0, <2>2, <2>3, <3>1
    <3>3. j >= job.at + 1
      BY <1>2, <3>1, <3>2
    <3>4. QED
      BY <1>1, <3>1, <3>3 DEF ToDrop
  <2>4. QED
    BY <1>0, <1>1, <2>2, <2>3 DEF Noted
<1>4. RowsPlaced'
  BY <1>0, <1>1 DEF Tracked, RowsPlaced, RowPlaced
<1>5. LedgerFollows'
  <2>1. job'.at # Len(drops') + 2 /\ job.at <= Len(drops) + 1
    BY <1>1, <1>2
  <2>2. QED
    BY <1>0, <1>1, <2>1 DEF Tracked, LedgerFollows
<1>6. QED
  BY <1>3, <1>4, <1>5 DEF Tracked

LEMMA DropTracked ==
  ASSUME MigrationTyped, Tracked, DropOwned
  PROVE  Tracked'
<1>0. /\ Dropping /\ Halfway /\ job.does = "downgrade" /\ job \in CommandType
      /\ exists' = exists \ Dropped(drops[job.at])
      /\ ledger' = view /\ view' = view /\ UNCHANGED <<filed, version, before, stops>>
  BY DEF DropOwned, Commit, Dropping, MigrationTyped
<1>1. job'.does = "downgrade" /\ job'.at = job.at /\ drops' = drops
  BY <1>0, JobMoves DEF drops
<1>2. job.at \in 1..Len(drops) /\ Len(drops) \in Nat
  BY <1>0, DowngradeObjects
<1>3. drops[job.at] \notin exists'
  <2>1. drops[job.at] \in AllObjects
    BY <1>0, <1>2, DowngradeObjects
  <2>2. drops[job.at] \in Dropped(drops[job.at])
    BY <2>1 DEF Dropped
  <2>3. QED
    BY <1>0, <2>2
<1>4. ObjectsNoted'
  <2>1. \A o : Noted(o) => Noted(o)'
    BY <1>0, <1>1 DEF Noted, ToDrop
  <2>2. Fresh = {}
    BY <1>0 DEF Fresh, Upgrading
  <2>3. QED
    BY <1>0, <2>1, <2>2 DEF Tracked, ObjectsNoted
<1>5. RowsPlaced'
  BY <1>0, <1>1 DEF Tracked, RowsPlaced, RowPlaced
<1>6. LedgerFollows'
  <2>1. job'.at # Len(drops') + 2
    BY <1>1, <1>2
  <2>2. QED
    BY <1>0, <1>1, <1>3, <2>1 DEF Tracked, LedgerFollows
<1>7. QED
  BY <1>4, <1>5, <1>6 DEF Tracked

LEMMA UnmarkTracked ==
  ASSUME MigrationTyped, Tracked, UnmarkOwned
  PROVE  Tracked'
<1>0. /\ Dropping /\ job.done = 1 /\ Onward /\ job.does = "downgrade" /\ job \in CommandType
      /\ view' = view \ {<<version, drops[job.at]>>}
      /\ UNCHANGED <<exists, ledger, filed, version, before, stops>>
  BY DEF UnmarkOwned, Dropping, MigrationTyped
<1>1. /\ job'.does = "downgrade" /\ job'.at = job.at + 1 /\ job'.done = 0 /\ drops' = drops
  BY <1>0, JobMoves DEF drops
<1>2. job.at \in 1..Len(drops) /\ Len(drops) \in Nat /\ version \in 1..3
  BY <1>0, DowngradeObjects DEF Revisions
<1>3. drops[job.at] \notin exists
  BY <1>0 DEF Tracked, LedgerFollows
<1>4. ObjectsNoted'
  <2> SUFFICES ASSUME NEW o \in exists \ before, o # NextAttempt PROVE Noted(o)'
    BY <1>0 DEF ObjectsNoted
  <2>1. Noted(o) /\ o # drops[job.at]
    BY <1>0, <1>3 DEF Tracked, ObjectsNoted, Fresh, Upgrading
  <2>2. PICK r \in Revisions : /\ o \in CreatedBy(r) /\ <<r, o>> \in view /\ r <= version
                               /\ r = version => ToDrop(o)
    BY <1>0, <2>1 DEF Noted
  <2>3. ASSUME r = version PROVE ToDrop(o)'
    <3>1. PICK j \in 1..Len(drops) : j >= job.at /\ drops[j] = o
      BY <2>2, <2>3 DEF ToDrop
    <3>2. j # job.at
      BY <2>1, <3>1
    <3>3. j >= job.at + 1
      BY <1>2, <3>1, <3>2
    <3>4. QED
      BY <1>1, <3>1, <3>3 DEF ToDrop
  <2>4. <<r, o>> \in view'
    BY <1>0, <2>1, <2>2
  <2>5. QED
    BY <1>0, <1>1, <2>2, <2>3, <2>4 DEF Noted
<1>5. RowsPlaced'
  BY <1>0, <1>1 DEF Tracked, RowsPlaced, RowPlaced
<1>6. LedgerFollows'
  <2>1. job'.at # Len(drops') + 2 /\ job.at <= Len(drops) + 1
    BY <1>1, <1>2
  <2>2. Marker # <<version, drops[job.at]>>
    BY <1>2 DEF Marker
  <2>3. view' \subseteq view /\ (Marker \in view => Marker \in view')
    BY <1>0, <2>2
  <2>4. QED
    BY <1>0, <1>1, <2>1, <2>3 DEF Tracked, LedgerFollows
<1>7. QED
  BY <1>4, <1>5, <1>6 DEF Tracked

LEMMA CleanupTracked ==
  ASSUME MigrationTyped, Tracked, Cleanup
  PROVE  Tracked'
<1>1. PICK kept : kept = {row \in view : row[1] # version}
  OBVIOUS
<1>0. /\ Onward /\ job.does = "downgrade" /\ job \in CommandType /\ job.at = Len(drops) + 1
      /\ UNCHANGED <<exists, version, before, stops>>
      /\ \/ /\ version = 1 /\ kept = {Marker}
            /\ view' = {} /\ ledger' = {} /\ filed' = FALSE
         \/ /\ ~(version = 1 /\ kept = {Marker})
            /\ view' = kept /\ ledger' = ledger /\ filed' = filed
  BY <1>1 DEF Cleanup, MigrationTyped
<1>2. /\ job'.does = "downgrade" /\ job'.at = job.at + 1 /\ job'.done = 0 /\ drops' = drops
  BY <1>0, JobMoves DEF drops
<1>3. Len(drops) \in Nat /\ version \in 1..3
  BY <1>0, DowngradeObjects DEF Revisions
<1>4. /\ ~Dropping /\ ~Upgrading /\ job'.at = Len(drops') + 2 /\ job'.at \notin 1..Len(drops')
      /\ \A j \in 1..Len(drops) : ~(j >= job.at)
  BY <1>0, <1>2, <1>3 DEF Dropping, Upgrading
<1>5. ASSUME NEW o \in exists \ before, o # NextAttempt
      PROVE  \E r \in Revisions : o \in CreatedBy(r) /\ <<r, o>> \in kept /\ r < version
  <2>1. PICK r \in Revisions : /\ o \in CreatedBy(r) /\ <<r, o>> \in view /\ r <= version
                               /\ r = version => ToDrop(o)
    BY <1>0, <1>4, <1>5 DEF Tracked, ObjectsNoted, Fresh, Noted
  <2>2. r # version
    BY <1>4, <2>1 DEF ToDrop
  <2>3. r \in 1..3 /\ <<r, o>>[1] = r
    BY DEF Revisions
  <2>4. r < version
    BY <1>3, <2>1, <2>2, <2>3
  <2>5. QED
    BY <1>1, <2>1, <2>2, <2>3, <2>4
<1>6. ObjectsNoted'
  <2> SUFFICES ASSUME NEW o \in exists \ before, o # NextAttempt PROVE Noted(o)'
    BY <1>0 DEF ObjectsNoted
  <2>1. PICK r \in Revisions : o \in CreatedBy(r) /\ <<r, o>> \in kept /\ r < version
    BY <1>5
  <2>2. r \in 1..3 /\ <<r, o>>[1] = r
    BY DEF Revisions
  <2>3. <<r, o>> \in view' /\ r # version /\ r <= version
    <3>1. <<r, o>> # Marker
      BY <2>2, RowNumbers
    <3>2. QED
      BY <1>0, <1>3, <2>1, <2>2, <3>1
  <2>4. QED
    BY <1>0, <1>2, <2>1, <2>3 DEF Noted
<1>7. view' \subseteq kept /\ ledger' \subseteq ledger
  BY <1>0
<1>8. RowsPlaced'
  <2>1. \A row \in view \union ledger : row = Marker \/ row[1] <= version
    BY <1>0 DEF Tracked, RowsPlaced, RowPlaced
  <2>2. QED
    BY <1>0, <1>1, <1>7, <2>1 DEF RowsPlaced, RowPlaced
<1>9. LedgerFollows'
  <2>1. \A row \in view \union ledger : row[1] \in Int /\ (row = Marker \/ row[1] <= version)
    BY <1>0, RowNumbers DEF Tracked, RowsPlaced, RowPlaced
  <2>2. \A row \in view' : row[1] < version
    <3>1. ASSUME NEW row \in kept PROVE row[1] < version
      <4>1. row \in view /\ row[1] # version /\ row[1] \in Int
        BY <1>1, <2>1
      <4>2. row = Marker => row[1] = 0
        BY RowNumbers
      <4>3. QED
        BY <1>3, <2>1, <4>1, <4>2
    <3>2. QED
      BY <1>7, <3>1
  <2>3. filed => Marker \in kept
    <3>1. Marker[1] = 0
      BY RowNumbers
    <3>2. QED
      BY <1>1, <1>3, <3>1 DEF Tracked, LedgerFollows
  <2>4. version = 1 => ~filed'
    <3> SUFFICES ASSUME version = 1, filed' PROVE FALSE
      OBVIOUS
    <3>1. filed /\ kept # {Marker}
      BY <1>0
    <3>2. PICK row \in kept : row # Marker
      BY <2>3, <3>1
    <3>3. row \in view /\ row[1] >= 1 /\ row[1] # 1 /\ row[1] <= 1 /\ row[1] \in Int
      BY <1>1, <2>1, <3>2, RowNumbers
    <3>4. QED
      BY <3>3
  <2>5. filed' => Marker \in view'
    BY <1>0, <2>3
  <2>6. ~(job'.at <= Len(drops') + 1) /\ ~Dropping'
    BY <1>0, <1>2, <1>3, <1>4 DEF Dropping
  <2>7. QED
    BY <1>0, <1>2, <2>2, <2>4, <2>5, <2>6 DEF LedgerFollows
<1>10. QED
  BY <1>6, <1>8, <1>9 DEF Tracked

LEMMA EndDowngradeTracked ==
  ASSUME MigrationTyped, Tracked, EndDowngrade
  PROVE  Tracked'
<1>0. /\ job.does = "downgrade" /\ job.at = Len(drops) + 2 /\ version' = version - 1 /\ job' = Idle
      /\ ledger' = view /\ view' = view /\ UNCHANGED <<exists, filed, before, stops>>
  BY DEF EndDowngrade, Commit
<1>1. Len(drops) \in Nat /\ version \in 1..3 /\ job'.does = "nothing" /\ ~Upgrading
  BY <1>0, DowngradeObjects, IdleJob DEF Revisions, Upgrading
<1>2. (\A row \in view : row[1] < version) /\ (version = 1 => ~filed) /\ (filed => Marker \in view)
  BY <1>0 DEF Tracked, LedgerFollows
<1>3. ObjectsNoted'
  <2> SUFFICES ASSUME NEW o \in exists \ before, o # NextAttempt PROVE Noted(o)'
    BY <1>0 DEF ObjectsNoted
  <2>1. PICK r \in Revisions : o \in CreatedBy(r) /\ <<r, o>> \in view
    BY <1>1 DEF Tracked, ObjectsNoted, Noted, Fresh
  <2>2. r < version /\ r \in 1..3
    BY <1>2, <2>1 DEF Revisions
  <2>3. r <= version - 1
    BY <1>1, <2>2
  <2>4. QED
    BY <1>0, <1>1, <2>1, <2>3 DEF Noted
<1>4. RowsPlaced'
  <2>1. \A row \in view : row[1] \in Int /\ row[1] <= version - 1
    BY <1>1, <1>2, RowNumbers
  <2>2. QED
    BY <1>0, <2>1 DEF RowsPlaced, RowPlaced
<1>5. LedgerFollows'
  BY <1>0, <1>1, <1>2 DEF LedgerFollows
<1>6. QED
  BY <1>3, <1>4, <1>5 DEF Tracked

\* A refused downgrade starts again with the rows that were committed.
LEMMA RefusedTracked ==
  ASSUME MigrationTyped, Tracked, Refused
  PROVE  Tracked'
<1>0. /\ Dropping /\ job.does = "downgrade" /\ job \in CommandType
      /\ view' = ledger /\ job' = [job EXCEPT !.at = 0, !.done = 0]
      /\ UNCHANGED <<exists, ledger, filed, version, before, stops>>
  BY DEF Refused, Restart, Dropping, MigrationTyped
<1>1. job'.does = "downgrade" /\ job'.at = 0 /\ job'.done = 0 /\ drops' = drops
  BY <1>0, JobMoves DEF drops
<1>2. job.at \in 1..Len(drops) /\ Len(drops) \in Nat
  BY <1>0, DowngradeObjects
<1>3. job.at <= Len(drops) + 1
  BY <1>2
<1>4. view \subseteq ledger
  BY <1>0, <1>3 DEF Tracked, LedgerFollows
<1>5. ObjectsNoted'
  <2>1. \A o : ToDrop(o) => ToDrop(o)'
    BY <1>1, <1>2 DEF ToDrop
  <2>2. \A o : Noted(o) => Noted(o)'
    BY <1>0, <1>1, <1>4, <2>1 DEF Noted
  <2>3. Fresh = {}
    BY <1>0 DEF Fresh, Upgrading
  <2>4. QED
    BY <1>0, <2>2, <2>3 DEF Tracked, ObjectsNoted
<1>6. RowsPlaced'
  BY <1>0, <1>1 DEF Tracked, RowsPlaced, RowPlaced
<1>7. LedgerFollows'
  <2>1. job'.at # Len(drops') + 2 /\ job'.done # 1
    BY <1>1, <1>2
  <2>2. filed' => Marker \in view'
    BY <1>0, <1>4 DEF Tracked, LedgerFollows
  <2>3. QED
    BY <1>0, <1>1, <2>1, <2>2 DEF LedgerFollows
<1>8. QED
  BY <1>5, <1>6, <1>7 DEF Tracked

\* Without a crash the ledger is right after every step.
LEMMA TrackedKept ==
  MigrationTyped /\ (stops = 0 => Tracked) /\ [MigrationNext]_migrationVars
    => (stops' = 0 => Tracked')
<1> SUFFICES ASSUME MigrationTyped, stops = 0 => Tracked, [MigrationNext]_migrationVars, stops' = 0
             PROVE  Tracked'
  OBVIOUS
<1>1. CASE UNCHANGED migrationVars
  <2>1. UNCHANGED <<exists, ledger, view, filed, version, job, before, stops>> /\ Tracked
    BY <1>1 DEF migrationVars
  <2>2. steps' = steps /\ drops' = drops
    BY <2>1 DEF steps, drops
  <2>3. ObjectsNoted'
    BY <2>1, <2>2 DEF Tracked, ObjectsNoted, Fresh, Upgrading, Noted, ToDrop
  <2>4. RowsPlaced'
    BY <2>1, <2>2 DEF Tracked, RowsPlaced, RowPlaced
  <2>5. LedgerFollows'
    BY <2>1, <2>2 DEF Tracked, LedgerFollows, Dropping
  <2>6. QED
    BY <2>3, <2>4, <2>5 DEF Tracked
<1>2. CASE Crash
  BY <1>2 DEF Crash, MigrationTyped
<1>3. CASE MigrationNext /\ ~Crash
  <2>1. UNCHANGED stops
    BY <1>3 DEF MigrationNext, Command, OpenLedger, Pass, Create, MarkOwned, EndUpgrade, Leave,
                DropOwned, UnmarkOwned, Cleanup, EndDowngrade, Refused
  <2>2. Tracked
    BY <2>1
  <2>3. QED
    BY <1>3, <2>2, CommandTracked, OpenTracked, PassTracked, CreateTracked, MarkTracked,
       EndUpgradeTracked, LeaveTracked, DropTracked, UnmarkTracked, CleanupTracked,
       EndDowngradeTracked, RefusedTracked DEF MigrationNext
<1>4. QED
  BY <1>1, <1>2, <1>3

-----------------------------------------------------------------------------
(* What a command leaves in the database. *)

\* What an applied revision may be without.
Missing == {StateCheck} \union IF stops > 0 \/ PlaceColumn \in before THEN {PlaceLink} ELSE {}

\* The applied revisions, but for the one being taken back, and the steps that an
\* upgrade has passed, have what they create.
RevisionsServed ==
  \A r \in 1..version :
    (job.does = "downgrade" /\ r = version) \/ CreatedBy(r) \subseteq exists \union Missing
StepsServed ==
  job.does = "upgrade" =>
    \A i \in 1..Len(steps) : i < job.at => ToSet(steps[i]) \subseteq exists \union Missing
FreshServed == Upgrading => \A k \in 1..job.done : steps[job.at][k] \in exists
AllServed == RevisionsServed /\ StepsServed /\ FreshServed

LEMMA ServedInitially == MigrationInit => AllServed
  BY DEF MigrationInit, AllServed, RevisionsServed, StepsServed, FreshServed, Upgrading, Idle

\* What may be missing only grows.
LEMMA MissingGrows ==
  ASSUME MigrationTyped, [MigrationNext]_migrationVars
  PROVE  Missing \subseteq Missing' /\ before' = before
<1>1. before' = before /\ (stops' = stops \/ stops' = stops + 1)
  BY DEF MigrationNext, migrationVars, Command, OpenLedger, Pass, Create, MarkOwned, EndUpgrade,
         Leave, DropOwned, UnmarkOwned, Cleanup, EndDowngrade, Refused, Crash
<1>2. stops \in Nat
  BY MigrationAssumption DEF MigrationTyped
<1>3. stops > 0 => stops' > 0
  BY <1>1, <1>2
<1>4. QED
  BY <1>1, <1>3 DEF Missing

\* A command between its steps, or one that gives up, takes nothing away.
LEMMA PauseServed ==
  ASSUME MigrationTyped, AllServed, Missing \subseteq Missing',
         UNCHANGED exists, job'.at = 0, job'.done = 0, job' \in CommandType,
         \/ version' = version /\ (job'.does = job.does \/ job.does = "nothing")
         \/ job.does = "downgrade" /\ version' = version - 1
  PROVE  AllServed'
<1>1. version \in Nat /\ version' \in Int
  BY DEF MigrationTyped
<1>2. RevisionsServed'
  <2> SUFFICES ASSUME NEW r \in 1..version', ~(job'.does = "downgrade" /\ r = version')
               PROVE  CreatedBy(r) \subseteq exists' \union Missing'
    BY DEF RevisionsServed
  <2>1. r \in 1..version /\ ~(job.does = "downgrade" /\ r = version)
    BY <1>1
  <2>2. QED
    BY <2>1 DEF AllServed, RevisionsServed
<1>3. StepsServed'
  <2>1. \A i \in 1..Len(steps') : ~(i < 0)
    <3>1. \A n, i : i \in 1..n => ~(i < 0)
      OBVIOUS
    <3>2. QED
      BY <3>1, Zenon
  <2>2. QED
    BY <2>1 DEF StepsServed
<1>4. FreshServed'
  BY DEF FreshServed
<1>5. QED
  BY <1>2, <1>3, <1>4 DEF AllServed

\* The foreign key of a place is passed over only with its column.
LEMMA PassServed ==
  ASSUME MigrationTyped, stops = 0 => Tracked, AllServed, Pass
  PROVE  AllServed'
<1>0. /\ Upgrading /\ job.done = 0 /\ Onward /\ job.does = "upgrade" /\ job \in CommandType
      /\ UNCHANGED <<exists, ledger, view, filed, version, before, stops>>
      /\ Head(steps[job.at]) \in exists \union {StateCheck}
  BY DEF Pass, Upgrading, MigrationTyped
<1>1. /\ job'.does = "upgrade" /\ job'.at = job.at + 1 /\ job'.done = 0 /\ steps' = steps
      /\ Missing' = Missing
  BY <1>0, JobMoves DEF steps, Missing
<1>2. /\ job.at \in 1..Len(steps) /\ version + 1 \in Revisions /\ version \in 0..3
      /\ GoodStep(steps[job.at]) /\ ToSet(steps[job.at]) \subseteq CreatedBy(version + 1)
  BY <1>0, UpgradeObjects DEF MigrationTyped
<1>3. PICK s : s = steps[job.at]
  OBVIOUS
<1>4. GoodStep(s) /\ ToSet(s) \subseteq CreatedBy(version + 1)
  BY <1>2, <1>3
<1>5. ToSet(s) \subseteq exists \union Missing
  <2>1. CASE s # <<PlaceColumn, PlaceLink>>
    BY <1>0, <1>3, <1>4, <2>1, StepObjects DEF Missing
  <2>2. CASE s = <<PlaceColumn, PlaceLink>>
    <3>1. Head(s) = PlaceColumn /\ ToSet(s) = {PlaceColumn, PlaceLink}
      BY <2>2 DEF ToSet
    <3>2. PlaceColumn \in exists
      <4>1. PlaceColumn[2] = "place" /\ StateCheck[2] = "read_model_snapshot"
        BY Named DEF PlaceColumn, StateCheck
      <4>2. PlaceColumn # StateCheck
        BY <4>1
      <4>3. QED
        BY <1>0, <1>3, <3>1, <4>2
    <3>3. PlaceLink \in exists \union Missing
      <4>1. CASE stops > 0 \/ PlaceColumn \in before
        BY <4>1 DEF Missing
      <4>2. CASE ~(stops > 0) /\ PlaceColumn \notin before
        <5>1. stops = 0
          BY <4>2, MigrationAssumption DEF MigrationTyped
        <5>2. Tracked
          BY <5>1
        <5>3. PlaceColumn # NextAttempt
          <6>1. PlaceColumn[2] = "place" /\ NextAttempt[2] = "product_refresh_request"
            BY Named DEF PlaceColumn, NextAttempt
          <6>2. QED
            BY <6>1
        <5>4. PICK r \in Revisions : PlaceColumn \in CreatedBy(r) /\ <<r, PlaceColumn>> \in view
          BY <1>0, <3>2, <4>2, <5>2, <5>3 DEF Tracked, ObjectsNoted, Noted, Fresh
        <5>5. PlaceColumn \in CreatedBy(version + 1)
          BY <1>4, <3>1
        <5>6. r = version + 1
          BY <1>2, <5>4, <5>5, RevisionsApart
        <5>7. <<r, PlaceColumn>>[1] = r /\ <<r, PlaceColumn>>[2] = PlaceColumn /\ r \in 1..3
          BY DEF Revisions
        <5>8. <<r, PlaceColumn>> # Marker
          BY <5>7, RowNumbers
        <5>9. RowPlaced(<<r, PlaceColumn>>)
          BY <5>2, <5>4, <5>8 DEF Tracked, RowsPlaced
        <5>10. ~(r <= version)
          BY <1>2, <5>6
        <5>11. PICK i \in 1..Len(steps) : i < job.at /\ PlaceColumn \in ToSet(steps[i])
          BY <5>7, <5>9, <5>10 DEF RowPlaced
        <5>12. steps[i] = <<PlaceColumn, PlaceLink>>
          <6>1. GoodStep(steps[i])
            BY <1>0, <5>11, UpgradeObjects
          <6>2. QED
            BY <5>11, <6>1, StepObjects
        <5>13. ToSet(steps[i]) \subseteq exists \union Missing
          BY <1>0, <5>11 DEF AllServed, StepsServed
        <5>14. PlaceLink \in ToSet(steps[i])
          BY <2>2, <3>1, <5>12
        <5>15. QED
          BY <5>13, <5>14
      <4>3. QED
        BY <4>1, <4>2
    <3>4. QED
      BY <3>1, <3>2, <3>3
  <2>3. QED
    BY <2>1, <2>2
<1>6. RevisionsServed'
  BY <1>0, <1>1 DEF AllServed, RevisionsServed
<1>7. StepsServed'
  <2> SUFFICES ASSUME NEW i \in 1..Len(steps), i < job.at + 1
               PROVE  ToSet(steps[i]) \subseteq exists \union Missing
    BY <1>0, <1>1 DEF StepsServed
  <2>1. i < job.at \/ i = job.at
    BY <1>2
  <2>2. QED
    BY <1>0, <1>3, <1>5, <2>1 DEF AllServed, StepsServed
<1>8. FreshServed'
  BY <1>1 DEF FreshServed
<1>9. QED
  BY <1>6, <1>7, <1>8 DEF AllServed

LEMMA CreateServed ==
  ASSUME MigrationTyped, AllServed, Create
  PROVE  AllServed'
<1>0. /\ Upgrading /\ job.done < Len(steps[job.at]) /\ job.does = "upgrade" /\ job \in CommandType
      /\ exists' = exists \union Brought(steps[job.at][job.done + 1]) /\ Halfway
      /\ UNCHANGED <<filed, version, before, stops>>
  BY DEF Create, Upgrading, MigrationTyped
<1>1. /\ job'.does = "upgrade" /\ job'.at = job.at /\ job'.done = job.done + 1 /\ steps' = steps
      /\ Missing' = Missing
  BY <1>0, JobMoves DEF steps, Missing
<1>2. job.at \in 1..Len(steps) /\ job.done \in Nat
  BY <1>0, UpgradeObjects DEF CommandType
<1>3. /\ Len(steps[job.at]) \in 1..2 /\ ToSet(steps[job.at]) \subseteq AllObjects
      /\ ToSet(steps[job.at]) = {steps[job.at][k] : k \in 1..Len(steps[job.at])}
  BY <1>0, <1>2, UpgradeObjects
<1>4. PICK o : o = steps[job.at][job.done + 1]
  OBVIOUS
<1>5. job.done + 1 \in 1..Len(steps[job.at])
  BY <1>0, <1>2, <1>3
<1>6. o \in exists' /\ exists \subseteq exists'
  <2>1. o \in AllObjects
    BY <1>3, <1>4, <1>5
  <2>2. QED
    BY <1>0, <1>4, <2>1, BroughtObjects
<1>7. FreshServed'
  <2> SUFFICES ASSUME NEW k \in 1..(job.done + 1) PROVE steps[job.at][k] \in exists'
    BY <1>1 DEF FreshServed
  <2>1. k \in 1..job.done \/ k = job.done + 1
    BY <1>2
  <2>2. QED
    BY <1>0, <1>4, <1>6, <2>1 DEF AllServed, FreshServed
<1>8. RevisionsServed'
  BY <1>0, <1>1, <1>6 DEF AllServed, RevisionsServed
<1>9. StepsServed'
  BY <1>0, <1>1, <1>6 DEF AllServed, StepsServed
<1>10. QED
  BY <1>7, <1>8, <1>9 DEF AllServed

LEMMA MarkServed ==
  ASSUME MigrationTyped, AllServed, MarkOwned
  PROVE  AllServed'
<1>0. /\ Upgrading /\ job.done = Len(steps[job.at]) /\ job.does = "upgrade" /\ job \in CommandType
      /\ Onward /\ UNCHANGED <<exists, ledger, filed, version, before, stops>>
  BY DEF MarkOwned, Upgrading, MigrationTyped
<1>1. /\ job'.does = "upgrade" /\ job'.at = job.at + 1 /\ job'.done = 0 /\ steps' = steps
      /\ Missing' = Missing
  BY <1>0, JobMoves DEF steps, Missing
<1>2. /\ job.at \in 1..Len(steps)
      /\ ToSet(steps[job.at]) = {steps[job.at][k] : k \in 1..Len(steps[job.at])}
  BY <1>0, UpgradeObjects
<1>3. ToSet(steps[job.at]) \subseteq exists
  BY <1>0, <1>2 DEF AllServed, FreshServed
<1>4. RevisionsServed'
  BY <1>0, <1>1 DEF AllServed, RevisionsServed
<1>5. StepsServed'
  <2> SUFFICES ASSUME NEW i \in 1..Len(steps), i < job.at + 1
               PROVE  ToSet(steps[i]) \subseteq exists \union Missing
    BY <1>0, <1>1 DEF StepsServed
  <2>1. i < job.at \/ i = job.at
    BY <1>2
  <2>2. QED
    BY <1>0, <1>3, <2>1 DEF AllServed, StepsServed
<1>6. FreshServed'
  BY <1>1 DEF FreshServed
<1>7. QED
  BY <1>4, <1>5, <1>6 DEF AllServed

LEMMA EndUpgradeServed ==
  ASSUME MigrationTyped, AllServed, EndUpgrade
  PROVE  AllServed'
<1>0. /\ job.does = "upgrade" /\ job.at > Len(steps) /\ version' = version + 1 /\ job' = Idle
      /\ UNCHANGED <<exists, before, stops>>
  BY DEF EndUpgrade
<1>1. /\ Len(steps) \in Nat /\ version \in Nat /\ job.at \in Nat /\ Missing' = Missing
      /\ CreatedBy(version + 1) = UNION {ToSet(steps[i]) : i \in 1..Len(steps)}
  BY <1>0, UpgradeObjects DEF MigrationTyped, CommandType, Missing
<1>2. \A i \in 1..Len(steps) : i < job.at
  BY <1>0, <1>1
<1>3. CreatedBy(version + 1) \subseteq exists \union Missing
  BY <1>0, <1>1, <1>2 DEF AllServed, StepsServed
<1>4. RevisionsServed'
  <2> SUFFICES ASSUME NEW r \in 1..(version + 1) PROVE CreatedBy(r) \subseteq exists \union Missing
    BY <1>0, <1>1 DEF RevisionsServed
  <2>1. r \in 1..version \/ r = version + 1
    BY <1>1
  <2>2. QED
    BY <1>0, <1>3, <2>1 DEF AllServed, RevisionsServed
<1>5. QED
  BY <1>0, <1>4, IdleJob DEF AllServed, StepsServed, FreshServed, Upgrading

\* A downgrade touches no other revision.
LEMMA DowngradeServed ==
  ASSUME MigrationTyped, AllServed, Leave \/ DropOwned \/ UnmarkOwned \/ Cleanup
  PROVE  AllServed'
<1>0. /\ job.does = "downgrade" /\ job'.does = "downgrade"
      /\ UNCHANGED <<version, before, stops>>
      /\ \/ exists' = exists
         \/ Dropping /\ exists' = exists \ Dropped(drops[job.at])
  <2>1. job \in CommandType /\ (Onward \/ Halfway) /\ job.does = "downgrade"
    BY DEF MigrationTyped, Leave, DropOwned, UnmarkOwned, Cleanup, Dropping
  <2>2. job'.does = "downgrade"
    BY <2>1, JobMoves
  <2>3. QED
    BY <2>1, <2>2 DEF Leave, DropOwned, UnmarkOwned, Cleanup
<1>1. Missing' = Missing /\ version \in Revisions
  BY <1>0, DowngradeObjects DEF Missing
<1>2. RevisionsServed'
  <2> SUFFICES ASSUME NEW r \in 1..version, r # version
               PROVE  CreatedBy(r) \subseteq exists' \union Missing
    BY <1>0, <1>1 DEF RevisionsServed
  <2>1. CreatedBy(r) \subseteq exists \union Missing /\ r \in Revisions
    BY <1>0, <1>1 DEF AllServed, RevisionsServed, Revisions
  <2>2. CASE exists' = exists
    BY <2>1, <2>2
  <2>3. CASE Dropping /\ exists' = exists \ Dropped(drops[job.at])
    <3>1. drops[job.at] \in CreatedBy(version)
      BY <1>0, <2>3, DowngradeObjects
    <3>2. \A p \in CreatedBy(r) : p \notin Dropped(drops[job.at])
      BY <1>1, <2>1, <3>1, RevisionsApart
    <3>3. QED
      BY <2>1, <2>3, <3>2
  <2>4. QED
    BY <1>0, <2>2, <2>3
<1>3. QED
  BY <1>0, <1>2 DEF AllServed, StepsServed, FreshServed, Upgrading

LEMMA ServedKept ==
  MigrationTyped /\ (stops = 0 => Tracked) /\ AllServed /\ [MigrationNext]_migrationVars => AllServed'
<1> SUFFICES ASSUME MigrationTyped, stops = 0 => Tracked, AllServed, [MigrationNext]_migrationVars
             PROVE  AllServed'
  OBVIOUS
<1>0. Missing \subseteq Missing' /\ MigrationTyped' /\ job \in CommandType /\ job' \in CommandType
  BY MissingGrows, TypedKept DEF MigrationTyped
<1>1. CASE UNCHANGED migrationVars
  <2>1. UNCHANGED <<exists, version, job>> /\ steps' = steps
    BY <1>1 DEF migrationVars, steps
  <2>2. QED
    BY <1>0, <2>1 DEF AllServed, RevisionsServed, StepsServed, FreshServed, Upgrading
<1>2. CASE Command
  <2>1. UNCHANGED <<exists, version>> /\ job = Idle
    BY <1>2 DEF Command
  <2>2. job'.at = 0 /\ job'.done = 0 /\ job.does = "nothing"
    BY <1>2, <2>1, IdleJob DEF Command, CommandType
  <2>3. QED
    BY <1>0, <2>1, <2>2, PauseServed
<1>3. CASE OpenLedger
  <2>1. UNCHANGED exists /\ job.at = 0 /\ job.does \in {"upgrade", "downgrade"}
    BY <1>0, <1>3 DEF OpenLedger, CommandType
  <2>2. CASE Onward /\ UNCHANGED version
    <3>1. job'.at = 1 /\ job'.done = 0 /\ job'.does = job.does /\ steps' = steps
      BY <1>0, <2>1, <2>2, JobMoves DEF steps
    <3>2. RevisionsServed'
      BY <1>0, <2>1, <2>2, <3>1 DEF AllServed, RevisionsServed
    <3>3. StepsServed'
      <4>1. \A n, i : i \in 1..n => ~(i < 1)
        OBVIOUS
      <4>2. \A i \in 1..Len(steps') : ~(i < 1)
        BY <4>1, Zenon
      <4>3. QED
        BY <3>1, <4>2 DEF StepsServed
    <3>4. QED
      BY <3>1, <3>2, <3>3 DEF AllServed, FreshServed
  <2>3. CASE job.does = "downgrade" /\ job' = Idle /\ version' = version - 1
    BY <1>0, <2>1, <2>3, IdleJob, PauseServed
  <2>4. QED
    BY <1>3, <2>2, <2>3 DEF OpenLedger
<1>4. CASE EndDowngrade
  BY <1>0, <1>4, IdleJob, PauseServed DEF EndDowngrade
<1>5. CASE Refused \/ Crash
  <2>1. UNCHANGED <<exists, version>> /\ job' = [job EXCEPT !.at = 0, !.done = 0]
    BY <1>5 DEF Refused, Crash, Restart
  <2>2. QED
    BY <1>0, <2>1, JobMoves, PauseServed
<1>6. QED
  BY <1>1, <1>2, <1>3, <1>4, <1>5, PassServed, CreateServed, MarkServed, EndUpgradeServed,
     DowngradeServed DEF MigrationNext

LEMMA ServedFinishes ==
  MigrationTyped /\ (stops = 0 => Tracked) /\ AllServed => CommandsFinish
<1> SUFFICES ASSUME MigrationTyped, stops = 0 => Tracked, AllServed, job = Idle
             PROVE  /\ \A r \in 1..version : CreatedBy(r) \ exists \subseteq Missing
                    /\ version = 0 /\ stops = 0 =>
                         exists \subseteq before \union {NextAttempt} /\ ~filed
  BY DEF CommandsFinish, Missing
<1>1. job.does = "nothing" /\ ~Upgrading
  BY IdleJob DEF Upgrading
<1>2. \A r \in 1..version : CreatedBy(r) \subseteq exists \union Missing
  BY <1>1 DEF AllServed, RevisionsServed
<1>3. ASSUME version = 0, stops = 0
      PROVE  exists \subseteq before \union {NextAttempt} /\ ~filed
  <2>1. Tracked
    BY <1>3
  <2>2. ~filed
    BY <1>1, <1>3, <2>1 DEF Tracked, LedgerFollows
  <2>3. \A o : ~Noted(o)
    <3>1. \A r \in Revisions : ~(r <= 0)
      BY DEF Revisions
    <3>2. QED
      BY <1>1, <1>3, <3>1 DEF Noted
  <2>4. QED
    BY <1>1, <2>1, <2>2, <2>3 DEF Tracked, ObjectsNoted, Fresh
<1>4. QED
  BY <1>2, <1>3

\* A revision that a command has applied has everything it creates, but for what
\* Missing allows it, and without a crash a database back at 0003 is what it was
\* before, but for NextAttempt; for any number of commands and crashes.
THEOREM CommandsAlwaysFinish == MigrationSpec => []CommandsFinish
<1>1. MigrationInit => MigrationTyped /\ (stops = 0 => Tracked) /\ AllServed
  BY TypedInitially, TrackedInitially, ServedInitially
<1>2. MigrationTyped /\ (stops = 0 => Tracked) /\ AllServed /\ [MigrationNext]_migrationVars
        => (MigrationTyped /\ (stops = 0 => Tracked) /\ AllServed)'
  BY TypedKept, TrackedKept, ServedKept
<1>3. QED
  BY <1>1, <1>2, ServedFinishes, PTL DEF MigrationSpec

-----------------------------------------------------------------------------
(*****************************************************************************)
(* SnapshotBackfill: the readers of snapshots during revisions 0006 and      *)
(* 0007, for any keys, rows, contents and deaths.                            *)
(*****************************************************************************)

LEMMA BackfillNumbers ==
  /\ LegacyRows \subseteq Nat \ {NoRow} /\ FreshRows \subseteq Nat \ {NoRow} /\ NoRow = 0
  /\ \E last \in LegacyRows \union {NoRow} : \A r \in LegacyRows : r <= last
  /\ AsOfTimes \subseteq Nat /\ \E last \in AsOfTimes : \A time \in AsOfTimes : time <= last
  /\ NoContent \notin Contents /\ MaxDeaths \in Nat
  BY BackfillAssumption DEF NoRow

\* A set of numbers has a least member.
LEMMA LeastRow ==
  ASSUME NEW S \in SUBSET Nat, S # {}
  PROVE  Min(S) \in S /\ \A y \in S : Min(S) <= y
<1> DEFINE R == {p \in Nat \X Nat : p[1] < p[2]}
<1>1. IsWellFoundedOn(R, Nat)
  BY NatLessThanWellFounded DEF OpToRel
<1> HIDE DEF R
<1>2. PICK m \in S : \A n \in S : ~(<<n, m>> \in R)
  BY <1>1, WFMin
<1>3. ASSUME NEW n \in S PROVE m <= n
  <2>1. n \in Nat /\ m \in Nat /\ ~(<<n, m>> \in R)
    BY <1>2
  <2>2. ~(n < m)
    BY <2>1 DEF R
  <2>3. QED
    BY <2>1, <2>2
<1>4. QED
  BY <1>3 DEF Min

\* And a bounded one a greatest.
LEMMA GreatestRow ==
  ASSUME NEW S \in SUBSET Nat, S # {}, NEW bound \in Nat, \A y \in S : y <= bound
  PROVE  \E m \in S : \A y \in S : y <= m
<1> DEFINE T == {n \in Nat : \E y \in S : n = bound - y}
<1>1. T \in SUBSET Nat /\ T # {}
  <2>1. \A y \in S : bound - y \in Nat
    OBVIOUS
  <2>2. QED
    BY <2>1
<1>2. Min(T) \in T /\ \A n \in T : Min(T) <= n
  BY <1>1, LeastRow
<1>3. PICK m \in S : Min(T) = bound - m
  BY <1>2
<1>4. ASSUME NEW y \in S PROVE y <= m
  <2>1. bound - y \in T
    OBVIOUS
  <2>2. bound - m <= bound - y
    BY <1>2, <1>3, <2>1
  <2>3. QED
    BY <2>2
<1>5. QED
  BY <1>4

LEMMA LastTime == Max(AsOfTimes) \in AsOfTimes
<1>1. \E last \in AsOfTimes : \A time \in AsOfTimes : last >= time
  BY BackfillNumbers
<1>2. QED
  BY <1>1 DEF Max

-----------------------------------------------------------------------------
\* A published row of a key that no other one follows.
Newest(r, key) ==
  /\ r \in PublishedRows /\ rows[r].key = key
  /\ \A q \in PublishedRows \ {r} : rows[q].key = key => Earlier(q, r)

\* What the legacy reader of a key is to be answered, without its choice.
Answered(key) ==
  \/ /\ \A r \in PublishedRows : rows[r].key # key
     /\ answers[key] = NoContent
  \/ \E r \in PublishedRows : Newest(r, key) /\ answers[key] = rows[r].data

RowType == [key : SnapshotKeys, asOf : AsOfTimes, data : Contents \union {NoContent},
            published : BOOLEAN, payload : stored \union {NoContent}, state : {"ready", "retired"}]

BackfillTyped ==
  /\ Known \subseteq LegacyRows \union FreshRows
  /\ rows \in [Known -> RowType]
  /\ stored \subseteq Contents /\ inline \subseteq Columns
  /\ heads \in [SnapshotKeys -> Known \union {NoRow}]
  /\ \A key \in SnapshotKeys : heads[key] # NoRow =>
       rows[heads[key]].key = key /\ rows[heads[key]].payload \in stored
  /\ answers = [key \in SnapshotKeys |-> answers[key]]
  /\ progress \in [does : {"nothing", "payloads", "heads", "retire", "publish",
                           "contract", "restore"}, at : Nat]
  /\ applied \in 5..7 /\ deaths \in 0..MaxDeaths /\ switched \in BOOLEAN

\* While 0006 has not been applied.
BeforeSwitch ==
  /\ progress.does \in {"nothing", "payloads", "heads", "retire", "publish"} /\ ~switched
  /\ Known \subseteq LegacyRows
  /\ \/ inline = Columns
     \/ inline = {} /\ rows = <<>> /\ progress.does = "nothing"
  /\ \A r \in PublishedRows : rows[r].data \in Contents /\ rows[r].payload \in {NoContent, rows[r].data}
  /\ \A key \in SnapshotKeys : heads[key] # NoRow => heads[key] \in PublishedRows
  /\ \A key \in SnapshotKeys : Answered(key)
  /\ progress.does = "payloads" /\ progress.at # NoRow =>
       progress.at \in PublishedRows /\ rows[progress.at].data \in stored
  /\ progress.does \in {"heads", "retire", "publish"} =>
       \A r \in PublishedRows : rows[r].payload # NoContent
  /\ progress.does = "heads" =>
       /\ progress.at = NoRow \/ progress.at \in PublishedRows
       /\ \A r \in PublishedRows \ Unread : heads[rows[r].key] \in {q \in PublishedRows : q = r \/ Earlier(r, q)}
  /\ progress.does \in {"retire", "publish"} =>
       \A r \in PublishedRows : heads[rows[r].key] \in {q \in PublishedRows : q = r \/ Earlier(r, q)}
  /\ progress.does = "publish" => \A r \in PublishedRows : IsHead(r)
  /\ progress.does = "nothing" => progress.at = NoRow

AfterSwitch ==
  /\ progress.does \in {"nothing", "contract", "restore"}
  /\ progress.does = "contract" => applied = 6
  /\ progress.does = "restore" => applied = 7
  /\ progress.does = "nothing" => progress.at = NoRow
  /\ \A key \in SnapshotKeys : HeadAnswer(key) = answers[key]
  /\ applied = 7 => PublishedRows = {}
  /\ applied = 6 /\ inline = Columns /\ ~switched =>
       /\ \A r \in Known : rows[r].published <=> IsHead(r)
       /\ \A r \in PublishedRows : rows[r].data = rows[r].payload
  /\ progress.does = "restore" =>
       \A r \in Known : rows[r].payload \in stored /\ r <= progress.at => rows[r].data = rows[r].payload

BackfillSafe ==
  /\ BackfillTyped
  /\ applied = 5 => BeforeSwitch
  /\ applied >= 6 => AfterSwitch

-----------------------------------------------------------------------------
\* The order of the rows.
LEMMA RowOrder ==
  ASSUME BackfillTyped
  PROVE  /\ \A q, r \in Known : q = r \/ Earlier(q, r) \/ Earlier(r, q)
         /\ \A q, r \in Known : Earlier(q, r) => ~Earlier(r, q) /\ q # r
         /\ \A q, r, s \in Known : Earlier(q, r) /\ Earlier(r, s) => Earlier(q, s)
<1>1. \A r \in Known : r \in Nat /\ rows[r].asOf \in Nat
  BY BackfillNumbers DEF BackfillTyped, RowType
<1>2. QED
  BY <1>1 DEF Earlier

LEMMA EarliestRow ==
  ASSUME BackfillTyped, NEW S \in SUBSET Known, S # {}
  PROVE  \E r \in S : \A q \in S \ {r} : Earlier(r, q)
<1>1. \A r \in Known : r \in Nat /\ rows[r].asOf \in Nat
  BY BackfillNumbers DEF BackfillTyped, RowType
<1> DEFINE T == {t \in Nat : \E r \in S : rows[r].asOf = t}
<1>2. T \in SUBSET Nat /\ T # {}
  BY <1>1
<1>3. PICK first \in T : \A t \in T : first <= t
  BY <1>2, LeastRow
<1> DEFINE U == {r \in S : rows[r].asOf = first}
<1>4. U \in SUBSET Nat /\ U # {}
  BY <1>1
<1>5. PICK r \in U : \A q \in U : r <= q
  BY <1>4, LeastRow
<1>6. ASSUME NEW q \in S \ {r} PROVE Earlier(r, q)
  <2>1. rows[q].asOf \in T /\ q \in Nat /\ r \in Nat /\ rows[q].asOf \in Nat
    BY <1>1
  <2>2. first <= rows[q].asOf /\ rows[r].asOf = first /\ first \in Nat
    BY <1>3, <2>1
  <2>3. rows[q].asOf = first => r <= q
    BY <1>5
  <2>4. QED
    BY <2>1, <2>2, <2>3 DEF Earlier
<1>7. QED
  BY <1>6

LEMMA LatestRow ==
  ASSUME BackfillTyped, NEW S \in SUBSET (Known \intersect LegacyRows), S # {}
  PROVE  \E r \in S : \A q \in S \ {r} : Earlier(q, r)
<1>1. \A r \in Known : r \in Nat /\ rows[r].asOf \in AsOfTimes /\ rows[r].asOf \in Nat
  BY BackfillNumbers DEF BackfillTyped, RowType
<1> DEFINE T == {t \in AsOfTimes : \E r \in S : rows[r].asOf = t}
<1>2. T \in SUBSET Nat /\ T # {}
  BY <1>1, BackfillNumbers
<1>3. PICK last \in T : \A t \in T : t <= last
  <2>1. PICK bound \in Nat : \A t \in T : t <= bound
    BY BackfillNumbers
  <2>2. QED
    BY <1>2, <2>1, GreatestRow
<1> DEFINE U == {r \in S : rows[r].asOf = last}
<1>4. U \in SUBSET Nat /\ U # {}
  BY <1>1
<1>5. PICK r \in U : \A q \in U : q <= r
  <2>1. PICK bound \in Nat : \A q \in LegacyRows : q <= bound
    BY BackfillNumbers
  <2>2. \A q \in U : q <= bound
    BY <2>1
  <2>3. QED
    BY <1>4, <2>2, GreatestRow
<1>6. ASSUME NEW q \in S \ {r} PROVE Earlier(q, r)
  <2>1. rows[q].asOf \in T /\ q \in Nat /\ r \in Nat /\ rows[q].asOf \in Nat
    BY <1>1
  <2>2. rows[q].asOf <= last /\ rows[r].asOf = last /\ last \in Nat
    BY <1>2, <1>3, <2>1
  <2>3. rows[q].asOf = last => q <= r
    BY <1>5
  <2>4. QED
    BY <2>1, <2>2, <2>3 DEF Earlier
<1>7. QED
  BY <1>6

\* What the legacy reader chooses is what the newest row holds.
LEMMA LegacyChoice ==
  ASSUME BackfillTyped, NEW key \in SnapshotKeys
  PROVE  /\ (\A r \in PublishedRows : rows[r].key # key) => LegacyAnswer(key) = NoContent
         /\ \A r \in PublishedRows : Newest(r, key) => LegacyAnswer(key) = rows[r].data
<1> DEFINE C == {r \in PublishedRows : rows[r].key = key}
<1>1. LegacyAnswer(key) = IF C = {} THEN NoContent
        ELSE rows[CHOOSE r \in C : \A q \in C \ {r} : Earlier(q, r)].data
  BY DEF LegacyAnswer
<1>2. ASSUME NEW r \in PublishedRows, Newest(r, key)
      PROVE  LegacyAnswer(key) = rows[r].data
  <2>1. r \in C /\ \A q \in C \ {r} : Earlier(q, r)
    BY <1>2 DEF Newest
  <2>2. ASSUME NEW s \in C, \A q \in C \ {s} : Earlier(q, s)
        PROVE  s = r
    <3>1. r \in Known /\ s \in Known
      BY <2>1 DEF PublishedRows
    <3>2. QED
      BY <2>1, <2>2, <3>1, RowOrder
  <2>3. (CHOOSE s \in C : \A q \in C \ {s} : Earlier(q, s)) = r
    BY <2>1, <2>2
  <2>4. QED
    BY <1>1, <2>1, <2>3
<1>3. QED
  BY <1>1, <1>2

LEMMA NewestIsThere ==
  ASSUME BackfillTyped, Known \subseteq LegacyRows, NEW key \in SnapshotKeys
  PROVE  \/ \A r \in PublishedRows : rows[r].key # key
         \/ \E r \in PublishedRows : Newest(r, key)
<1> DEFINE C == {r \in PublishedRows : rows[r].key = key}
<1>1. CASE C = {}
  BY <1>1
<1>2. CASE C # {}
  <2>1. C \in SUBSET (Known \intersect LegacyRows)
    BY DEF PublishedRows
  <2>2. PICK r \in C : \A q \in C \ {r} : Earlier(q, r)
    BY <1>2, <2>1, LatestRow
  <2>3. QED
    BY <2>2 DEF Newest
<1>3. QED
  BY <1>1, <1>2

LEMMA RowFacts ==
  ASSUME BackfillTyped, NEW r \in Known
  PROVE  /\ r \in Nat \ {NoRow} /\ rows[r] \in RowType
         /\ rows[r].key \in SnapshotKeys /\ rows[r].asOf \in AsOfTimes
         /\ rows[r].data \in Contents \union {NoContent}
         /\ rows[r].payload \in stored \union {NoContent}
BY BackfillNumbers DEF BackfillTyped, RowType

\* What depends on the keys, the times and the published rows alone.
SameOrder ==
  /\ Known' = Known
  /\ \A r \in Known : rows'[r].key = rows[r].key /\ rows'[r].asOf = rows[r].asOf

LEMMA OrderKept ==
  ASSUME SameOrder
  PROVE  \A q, r \in Known : Earlier(q, r)' <=> Earlier(q, r)
BY DEF SameOrder, Earlier

LEMMA RowsKept ==
  ASSUME UNCHANGED rows
  PROVE  SameOrder /\ PublishedRows' = PublishedRows
BY DEF SameOrder, Known, PublishedRows

LEMMA AnswersKept ==
  ASSUME SameOrder, PublishedRows' = PublishedRows, UNCHANGED answers,
         \A r \in PublishedRows : rows'[r].data = rows[r].data,
         NEW key \in SnapshotKeys, Answered(key)
  PROVE  Answered(key)'
<1>1. \A r \in PublishedRows : r \in Known /\ rows'[r].key = rows[r].key
  BY DEF SameOrder, PublishedRows
<1>2. CASE (\A r \in PublishedRows : rows[r].key # key) /\ answers[key] = NoContent
  BY <1>1, <1>2 DEF Answered
<1>3. CASE \E r \in PublishedRows : Newest(r, key) /\ answers[key] = rows[r].data
  <2>1. PICK r \in PublishedRows : Newest(r, key) /\ answers[key] = rows[r].data
    BY <1>3
  <2>2. Newest(r, key)'
    BY <1>1, <2>1, OrderKept DEF Newest
  <2>3. QED
    BY <2>1, <2>2 DEF Answered
<1>4. QED
  BY <1>2, <1>3 DEF Answered

-----------------------------------------------------------------------------
LEMMA BackfillInitially == BackfillInit => BackfillSafe
<1> SUFFICES ASSUME BackfillInit PROVE BackfillSafe
  OBVIOUS
<1>1. /\ stored = {} /\ heads = [key \in SnapshotKeys |-> NoRow]
      /\ progress = AtRest /\ applied = 5 /\ deaths = 0 /\ switched = FALSE
      /\ answers = [key \in SnapshotKeys |-> LegacyAnswer(key)]
  BY DEF BackfillInit
<1>2. /\ Known \subseteq LegacyRows /\ rows \in [Known -> RowType]
      /\ inline = Columns \/ (inline = {} /\ rows = <<>>)
      /\ \A r \in Known : rows[r].data \in Contents /\ rows[r].payload = NoContent
  <2>1. CASE inline = Columns /\ rows \in {db \in [LegacyRows -> LegacyRow] :
                       \A r \in LegacyRows : (db[r].state = "ready") = db[r].published}
    <3>1. rows \in [LegacyRows -> LegacyRow]
      BY <2>1
    <3>2. Known = LegacyRows
      BY <3>1 DEF Known
    <3>3. \A r \in LegacyRows : rows[r] \in RowType /\ rows[r].data \in Contents
                                /\ rows[r].payload = NoContent
      BY <3>1 DEF LegacyRow, RowType
    <3>4. rows \in [Known -> RowType]
      BY <3>1, <3>2, <3>3
    <3>5. QED
      BY <2>1, <3>2, <3>3, <3>4
  <2>2. CASE inline = {} /\ rows = <<>>
    <3>1. Known = {} /\ rows = [r \in Known |-> rows[r]]
      BY <2>2 DEF Known
    <3>2. QED
      BY <2>2, <3>1
  <2>3. QED
    BY <2>1, <2>2 DEF BackfillInit
<1>3. BackfillTyped
  <2>1. progress \in [does : {"nothing", "payloads", "heads", "retire", "publish",
                           "contract", "restore"}, at : Nat]
    BY <1>1, BackfillNumbers DEF AtRest
  <2>2. heads \in [SnapshotKeys -> Known \union {NoRow}] /\ \A key \in SnapshotKeys : heads[key] = NoRow
    BY <1>1
  <2>3. inline \subseteq Columns /\ stored \subseteq Contents
    BY <1>1, <1>2
  <2>4. applied \in 5..7 /\ deaths \in 0..MaxDeaths /\ switched \in BOOLEAN
    <3>1. deaths \in 0..MaxDeaths
      BY <1>1, BackfillNumbers
    <3>2. switched \in BOOLEAN
      BY <1>1
    <3>3. applied \in 5..7
      BY <1>1
    <3>4. QED
      BY <3>1, <3>2, <3>3
  <2>5. Known \subseteq LegacyRows \union FreshRows
    BY <1>2
  <2>6. answers = [key \in SnapshotKeys |-> answers[key]]
    BY <1>1
  <2>7. QED
    BY <1>2, <2>1, <2>2, <2>3, <2>4, <2>5, <2>6 DEF BackfillTyped
<1>4. BeforeSwitch
  <2>1. progress.does = "nothing" /\ progress.at = NoRow
    BY <1>1 DEF AtRest
  <2>2. ASSUME NEW key \in SnapshotKeys PROVE Answered(key)
    <3>1. answers[key] = LegacyAnswer(key)
      BY <1>1
    <3>2. QED
      BY <1>2, <1>3, <3>1, NewestIsThere, LegacyChoice DEF Answered
  <2>3. \A r \in PublishedRows : r \in Known
    BY DEF PublishedRows
  <2>4. QED
    BY <1>1, <1>2, <2>1, <2>2, <2>3 DEF BeforeSwitch
<1>5. QED
  BY <1>1, <1>3, <1>4 DEF BackfillSafe

\* BeginBackfill, for a database with the inline columns and for one without.
LEMMA BeginBackfillSteps == BackfillSafe /\ BeginBackfill => BackfillSafe'
<1> SUFFICES ASSUME BackfillSafe, BeginBackfill PROVE BackfillSafe'
  OBVIOUS
<1>1. /\ progress = AtRest /\ applied = 5
      /\ UNCHANGED <<rows, stored, heads, inline, switched, answers, deaths>>
  BY DEF BeginBackfill
<1>2. BackfillTyped /\ BeforeSwitch
  BY <1>1 DEF BackfillSafe
<1>3. SameOrder /\ PublishedRows' = PublishedRows /\ RowType' = RowType
  BY <1>1, RowsKept DEF RowType
<1>4. CASE inline = Columns
  <2>1. progress' = [does |-> "payloads", at |-> NoRow] /\ applied' = applied
    BY <1>4 DEF BeginBackfill, Proceed
  <2>2. BackfillTyped'
    <3>1. progress' \in [does : {"nothing", "payloads", "heads", "retire", "publish", "contract", "restore"}, at : Nat]
      BY <2>1, BackfillNumbers
    <3>2. QED
      BY <1>1, <1>2, <1>3, <2>1, <3>1 DEF BackfillTyped, Known
  <2>3. \A key \in SnapshotKeys : Answered(key)'
    BY <1>1, <1>2, <1>3, AnswersKept DEF BeforeSwitch
  <2>4. BeforeSwitch'
    BY <1>1, <1>2, <1>3, <1>4, <2>1, <2>3 DEF BeforeSwitch, Known
  <2>5. QED
    BY <1>1, <2>1, <2>2, <2>4 DEF BackfillSafe
<1>5. CASE inline # Columns
  <2>1. applied' = 6 /\ progress' = progress
    BY <1>5 DEF BeginBackfill
  <2>2. Known = {} /\ rows = <<>>
    BY <1>2, <1>5 DEF BeforeSwitch, Known
  <2>3. PublishedRows = {}
    BY <2>2 DEF PublishedRows
  <2>4. BackfillTyped'
    BY <1>1, <1>2, <1>3, <2>1 DEF BackfillTyped, Known
  <2>5. ASSUME NEW key \in SnapshotKeys PROVE HeadAnswer(key)' = answers'[key]
    <3>1. heads[key] = NoRow
      BY <1>2, <2>3 DEF BeforeSwitch
    <3>2. answers[key] = NoContent
      BY <1>2, <2>3 DEF BeforeSwitch, Answered
    <3>3. QED
      BY <1>1, <3>1, <3>2 DEF HeadAnswer
  <2>6. progress.does = "nothing" /\ progress.at = NoRow
    BY <1>1 DEF AtRest
  <2>7. AfterSwitch'
    BY <1>1, <1>3, <1>5, <2>1, <2>3, <2>5, <2>6 DEF AfterSwitch
  <2>8. QED
    BY <2>1, <2>4, <2>7 DEF BackfillSafe
<1>6. QED
  BY <1>4, <1>5

LEMMA StorePayloadSteps == BackfillSafe /\ StorePayload => BackfillSafe'
<1> SUFFICES ASSUME BackfillSafe, StorePayload PROVE BackfillSafe'
  OBVIOUS
<1>1. /\ progress.does = "payloads" /\ progress.at = NoRow
      /\ UNCHANGED <<rows, heads, inline, applied, switched, answers, deaths>>
  BY DEF StorePayload, Doing
<1>2. BackfillTyped /\ BeforeSwitch /\ applied = 5
  BY <1>1 DEF BackfillSafe, BackfillTyped, AfterSwitch
<1>3. SameOrder /\ PublishedRows' = PublishedRows
  BY <1>1, RowsKept
<1>4. \A key \in SnapshotKeys : Answered(key)'
  BY <1>1, <1>2, <1>3, AnswersKept DEF BeforeSwitch
<1>5. CASE Unlinked = {}
  <2>1. stored' = stored /\ progress' = [does |-> "heads", at |-> NoRow]
    BY <1>5 DEF StorePayload, Proceed
  <2>2. BackfillTyped'
    <3>1. progress' \in [does : {"nothing", "payloads", "heads", "retire", "publish", "contract", "restore"}, at : Nat]
      BY <2>1, BackfillNumbers
    <3>2. QED
      BY <1>1, <1>2, <2>1, <3>1 DEF BackfillTyped, Known, RowType
  <2>3. \A r \in PublishedRows : rows[r].payload # NoContent
    BY <1>5 DEF Unlinked
  <2>4. Unread' = PublishedRows
    BY <1>3, <2>1 DEF Unread
  <2>5. BeforeSwitch'
    BY <1>1, <1>2, <1>3, <1>4, <2>1, <2>3, <2>4 DEF BeforeSwitch, Known
  <2>6. QED
    BY <1>1, <1>2, <2>2, <2>5 DEF BackfillSafe
<1>6. CASE Unlinked # {}
  <2>1. PICK r : r = Min(Unlinked)
    OBVIOUS
  <2>2. r \in Unlinked /\ r \in PublishedRows /\ r \in Known
    <3>1. Unlinked \in SUBSET Nat
      BY <1>2, RowFacts DEF Unlinked, PublishedRows
    <3>2. r \in Unlinked
      BY <1>6, <2>1, <3>1, LeastRow
    <3>3. QED
      BY <3>2 DEF Unlinked, PublishedRows
  <2>3. stored' = stored \union {rows[r].data} /\ progress' = [progress EXCEPT !.at = r]
    BY <1>6, <2>1 DEF StorePayload, Reach
  <2>4. r \in Nat \ {NoRow}
    BY <1>2, <2>2, RowFacts
  <2>5. progress' = [does |-> "payloads", at |-> r]
    BY <1>1, <1>2, <2>3 DEF BackfillTyped
  <2>6. rows[r].data \in Contents
    BY <1>2, <2>2 DEF BeforeSwitch
  <2>7. BackfillTyped'
    <3>1. progress' \in [does : {"nothing", "payloads", "heads", "retire", "publish", "contract", "restore"}, at : Nat]
      BY <2>4, <2>5
    <3>2. \A q \in Known : rows[q] \in RowType'
      BY <1>2, <2>3 DEF BackfillTyped, RowType
    <3>3. rows' \in [Known' -> RowType'] /\ Known' = Known
      BY <1>1, <1>2, <3>2 DEF BackfillTyped, Known
    <3>4. QED
      BY <1>1, <1>2, <2>3, <2>6, <3>1, <3>3 DEF BackfillTyped
  <2>8. BeforeSwitch'
    BY <1>1, <1>2, <1>3, <1>4, <2>2, <2>3, <2>5 DEF BeforeSwitch, Known
  <2>9. QED
    BY <1>1, <1>2, <2>7, <2>8 DEF BackfillSafe
<1>7. QED
  BY <1>5, <1>6

LEMMA LinkPayloadSteps == BackfillSafe /\ LinkPayload => BackfillSafe'
<1> SUFFICES ASSUME BackfillSafe, LinkPayload PROVE BackfillSafe'
  OBVIOUS
<1>1. /\ progress.does = "payloads" /\ progress.at # NoRow
      /\ progress' = [does |-> "payloads", at |-> NoRow]
      /\ UNCHANGED <<stored, heads, inline, applied, switched, answers, deaths>>
  BY DEF LinkPayload, Doing, Proceed
<1>2. BackfillTyped /\ BeforeSwitch /\ applied = 5
  BY <1>1 DEF BackfillSafe, BackfillTyped, AfterSwitch
<1>3. PICK r : r = progress.at
  OBVIOUS
<1>4. r \in PublishedRows /\ r \in Known /\ rows[r].data \in stored
  BY <1>1, <1>2, <1>3 DEF BeforeSwitch, PublishedRows
<1>5. PICK linked : linked = [rows[r] EXCEPT !.payload = rows[r].data, !.state = "ready"]
  OBVIOUS
<1>6. /\ linked \in RowType /\ linked.key = rows[r].key /\ linked.asOf = rows[r].asOf
      /\ linked.data = rows[r].data /\ linked.payload = rows[r].data
      /\ linked.published <=> rows[r].published
  BY <1>2, <1>4, <1>5, RowFacts DEF RowType
<1>7. rows' = [rows EXCEPT ![r] = linked]
  BY <1>2, <1>3, <1>4, <1>5 DEF LinkPayload, BackfillTyped
<1>8. /\ Known' = Known /\ rows'[r] = linked /\ \A q \in Known \ {r} : rows'[q] = rows[q]
      /\ rows' \in [Known -> RowType]
  BY <1>2, <1>4, <1>6, <1>7 DEF BackfillTyped, Known
<1>9. SameOrder /\ PublishedRows' = PublishedRows
  <2>1. SameOrder
    BY <1>6, <1>8 DEF SameOrder
  <2>2. \A q \in Known : rows'[q].published <=> rows[q].published
    <3> SUFFICES ASSUME NEW q \in Known PROVE rows'[q].published <=> rows[q].published
      OBVIOUS
    <3>1. CASE q = r
      <4>1. rows'[q] = linked
        BY <1>8, <3>1
      <4>2. linked.published <=> rows[r].published
        BY <1>6
      <4>3. QED
        BY <3>1, <4>1, <4>2
    <3>2. CASE q # r
      <4>1. rows'[q] = rows[q]
        BY <1>8, <3>2
      <4>2. QED
        BY <4>1
    <3>3. QED
      BY <3>1, <3>2
  <2>3. PublishedRows' = PublishedRows
    BY <1>8, <2>2 DEF PublishedRows
  <2>4. QED
    BY <2>1, <2>3
<1>a. \A q \in PublishedRows : q \in Known /\ rows'[q].data = rows[q].data
  BY <1>6, <1>8 DEF PublishedRows
<1>b. \A key \in SnapshotKeys : Answered(key)'
  BY <1>1, <1>2, <1>9, <1>a, AnswersKept DEF BeforeSwitch
<1>c. BackfillTyped'
  <2>1. progress' \in [does : {"nothing", "payloads", "heads", "retire", "publish", "contract", "restore"}, at : Nat]
    BY <1>1, BackfillNumbers
  <2>2. \A key \in SnapshotKeys : heads[key] # NoRow =>
          rows'[heads[key]].key = key /\ rows'[heads[key]].payload \in stored
    BY <1>2, <1>4, <1>6, <1>8 DEF BackfillTyped
  <2>3. RowType' = RowType
    BY <1>1 DEF RowType
  <2>4. QED
    BY <1>1, <1>2, <1>8, <2>1, <2>2, <2>3 DEF BackfillTyped
<1>d. \A q \in PublishedRows : rows'[q].data \in Contents /\ rows'[q].payload \in {NoContent, rows'[q].data}
  BY <1>2, <1>6, <1>8, <1>a DEF BeforeSwitch
<1>e. inline = Columns
  BY <1>1, <1>2 DEF BeforeSwitch
<1>f. BeforeSwitch'
  BY <1>1, <1>2, <1>8, <1>9, <1>b, <1>d, <1>e DEF BeforeSwitch
<1>g. QED
  BY <1>1, <1>2, <1>c, <1>f DEF BackfillSafe

\* What has been read of the published rows: their keys' heads are not behind.
HeadsReach(S) ==
  \A r \in S : heads[rows[r].key] \in {q \in PublishedRows : q = r \/ Earlier(r, q)}

LEMMA BackfillHeadSteps == BackfillSafe /\ BackfillHead => BackfillSafe'
<1> SUFFICES ASSUME BackfillSafe, BackfillHead PROVE BackfillSafe'
  OBVIOUS
<1>1. /\ progress.does = "heads"
      /\ UNCHANGED <<rows, stored, inline, applied, switched, answers, deaths>>
  BY DEF BackfillHead, Doing
<1>2. BackfillTyped /\ BeforeSwitch /\ applied = 5
  BY <1>1 DEF BackfillSafe, BackfillTyped, AfterSwitch
<1>3. SameOrder /\ PublishedRows' = PublishedRows /\ Known' = Known
  BY <1>1, RowsKept DEF SameOrder
<1>4. \A key \in SnapshotKeys : Answered(key)'
  BY <1>1, <1>2, <1>3, AnswersKept DEF BeforeSwitch
<1>5. /\ progress.at = NoRow \/ progress.at \in PublishedRows
      /\ \A r \in PublishedRows : rows[r].payload # NoContent
      /\ HeadsReach(PublishedRows \ Unread)
      /\ inline = Columns
  BY <1>1, <1>2 DEF BeforeSwitch, HeadsReach
<1>6. PublishedRows \subseteq Known
  BY DEF PublishedRows
<1>7. CASE Unread = {}
  <2>1. heads' = heads /\ progress' = [does |-> "retire", at |-> NoRow]
    BY <1>7 DEF BackfillHead, Proceed
  <2>2. BackfillTyped'
    <3>1. progress' \in [does : {"nothing", "payloads", "heads", "retire", "publish", "contract", "restore"}, at : Nat]
      BY <2>1, BackfillNumbers
    <3>2. QED
      BY <1>1, <1>2, <1>3, <2>1, <3>1 DEF BackfillTyped, RowType
  <2>3. HeadsReach(PublishedRows)
    BY <1>5, <1>7
  <2>4. \A r \in PublishedRows : heads'[rows'[r].key] \in {q \in PublishedRows' : q = r \/ Earlier(r, q)'}
    BY <1>1, <1>3, <1>6, <2>1, <2>3, OrderKept DEF HeadsReach
  <2>5. BeforeSwitch'
    BY <1>1, <1>2, <1>3, <1>4, <1>5, <2>1, <2>4 DEF BeforeSwitch
  <2>6. QED
    BY <1>1, <1>2, <2>2, <2>5 DEF BackfillSafe
<1>8. CASE Unread # {}
  <2>1. PICK r : r = NextRead
    OBVIOUS
  <2>2. r \in Unread /\ \A q \in Unread \ {r} : Earlier(r, q)
    <3>1. Unread \in SUBSET Known
      BY <1>6 DEF Unread
    <3>2. \E s \in Unread : \A q \in Unread \ {s} : Earlier(s, q)
      BY <1>2, <1>8, <3>1, EarliestRow
    <3>3. QED
      BY <2>1, <3>2 DEF NextRead, Follows
  <2>3. r \in PublishedRows /\ r \in Known /\ (progress.at = NoRow \/ Earlier(progress.at, r))
    BY <1>6, <2>2 DEF Unread, Follows
  <2>4. r \in Nat \ {NoRow} /\ rows[r].key \in SnapshotKeys
    BY <1>2, <2>3, RowFacts
  <2>5. heads' = [heads EXCEPT ![rows[r].key] = r] /\ progress' = [progress EXCEPT !.at = r]
    BY <1>8, <2>1 DEF BackfillHead, Reach
  <2>6. progress' = [does |-> "heads", at |-> r]
    BY <1>1, <1>2, <2>5 DEF BackfillTyped
  <2>7. /\ heads' \in [SnapshotKeys -> Known \union {NoRow}]
        /\ heads'[rows[r].key] = r
        /\ \A key \in SnapshotKeys : key # rows[r].key => heads'[key] = heads[key]
    BY <1>2, <2>3, <2>4, <2>5 DEF BackfillTyped
  <2>8. rows[r].payload \in stored
    BY <1>2, <1>5, <2>3, RowFacts
  <2>9. BackfillTyped'
    <3>1. progress' \in [does : {"nothing", "payloads", "heads", "retire", "publish", "contract", "restore"}, at : Nat]
      BY <2>4, <2>6
    <3>2. \A key \in SnapshotKeys : heads'[key] # NoRow =>
            rows[heads'[key]].key = key /\ rows[heads'[key]].payload \in stored
      BY <1>2, <2>7, <2>8 DEF BackfillTyped
    <3>3. QED
      BY <1>1, <1>2, <1>3, <2>7, <3>1, <3>2 DEF BackfillTyped, RowType
  <2>a. \A key \in SnapshotKeys : heads'[key] # NoRow => heads'[key] \in PublishedRows
    BY <1>2, <2>3, <2>7 DEF BeforeSwitch
  <2>b. Unread' = {q \in PublishedRows : Earlier(r, q)}
    <3>1. Unread' = {q \in PublishedRows : Earlier(r, q)'}
      BY <1>3, <2>4, <2>6 DEF Unread, Follows
    <3>2. \A q \in PublishedRows : Earlier(r, q)' <=> Earlier(r, q)
      BY <1>3, <1>6, <2>3, OrderKept
    <3>3. QED
      BY <3>1, <3>2
  <2>c. ASSUME NEW q \in PublishedRows \ Unread'
        PROVE  heads'[rows[q].key] \in PublishedRows
               /\ (heads'[rows[q].key] = q \/ Earlier(q, heads'[rows[q].key]))
    <3>1. q \in Known /\ q \in PublishedRows /\ (q = r \/ Earlier(q, r))
      BY <1>2, <1>6, <2>3, <2>b, <2>c, RowOrder
    <3>2. CASE rows[q].key = rows[r].key
      BY <2>3, <2>7, <3>1, <3>2
    <3>3. CASE rows[q].key # rows[r].key
      <4>1. q # r /\ Earlier(q, r)
        BY <3>1, <3>3
      <4>2. q \notin Unread
        <5>1. ~Earlier(r, q)
          BY <1>2, <2>3, <3>1, <4>1, RowOrder
        <5>2. QED
          BY <2>2, <4>1, <5>1
      <4>3. heads[rows[q].key] \in PublishedRows /\ (heads[rows[q].key] = q \/ Earlier(q, heads[rows[q].key]))
        BY <1>5, <3>1, <4>2 DEF HeadsReach
      <4>4. rows[q].key \in SnapshotKeys
        BY <1>2, <3>1, RowFacts
      <4>5. QED
        BY <2>7, <3>3, <4>3, <4>4
    <3>4. QED
      BY <3>2, <3>3
  <2>d. \A q \in PublishedRows \ Unread' :
          heads'[rows'[q].key] \in {s \in PublishedRows' : s = q \/ Earlier(q, s)'}
    <3> SUFFICES ASSUME NEW q \in PublishedRows \ Unread'
                 PROVE  heads'[rows'[q].key] \in {s \in PublishedRows' : s = q \/ Earlier(q, s)'}
      OBVIOUS
    <3>1. PICK s : s = heads'[rows[q].key]
      OBVIOUS
    <3>2. s \in PublishedRows /\ (s = q \/ Earlier(q, s)) /\ s \in Known /\ q \in Known
      BY <1>6, <2>c, <3>1
    <3>3. s = q \/ Earlier(q, s)'
      BY <1>3, <3>2, OrderKept
    <3>4. QED
      BY <1>1, <1>3, <3>1, <3>2, <3>3
  <2>e. BeforeSwitch'
    BY <1>1, <1>2, <1>3, <1>4, <1>5, <2>3, <2>6, <2>a, <2>d DEF BeforeSwitch
  <2>f. QED
    BY <1>1, <1>2, <2>9, <2>e DEF BackfillSafe
<1>9. QED
  BY <1>7, <1>8

\* The head of a key of a published row is the newest row of the key.
LEMMA NewestIsHead ==
  ASSUME BackfillTyped, HeadsReach(PublishedRows), NEW key \in SnapshotKeys,
         NEW r \in PublishedRows, Newest(r, key)
  PROVE  heads[key] = r
<1>1. PICK h : h = heads[key]
  OBVIOUS
<1>2. rows[r].key = key /\ \A q \in PublishedRows \ {r} : rows[q].key = key => Earlier(q, r)
  BY DEF Newest
<1>3. h \in PublishedRows /\ (h = r \/ Earlier(r, h))
  BY <1>1, <1>2 DEF HeadsReach
<1>4. h \in Known /\ r \in Known
  BY <1>3 DEF PublishedRows
<1>5. h \in Nat \ {NoRow}
  BY <1>4, RowFacts
<1>6. rows[h].key = key
  BY <1>1, <1>5 DEF BackfillTyped
<1>7. QED
  BY <1>1, <1>2, <1>3, <1>4, <1>6, RowOrder

LEMMA RetireOthersSteps == BackfillSafe /\ RetireOthers => BackfillSafe'
<1> SUFFICES ASSUME BackfillSafe, RetireOthers PROVE BackfillSafe'
  OBVIOUS
<1>1. /\ progress.does = "retire" /\ progress' = [does |-> "publish", at |-> NoRow]
      /\ UNCHANGED <<stored, heads, inline, applied, switched, answers, deaths>>
  BY DEF RetireOthers, Doing, Proceed
<1>r. rows' = [r \in Known |->
           IF rows[r].published /\ ~IsHead(r)
           THEN [rows[r] EXCEPT !.published = FALSE, !.state = "retired"] ELSE rows[r]]
  BY DEF RetireOthers
<1>2. BackfillTyped /\ BeforeSwitch /\ applied = 5
  BY <1>1 DEF BackfillSafe, BackfillTyped, AfterSwitch
<1>3. Known' = Known /\ PublishedRows \subseteq Known
  BY <1>r DEF Known, PublishedRows
<1>4. ASSUME NEW r \in Known
      PROVE  /\ rows'[r] \in RowType /\ rows'[r].key = rows[r].key /\ rows'[r].asOf = rows[r].asOf
             /\ rows'[r].data = rows[r].data /\ rows'[r].payload = rows[r].payload
             /\ rows'[r].published <=> rows[r].published /\ IsHead(r)
  <2>1. PICK row \in RowType : row = rows[r]
    BY <1>2, RowFacts
  <2>2. PICK gone : gone = [row EXCEPT !.published = FALSE, !.state = "retired"]
    OBVIOUS
  <2>3. /\ gone \in RowType /\ gone.key = row.key /\ gone.asOf = row.asOf
        /\ gone.data = row.data /\ gone.payload = row.payload /\ ~gone.published
    BY <2>1, <2>2 DEF RowType
  <2>4. CASE rows[r].published /\ ~IsHead(r)
    <3>1. rows'[r] = gone
      BY <1>r, <2>1, <2>2, <2>4
    <3>2. QED
      BY <2>1, <2>3, <2>4, <3>1
  <2>5. CASE ~(rows[r].published /\ ~IsHead(r))
    <3>1. rows'[r] = rows[r]
      BY <1>r, <2>5
    <3>2. QED
      BY <2>1, <2>5, <3>1
  <2>6. QED
    BY <2>4, <2>5
<1>5. SameOrder
  BY <1>3, <1>4 DEF SameOrder
<1>6. PublishedRows' = {r \in PublishedRows : IsHead(r)}
  BY <1>3, <1>4 DEF PublishedRows
<1>7. HeadsReach(PublishedRows)
  BY <1>1, <1>2 DEF BeforeSwitch, HeadsReach
<1>8. \A key \in SnapshotKeys : heads[key] # NoRow => heads[key] \in PublishedRows'
  BY <1>2, <1>6 DEF BeforeSwitch, IsHead
<1>9. ASSUME NEW key \in SnapshotKeys PROVE Answered(key)'
  <2>1. CASE (\A r \in PublishedRows : rows[r].key # key) /\ answers[key] = NoContent
    BY <1>1, <1>3, <1>4, <1>6, <2>1 DEF Answered
  <2>2. CASE \E r \in PublishedRows : Newest(r, key) /\ answers[key] = rows[r].data
    <3>1. PICK r \in PublishedRows : Newest(r, key) /\ answers[key] = rows[r].data
      BY <2>2
    <3>2. r \in PublishedRows'
      BY <1>2, <1>6, <1>7, <3>1, NewestIsHead DEF IsHead
    <3>3. Newest(r, key)'
      BY <1>3, <1>4, <1>5, <1>6, <3>1, <3>2, OrderKept DEF Newest
    <3>4. QED
      BY <1>1, <1>3, <1>4, <3>1, <3>2, <3>3 DEF Answered
  <2>3. QED
    BY <1>2, <2>1, <2>2 DEF BeforeSwitch, Answered
<1>a. BackfillTyped'
  <2>1. progress' \in [does : {"nothing", "payloads", "heads", "retire", "publish", "contract", "restore"}, at : Nat]
    BY <1>1, BackfillNumbers
  <2>2. \A key \in SnapshotKeys : heads[key] # NoRow =>
          rows'[heads[key]].key = key /\ rows'[heads[key]].payload \in stored
    BY <1>2, <1>4 DEF BackfillTyped
  <2>3. RowType' = RowType /\ rows' \in [Known -> RowType]
    BY <1>1, <1>r, <1>4 DEF RowType
  <2>4. QED
    BY <1>1, <1>2, <1>3, <2>1, <2>2, <2>3 DEF BackfillTyped
<1>b. \A r \in PublishedRows' : heads'[rows'[r].key] \in {q \in PublishedRows' : q = r \/ Earlier(r, q)'}
  <2> SUFFICES ASSUME NEW r \in PublishedRows'
               PROVE  heads'[rows'[r].key] \in {q \in PublishedRows' : q = r \/ Earlier(r, q)'}
    OBVIOUS
  <2>1. r \in PublishedRows /\ r \in Known
    BY <1>3, <1>6
  <2>2. PICK h : h = heads[rows[r].key]
    OBVIOUS
  <2>3. h \in PublishedRows /\ (h = r \/ Earlier(r, h)) /\ h \in Known
    BY <1>3, <1>7, <2>1, <2>2 DEF HeadsReach
  <2>4. h # NoRow /\ rows[r].key \in SnapshotKeys
    BY <1>2, <2>1, <2>3, RowFacts
  <2>5. h \in PublishedRows'
    BY <1>8, <2>2, <2>4
  <2>6. h = r \/ Earlier(r, h)'
    BY <1>5, <2>1, <2>3, OrderKept
  <2>7. QED
    BY <1>1, <1>4, <2>1, <2>2, <2>5, <2>6
<1>c. \A r \in PublishedRows' : IsHead(r)'
  BY <1>1, <1>6 DEF IsHead
<1>d. BeforeSwitch'
  <2>1. \A r \in PublishedRows' : rows'[r].data \in Contents /\ rows'[r].payload \in {NoContent, rows'[r].data}
                                  /\ rows'[r].payload # NoContent
    BY <1>1, <1>2, <1>3, <1>4, <1>6 DEF BeforeSwitch
  <2>2. inline = Columns
    BY <1>1, <1>2 DEF BeforeSwitch
  <2>3. QED
    BY <1>1, <1>2, <1>3, <1>8, <1>9, <1>b, <1>c, <2>1, <2>2 DEF BeforeSwitch
<1>e. QED
  BY <1>1, <1>2, <1>a, <1>d DEF BackfillSafe

LEMMA PublishHeadsSteps == BackfillSafe /\ PublishHeads => BackfillSafe'
<1> SUFFICES ASSUME BackfillSafe, PublishHeads PROVE BackfillSafe'
  OBVIOUS
<1>1. /\ progress.does = "publish" /\ progress' = [does |-> "nothing", at |-> NoRow] /\ applied' = 6
      /\ UNCHANGED <<stored, heads, inline, switched, answers, deaths>>
  BY DEF PublishHeads, Doing, AtRest
<1>r. rows' = [r \in Known |->
       IF IsHead(r) THEN [rows[r] EXCEPT !.published = TRUE, !.state = "ready"] ELSE rows[r]]
  BY DEF PublishHeads
<1>2. BackfillTyped /\ BeforeSwitch /\ applied = 5
  BY <1>1 DEF BackfillSafe, BackfillTyped, AfterSwitch
<1>3. Known' = Known /\ PublishedRows \subseteq Known
  BY <1>r DEF Known, PublishedRows
<1>4. /\ \A r \in PublishedRows : IsHead(r) /\ rows[r].payload # NoContent
      /\ \A r \in PublishedRows : rows[r].data \in Contents /\ rows[r].payload \in {NoContent, rows[r].data}
      /\ HeadsReach(PublishedRows) /\ inline = Columns
      /\ \A key \in SnapshotKeys : heads[key] # NoRow => heads[key] \in PublishedRows
      /\ \A key \in SnapshotKeys : Answered(key)
  BY <1>1, <1>2 DEF BeforeSwitch, HeadsReach
<1>5. \A r \in Known : IsHead(r) => r \in PublishedRows
  BY <1>2, <1>4, RowFacts DEF IsHead
<1>6. ASSUME NEW r \in Known
      PROVE  /\ rows'[r] \in RowType /\ rows'[r].key = rows[r].key
             /\ rows'[r].data = rows[r].data /\ rows'[r].payload = rows[r].payload
             /\ rows'[r].published <=> IsHead(r)
  <2>1. PICK row \in RowType : row = rows[r]
    BY <1>2, RowFacts
  <2>2. PICK visible : visible = [row EXCEPT !.published = TRUE, !.state = "ready"]
    OBVIOUS
  <2>3. /\ visible \in RowType /\ visible.key = row.key
        /\ visible.data = row.data /\ visible.payload = row.payload /\ visible.published
    BY <2>1, <2>2 DEF RowType
  <2>4. CASE IsHead(r)
    <3>1. rows'[r] = visible
      BY <1>r, <2>1, <2>2, <2>4
    <3>2. QED
      BY <2>1, <2>3, <2>4, <3>1
  <2>5. CASE ~IsHead(r)
    <3>1. rows'[r] = rows[r]
      BY <1>r, <2>5
    <3>2. ~rows[r].published
      BY <1>4, <2>5 DEF PublishedRows
    <3>3. QED
      BY <2>1, <2>5, <3>1, <3>2
  <2>6. QED
    BY <2>4, <2>5
<1>7. ASSUME NEW key \in SnapshotKeys PROVE HeadAnswer(key)' = answers'[key]
  <2>1. CASE (\A r \in PublishedRows : rows[r].key # key) /\ answers[key] = NoContent
    <3>1. heads[key] = NoRow
      BY <1>2, <1>4, <2>1 DEF BackfillTyped
    <3>2. QED
      BY <1>1, <2>1, <3>1 DEF HeadAnswer
  <2>2. CASE \E r \in PublishedRows : Newest(r, key) /\ answers[key] = rows[r].data
    <3>1. PICK r \in PublishedRows : Newest(r, key) /\ answers[key] = rows[r].data
      BY <2>2
    <3>2. heads[key] = r /\ r \in Known
      BY <1>2, <1>3, <1>4, <3>1, NewestIsHead
    <3>3. r # NoRow
      BY <1>2, <3>2, RowFacts
    <3>4. rows'[r].payload = rows[r].data
      BY <1>4, <1>6, <3>2
    <3>5. QED
      BY <1>1, <3>1, <3>2, <3>3, <3>4 DEF HeadAnswer
  <2>3. QED
    BY <1>4, <2>1, <2>2 DEF Answered
<1>8. PublishedRows' = {r \in Known : IsHead(r)}
  BY <1>3, <1>6 DEF PublishedRows
<1>9. BackfillTyped'
  <2>1. progress' \in [does : {"nothing", "payloads", "heads", "retire", "publish", "contract", "restore"}, at : Nat]
    BY <1>1, BackfillNumbers
  <2>2. \A key \in SnapshotKeys : heads[key] # NoRow =>
          rows'[heads[key]].key = key /\ rows'[heads[key]].payload \in stored
    BY <1>2, <1>6 DEF BackfillTyped
  <2>3. RowType' = RowType /\ rows' \in [Known -> RowType]
    BY <1>1, <1>r, <1>6 DEF RowType
  <2>4. QED
    BY <1>1, <1>2, <1>3, <2>1, <2>2, <2>3 DEF BackfillTyped
<1>a. AfterSwitch'
  <2>1. \A r \in PublishedRows' : rows'[r].data = rows'[r].payload
    BY <1>4, <1>5, <1>6, <1>8
  <2>2. \A r \in Known' : rows'[r].published <=> IsHead(r)'
    BY <1>1, <1>3, <1>6 DEF IsHead
  <2>3. QED
    BY <1>1, <1>7, <2>1, <2>2 DEF AfterSwitch
<1>b. QED
  BY <1>1, <1>9, <1>a DEF BackfillSafe

\* The rest happens once 0006 has been applied.
LEMMA Switched ==
  ASSUME BackfillSafe, applied # 5
  PROVE  BackfillTyped /\ AfterSwitch /\ applied \in 6..7
BY DEF BackfillSafe, BackfillTyped

LEMMA SwitchedPublishSteps ==
  ASSUME BackfillSafe, NEW r \in FreshRows, NEW key \in SnapshotKeys, NEW content \in Contents,
         SwitchedPublish(r, key, content)
  PROVE  BackfillSafe'
<1>1. /\ progress = AtRest /\ applied >= 6 /\ r \notin Known
      /\ stored' = stored \union {content} /\ heads' = [heads EXCEPT ![key] = r]
      /\ switched' = TRUE /\ answers' = [answers EXCEPT ![key] = content]
      /\ UNCHANGED <<inline, progress, applied, deaths>>
  BY DEF SwitchedPublish
<1>2. BackfillTyped /\ AfterSwitch /\ applied \in 6..7
  <2>1. applied # 5
    BY <1>1 DEF BackfillSafe, BackfillTyped
  <2>2. QED
    BY <2>1, Switched
<1>3. PICK new : new = [key |-> key, asOf |-> Max(AsOfTimes), data |-> NoContent,
                        published |-> FALSE, payload |-> content, state |-> "ready"]
  OBVIOUS
<1>4. PICK old : old = heads[key]
  OBVIOUS
<1>5. rows' = [q \in Known \union {r} |->
          IF q = r THEN new
          ELSE IF q = old THEN [rows[q] EXCEPT !.state = "retired"] ELSE rows[q]]
  BY <1>3, <1>4 DEF SwitchedPublish
<1>6. Known' = Known \union {r} /\ rows'[r] = new
  BY <1>5 DEF Known
<1>7. PICK S : S = RowType'
  OBVIOUS
<1>8. new \in S /\ new.key = key /\ new.payload = content /\ ~new.published
  BY <1>1, <1>3, <1>7, LastTime DEF RowType
<1>9. ASSUME NEW q \in Known
      PROVE  /\ rows'[q] \in S /\ rows'[q].key = rows[q].key
             /\ rows'[q].data = rows[q].data /\ rows'[q].payload = rows[q].payload
             /\ rows'[q].published <=> rows[q].published
  <2>1. PICK row \in RowType : row = rows[q]
    BY <1>2, RowFacts
  <2>2. PICK retired : retired = [row EXCEPT !.state = "retired"]
    OBVIOUS
  <2>3. /\ retired \in RowType /\ retired.key = row.key
        /\ retired.data = row.data /\ retired.payload = row.payload
        /\ retired.published <=> row.published
    BY <2>1, <2>2 DEF RowType
  <2>4. RowType \subseteq S
    BY <1>1, <1>7 DEF RowType
  <2>5. q # r /\ q \in Known \union {r}
    BY <1>1
  <2>6. CASE q = old
    <3>1. rows'[q] = retired
      BY <1>5, <2>1, <2>2, <2>5, <2>6
    <3>2. QED
      BY <2>1, <2>3, <2>4, <3>1
  <2>7. CASE q # old
    <3>1. rows'[q] = rows[q]
      BY <1>5, <2>5, <2>7
    <3>2. QED
      BY <2>1, <2>4, <3>1
  <2>8. QED
    BY <2>6, <2>7
<1>a. r \in Nat \ {NoRow}
  BY BackfillNumbers
<1>b. /\ heads' \in [SnapshotKeys -> Known' \union {NoRow}] /\ heads'[key] = r
      /\ \A k \in SnapshotKeys \ {key} : heads'[k] = heads[k]
  BY <1>1, <1>2, <1>6 DEF BackfillTyped
<1>c. BackfillTyped'
  <2>1. ASSUME NEW k \in SnapshotKeys, heads'[k] # NoRow
        PROVE  rows'[heads'[k]].key = k /\ rows'[heads'[k]].payload \in stored'
    <3>1. CASE k = key
      BY <1>1, <1>6, <1>8, <1>b, <3>1
    <3>2. CASE k # key
      <4>1. heads'[k] = heads[k] /\ heads[k] \in Known
        BY <1>2, <1>b, <2>1, <3>2 DEF BackfillTyped
      <4>2. rows[heads[k]].key = k /\ rows[heads[k]].payload \in stored
        BY <1>2, <2>1, <4>1 DEF BackfillTyped
      <4>3. QED
        BY <1>1, <1>9, <4>1, <4>2
    <3>3. QED
      BY <3>1, <3>2
  <2>2. \A q \in Known' : rows'[q] \in S
    BY <1>6, <1>8, <1>9
  <2>3. rows' \in [Known' -> S]
    BY <1>5, <1>6, <2>2
  <2>4. Known' \subseteq LegacyRows \union FreshRows /\ stored' \subseteq Contents
    BY <1>1, <1>2, <1>6 DEF BackfillTyped
  <2>5. QED
    BY <1>1, <1>2, <1>7, <1>b, <2>1, <2>3, <2>4 DEF BackfillTyped
<1>d. ASSUME NEW k \in SnapshotKeys PROVE HeadAnswer(k)' = answers'[k]
  <2>0. answers'[k] = IF k = key THEN content ELSE answers[k]
    BY <1>1, <1>2 DEF BackfillTyped
  <2>1. CASE k = key
    BY <1>6, <1>8, <1>a, <1>b, <2>0, <2>1 DEF HeadAnswer
  <2>2. CASE k # key
    <3>1. heads'[k] = heads[k] /\ HeadAnswer(k) = answers[k]
      BY <1>2, <1>b, <2>2 DEF AfterSwitch
    <3>2. heads[k] # NoRow => heads[k] \in Known
      BY <1>2 DEF BackfillTyped
    <3>3. HeadAnswer(k)' = HeadAnswer(k)
      BY <1>9, <3>1, <3>2 DEF HeadAnswer
    <3>4. QED
      BY <2>0, <2>2, <3>1, <3>3
  <2>3. QED
    BY <2>1, <2>2
<1>e. AfterSwitch'
  <2>1. progress.does = "nothing" /\ progress.at = NoRow
    BY <1>1 DEF AtRest
  <2>2. applied = 7 => PublishedRows' = {}
    <3>1. applied = 7 => \A q \in Known : ~rows[q].published
      BY <1>2 DEF AfterSwitch, PublishedRows
    <3>2. applied = 7 => \A q \in Known' : ~rows'[q].published
      BY <1>6, <1>8, <1>9, <3>1
    <3>3. QED
      BY <3>2 DEF PublishedRows
  <2>3. QED
    BY <1>1, <1>d, <2>1, <2>2 DEF AfterSwitch
<1>f. QED
  BY <1>1, <1>2, <1>c, <1>e DEF BackfillSafe

\* A step of a migration that leaves the rows, the columns and the heads alone.
LEMMA MoveSteps ==
  ASSUME BackfillSafe, NEW does \in {"contract", "restore"},
         progress = AtRest \/ progress.does = does,
         applied = IF does = "contract" THEN 6 ELSE 7,
         progress' = [does |-> does, at |-> NoRow],
         UNCHANGED <<rows, stored, heads, inline, applied, switched, answers>>,
         deaths' \in 0..MaxDeaths
  PROVE  BackfillSafe'
<1>1. BackfillTyped /\ AfterSwitch /\ applied \in 6..7
  BY Switched
<1>2. PublishedRows' = PublishedRows /\ Known' = Known /\ RowType' = RowType
  BY DEF PublishedRows, Known, RowType
<1>3. BackfillTyped'
  <2>1. progress' \in [does : {"nothing", "payloads", "heads", "retire", "publish", "contract", "restore"}, at : Nat]
    BY BackfillNumbers
  <2>2. QED
    BY <1>1, <1>2, <2>1 DEF BackfillTyped
<1>4. \A key \in SnapshotKeys : HeadAnswer(key)' = answers'[key]
  BY <1>1 DEF AfterSwitch, HeadAnswer
<1>5. \A r \in Known : ~(r <= NoRow)
  BY <1>1, RowFacts, BackfillNumbers
<1>6. /\ applied = 7 => PublishedRows = {}
      /\ applied = 6 /\ inline = Columns /\ ~switched =>
           /\ \A r \in Known : rows[r].published <=> IsHead(r)
           /\ \A r \in PublishedRows : rows[r].data = rows[r].payload
  BY <1>1 DEF AfterSwitch
<1>7. \A r \in Known : IsHead(r)' <=> IsHead(r)
  BY DEF IsHead
<1>8. AfterSwitch'
  BY <1>1, <1>2, <1>4, <1>5, <1>6, <1>7 DEF AfterSwitch
<1>9. QED
  BY <1>1, <1>3, <1>8 DEF BackfillSafe

LEMMA DieSteps == BackfillSafe /\ Die => BackfillSafe'
<1> SUFFICES ASSUME BackfillSafe, Die PROVE BackfillSafe'
  OBVIOUS
<1>1. /\ progress # AtRest /\ deaths < MaxDeaths /\ deaths' = deaths + 1
      /\ progress' = [does |-> IF applied = 5 THEN "payloads" ELSE progress.does, at |-> NoRow]
      /\ UNCHANGED <<rows, stored, heads, inline, applied, switched, answers>>
  BY DEF Die, Proceed
<1>2. BackfillTyped
  BY DEF BackfillSafe
<1>3. deaths' \in 0..MaxDeaths
  <2>1. deaths \in 0..MaxDeaths /\ MaxDeaths \in Nat
    BY <1>2, BackfillNumbers DEF BackfillTyped
  <2>2. QED
    BY <1>1, <2>1
<1>4. CASE applied = 5
  <2>1. BeforeSwitch /\ progress' = [does |-> "payloads", at |-> NoRow]
    BY <1>1, <1>4 DEF BackfillSafe
  <2>2. SameOrder /\ PublishedRows' = PublishedRows /\ Known' = Known /\ RowType' = RowType
    BY <1>1, RowsKept DEF SameOrder, RowType
  <2>3. \A key \in SnapshotKeys : Answered(key)'
    BY <1>1, <2>1, <2>2, AnswersKept DEF BeforeSwitch
  <2>4. inline = Columns
    <3>1. progress.does # "nothing"
      <4>1. progress = [does |-> progress.does, at |-> progress.at]
        BY <1>2 DEF BackfillTyped
      <4>2. QED
        BY <1>1, <2>1, <4>1 DEF AtRest, BeforeSwitch
    <3>2. QED
      BY <2>1, <3>1 DEF BeforeSwitch
  <2>5. BackfillTyped'
    <3>1. progress' \in [does : {"nothing", "payloads", "heads", "retire", "publish", "contract", "restore"}, at : Nat]
      BY <2>1, BackfillNumbers
    <3>2. QED
      BY <1>1, <1>2, <1>3, <2>2, <3>1 DEF BackfillTyped
  <2>6. BeforeSwitch'
    BY <1>1, <2>1, <2>2, <2>3, <2>4 DEF BeforeSwitch
  <2>7. QED
    BY <1>1, <1>4, <2>5, <2>6 DEF BackfillSafe
<1>5. CASE applied # 5
  <2>1. BackfillTyped /\ AfterSwitch /\ applied \in 6..7
    BY <1>5, Switched
  <2>2. progress.does \in {"contract", "restore"}
    <3>1. progress = [does |-> progress.does, at |-> progress.at]
      BY <1>2 DEF BackfillTyped
    <3>2. progress.does # "nothing"
      BY <1>1, <2>1, <3>1 DEF AtRest, AfterSwitch
    <3>3. QED
      BY <2>1, <3>2 DEF AfterSwitch
  <2>3. PICK does \in {"contract", "restore"} : does = progress.does
    BY <2>2
  <2>4. applied = IF does = "contract" THEN 6 ELSE 7
    BY <2>1, <2>3 DEF AfterSwitch
  <2>5. progress' = [does |-> does, at |-> NoRow]
    BY <1>1, <1>5, <2>3
  <2>6. QED
    BY <1>1, <1>3, <2>3, <2>4, <2>5, MoveSteps
<1>6. QED
  BY <1>4, <1>5

LEMMA BeginSteps == BackfillSafe /\ (BeginContract \/ BeginRestore) => BackfillSafe'
<1> SUFFICES ASSUME BackfillSafe, BeginContract \/ BeginRestore PROVE BackfillSafe'
  OBVIOUS
<1>1. deaths \in 0..MaxDeaths
  BY DEF BackfillSafe, BackfillTyped
<1>2. CASE BeginContract
  <2>1. /\ progress = AtRest /\ applied = 6 /\ progress' = [does |-> "contract", at |-> NoRow]
        /\ UNCHANGED <<rows, stored, heads, inline, applied, switched, answers>> /\ deaths' = deaths
    BY <1>2 DEF BeginContract, Proceed
  <2>2. QED
    BY <1>1, <2>1, MoveSteps
<1>3. CASE BeginRestore
  <2>1. /\ progress = AtRest /\ applied = 7 /\ progress' = [does |-> "restore", at |-> NoRow]
        /\ UNCHANGED <<rows, stored, heads, inline, applied, switched, answers>> /\ deaths' = deaths
    BY <1>3 DEF BeginRestore, Proceed
  <2>2. QED
    BY <1>1, <2>1, MoveSteps
<1>4. QED
  BY <1>2, <1>3

LEMMA AddColumnsSteps == BackfillSafe /\ AddColumns => BackfillSafe'
<1> SUFFICES ASSUME BackfillSafe, AddColumns PROVE BackfillSafe'
  OBVIOUS
<1>1. /\ progress.does = "restore" /\ inline' \subseteq Columns
      /\ UNCHANGED <<rows, stored, heads, progress, applied, switched, answers, deaths>>
  <2>1. BackfillTyped
    BY DEF BackfillSafe
  <2>2. QED
    BY <2>1 DEF AddColumns, Doing, BackfillTyped, Columns
<1>2. BackfillTyped /\ AfterSwitch /\ applied = 7
  <2>1. applied # 5
    BY <1>1 DEF BackfillSafe, BeforeSwitch
  <2>2. QED
    BY <1>1, <2>1, Switched DEF AfterSwitch
<1>3. PublishedRows' = PublishedRows /\ Known' = Known /\ RowType' = RowType
  BY <1>1 DEF PublishedRows, Known, RowType
<1>4. BackfillTyped'
  BY <1>1, <1>2, <1>3 DEF BackfillTyped
<1>5. \A key \in SnapshotKeys : HeadAnswer(key)' = answers'[key]
  BY <1>1, <1>2 DEF AfterSwitch, HeadAnswer
<1>6. AfterSwitch'
  BY <1>1, <1>2, <1>3, <1>5 DEF AfterSwitch
<1>7. QED
  BY <1>1, <1>2, <1>4, <1>6 DEF BackfillSafe

\* A step that changes the columns of the rows, and no key and no payload.
SamePayloads ==
  /\ Known' = Known
  /\ rows' \in [Known -> RowType]
  /\ \A r \in Known : rows'[r].key = rows[r].key /\ rows'[r].payload = rows[r].payload

LEMMA SamePayloadsSteps ==
  ASSUME BackfillTyped, SamePayloads, UNCHANGED <<stored, heads, answers, deaths>>,
         inline' \subseteq Columns, applied' \in 6..7, switched' \in BOOLEAN,
         NEW does \in {"nothing", "contract", "restore"}, NEW at \in Nat,
         progress' = [does |-> does, at |-> at],
         \A key \in SnapshotKeys : HeadAnswer(key) = answers[key]
  PROVE  /\ BackfillTyped'
         /\ \A key \in SnapshotKeys : HeadAnswer(key)' = answers'[key]
<1>1. progress' \in [does : {"nothing", "payloads", "heads", "retire", "publish", "contract", "restore"}, at : Nat]
  OBVIOUS
<1>2. RowType' = RowType
  BY DEF RowType
<1>3. \A key \in SnapshotKeys : heads[key] \in Known \union {NoRow}
  BY DEF BackfillTyped
<1>4. \A key \in SnapshotKeys : heads[key] # NoRow =>
        rows'[heads[key]].key = key /\ rows'[heads[key]].payload \in stored
  BY <1>3 DEF BackfillTyped, SamePayloads
<1>5. BackfillTyped'
  BY <1>1, <1>2, <1>4 DEF BackfillTyped, SamePayloads
<1>6. \A key \in SnapshotKeys : HeadAnswer(key)' = HeadAnswer(key)
  BY <1>3 DEF HeadAnswer, SamePayloads
<1>7. QED
  BY <1>5, <1>6

LEMMA ContractSteps == BackfillSafe /\ (DropData \/ DropPublished) => BackfillSafe'
<1> SUFFICES ASSUME BackfillSafe, DropData \/ DropPublished PROVE BackfillSafe'
  OBVIOUS
<1>1. progress.does = "contract" /\ UNCHANGED <<stored, heads, switched, answers, deaths>>
  BY DEF DropData, DropPublished, Doing
<1>2. BackfillTyped /\ AfterSwitch /\ applied = 6
  <2>1. applied # 5
    BY <1>1 DEF BackfillSafe, BeforeSwitch
  <2>2. QED
    BY <1>1, <2>1, Switched DEF AfterSwitch
<1>3. inline \subseteq Columns /\ switched \in BOOLEAN
      /\ \A key \in SnapshotKeys : HeadAnswer(key) = answers[key]
  BY <1>2 DEF BackfillTyped, AfterSwitch
<1>4. CASE DropData
  <2>1. /\ inline' = inline \ {"data"} /\ UNCHANGED <<progress, applied>>
        /\ rows' = [r \in Known |-> [rows[r] EXCEPT !.data = NoContent]]
    BY <1>4 DEF DropData
  <2>2. ASSUME NEW r \in Known
        PROVE  rows'[r] \in RowType /\ rows'[r].key = rows[r].key /\ rows'[r].payload = rows[r].payload
    <3>1. PICK row \in RowType : row = rows[r]
      BY <1>2, RowFacts
    <3>2. PICK new : new = [row EXCEPT !.data = NoContent]
      OBVIOUS
    <3>3. new \in RowType /\ new.key = row.key /\ new.payload = row.payload
      BY <3>1, <3>2 DEF RowType
    <3>4. rows'[r] = new
      BY <2>1, <3>1, <3>2
    <3>5. QED
      BY <3>1, <3>3, <3>4
  <2>3. SamePayloads
    BY <2>1, <2>2 DEF SamePayloads, Known
  <2>4. PICK at \in Nat : at = progress.at
    BY <1>2 DEF BackfillTyped
  <2>5. progress' = [does |-> "contract", at |-> at]
    BY <1>1, <1>2, <2>1, <2>4 DEF BackfillTyped
  <2>6. BackfillTyped' /\ \A key \in SnapshotKeys : HeadAnswer(key)' = answers'[key]
    <3>1. applied' \in 6..7 /\ inline' \subseteq Columns /\ switched' \in BOOLEAN
      BY <1>1, <1>2, <1>3, <2>1
    <3>2. QED
      BY <1>1, <1>2, <1>3, <2>3, <2>5, <3>1, SamePayloadsSteps
  <2>7. inline' # Columns
    BY <2>1 DEF Columns
  <2>8. AfterSwitch'
    BY <1>2, <2>1, <2>5, <2>6, <2>7 DEF AfterSwitch
  <2>9. QED
    BY <1>2, <2>1, <2>6, <2>8 DEF BackfillSafe
<1>5. CASE DropPublished
  <2>1. /\ inline' = {} /\ progress' = [does |-> "nothing", at |-> NoRow] /\ applied' = 7
        /\ rows' = [r \in Known |-> [rows[r] EXCEPT !.published = FALSE]]
    BY <1>5 DEF DropPublished, AtRest
  <2>2. ASSUME NEW r \in Known
        PROVE  /\ rows'[r] \in RowType /\ rows'[r].key = rows[r].key
               /\ rows'[r].payload = rows[r].payload /\ ~rows'[r].published
    <3>1. PICK row \in RowType : row = rows[r]
      BY <1>2, RowFacts
    <3>2. PICK new : new = [row EXCEPT !.published = FALSE]
      OBVIOUS
    <3>3. new \in RowType /\ new.key = row.key /\ new.payload = row.payload /\ ~new.published
      BY <3>1, <3>2 DEF RowType
    <3>4. rows'[r] = new
      BY <2>1, <3>1, <3>2
    <3>5. QED
      BY <3>1, <3>3, <3>4
  <2>3. SamePayloads
    BY <2>1, <2>2 DEF SamePayloads, Known
  <2>4. BackfillTyped' /\ \A key \in SnapshotKeys : HeadAnswer(key)' = answers'[key]
    <3>1. applied' \in 6..7 /\ inline' \subseteq Columns /\ switched' \in BOOLEAN /\ NoRow \in Nat
      BY <1>1, <1>3, <2>1, BackfillNumbers
    <3>2. QED
      BY <1>1, <1>2, <1>3, <2>1, <2>3, <3>1, SamePayloadsSteps
  <2>5. PublishedRows' = {}
    BY <2>2, <2>3 DEF PublishedRows, SamePayloads
  <2>6. AfterSwitch'
    BY <2>1, <2>4, <2>5 DEF AfterSwitch
  <2>7. QED
    BY <2>1, <2>4, <2>6 DEF BackfillSafe
<1>6. QED
  BY <1>4, <1>5

LEMMA RestoreRowSteps == BackfillSafe /\ RestoreRow => BackfillSafe'
<1> SUFFICES ASSUME BackfillSafe, RestoreRow PROVE BackfillSafe'
  OBVIOUS
<1>1. PICK r : r = Min(Unrestored)
  OBVIOUS
<1>2. /\ progress.does = "restore" /\ inline = Columns /\ Unrestored # {}
      /\ rows' = [rows EXCEPT ![r].data = rows[r].payload]
      /\ progress' = [progress EXCEPT !.at = r]
      /\ UNCHANGED <<stored, heads, inline, applied, switched, answers, deaths>>
  BY <1>1 DEF RestoreRow, Doing, Reach
<1>3. BackfillTyped /\ AfterSwitch /\ applied = 7
  <2>1. applied # 5
    BY <1>2 DEF BackfillSafe, BeforeSwitch
  <2>2. QED
    BY <1>2, <2>1, Switched DEF AfterSwitch
<1>4. /\ \A key \in SnapshotKeys : HeadAnswer(key) = answers[key]
      /\ PublishedRows = {} /\ switched \in BOOLEAN /\ progress.at \in Nat
      /\ \A q \in Known : rows[q].payload \in stored /\ q <= progress.at => rows[q].data = rows[q].payload
  BY <1>2, <1>3 DEF AfterSwitch, BackfillTyped
<1>5. r \in Unrestored /\ \A q \in Unrestored : r <= q
  <2>1. Unrestored \in SUBSET Nat
    BY <1>3, RowFacts DEF Unrestored
  <2>2. QED
    BY <1>1, <1>2, <2>1, LeastRow
<1>6. r \in Known /\ rows[r].payload \in stored /\ r > progress.at /\ r \in Nat
  BY <1>3, <1>5, RowFacts DEF Unrestored
<1>7. PICK row \in RowType : row = rows[r]
  BY <1>3, <1>6, RowFacts
<1>8. PICK new : new = [row EXCEPT !.data = row.payload]
  OBVIOUS
<1>9. /\ new \in RowType /\ new.key = row.key /\ new.payload = row.payload /\ new.data = row.payload
      /\ new.published <=> row.published
  <2>1. row.payload \in Contents
    BY <1>3, <1>6, <1>7 DEF BackfillTyped
  <2>2. QED
    BY <1>7, <1>8, <2>1 DEF RowType
<1>a. rows' = [rows EXCEPT ![r] = new]
  BY <1>2, <1>3, <1>6, <1>7, <1>8 DEF BackfillTyped
<1>b. /\ Known' = Known /\ rows'[r] = new /\ \A q \in Known \ {r} : rows'[q] = rows[q]
      /\ rows' \in [Known -> RowType]
  BY <1>3, <1>6, <1>9, <1>a DEF BackfillTyped, Known
<1>c. SamePayloads
  BY <1>7, <1>9, <1>b DEF SamePayloads
<1>d. progress' = [does |-> "restore", at |-> r]
  BY <1>2, <1>3 DEF BackfillTyped
<1>e. BackfillTyped' /\ \A key \in SnapshotKeys : HeadAnswer(key)' = answers'[key]
  <2>1. applied' \in 6..7 /\ inline' \subseteq Columns /\ switched' \in BOOLEAN
    BY <1>2, <1>3, <1>4
  <2>2. QED
    BY <1>2, <1>3, <1>4, <1>6, <1>c, <1>d, <2>1, SamePayloadsSteps
<1>f. PublishedRows' = {}
  <2>1. ASSUME NEW q \in Known PROVE ~rows'[q].published
    <3>1. ~rows[q].published
      BY <1>4 DEF PublishedRows
    <3>2. CASE q = r
      BY <1>7, <1>9, <1>b, <3>1, <3>2
    <3>3. CASE q # r
      BY <1>b, <3>1, <3>3
    <3>4. QED
      BY <3>2, <3>3
  <2>2. QED
    BY <1>b, <2>1 DEF PublishedRows
<1>g. ASSUME NEW q \in Known, rows'[q].payload \in stored, q <= r
      PROVE  rows'[q].data = rows'[q].payload
  <2>1. CASE q = r
    BY <1>9, <1>b, <2>1
  <2>2. CASE q # r
    <3>1. rows'[q] = rows[q] /\ q \in Nat
      BY <1>3, <1>b, <2>2, RowFacts
    <3>2. q \notin Unrestored
      BY <1>5, <1>6, <1>g, <2>2, <3>1
    <3>3. q <= progress.at
      BY <1>4, <1>g, <3>1, <3>2 DEF Unrestored
    <3>4. QED
      BY <1>4, <1>g, <3>1, <3>3
  <2>3. QED
    BY <2>1, <2>2
<1>h. AfterSwitch'
  BY <1>2, <1>3, <1>b, <1>d, <1>e, <1>f, <1>g DEF AfterSwitch
<1>i. QED
  BY <1>2, <1>3, <1>e, <1>h DEF BackfillSafe

LEMMA RestoreHeadsSteps == BackfillSafe /\ RestoreHeads => BackfillSafe'
<1> SUFFICES ASSUME BackfillSafe, RestoreHeads PROVE BackfillSafe'
  OBVIOUS
<1>1. /\ progress.does = "restore" /\ inline = Columns /\ Unrestored = {}
      /\ progress' = [does |-> "nothing", at |-> NoRow] /\ applied' = 6 /\ switched' = FALSE
      /\ UNCHANGED <<stored, heads, inline, answers, deaths>>
  BY DEF RestoreHeads, Doing, AtRest
<1>r. rows' = [r \in Known |-> [rows[r] EXCEPT !.published = @ \/ IsHead(r)]]
  BY DEF RestoreHeads
<1>2. BackfillTyped /\ AfterSwitch /\ applied = 7
  <2>1. applied # 5
    BY <1>1 DEF BackfillSafe, BeforeSwitch
  <2>2. QED
    BY <1>1, <2>1, Switched DEF AfterSwitch
<1>3. /\ \A key \in SnapshotKeys : HeadAnswer(key) = answers[key]
      /\ PublishedRows = {} /\ progress.at \in Nat
      /\ \A q \in Known : rows[q].payload \in stored /\ q <= progress.at => rows[q].data = rows[q].payload
  BY <1>1, <1>2 DEF AfterSwitch, BackfillTyped
<1>4. ASSUME NEW r \in Known
      PROVE  /\ rows'[r] \in RowType /\ rows'[r].key = rows[r].key
             /\ rows'[r].data = rows[r].data /\ rows'[r].payload = rows[r].payload
             /\ rows'[r].published <=> IsHead(r)
  <2>1. PICK row \in RowType : row = rows[r]
    BY <1>2, RowFacts
  <2>2. ~row.published
    BY <1>3, <2>1 DEF PublishedRows
  <2>3. PICK flag \in BOOLEAN : flag <=> IsHead(r)
    OBVIOUS
  <2>4. PICK new : new = [row EXCEPT !.published = row.published \/ IsHead(r)]
    OBVIOUS
  <2>5. rows'[r] = new
    BY <1>r, <2>1, <2>4
  <2>6. /\ new \in RowType /\ new.key = row.key /\ new.data = row.data /\ new.payload = row.payload
        /\ new.published <=> IsHead(r)
    BY <2>1, <2>2, <2>4 DEF RowType
  <2>7. QED
    BY <2>1, <2>5, <2>6
<1>5. SamePayloads
  BY <1>r, <1>4 DEF SamePayloads, Known
<1>6. BackfillTyped' /\ \A key \in SnapshotKeys : HeadAnswer(key)' = answers'[key]
  <2>1. applied' \in 6..7 /\ NoRow \in Nat
    BY <1>1, BackfillNumbers
  <2>2. inline' \subseteq Columns /\ switched' \in BOOLEAN
    BY <1>1
  <2>3. QED
    BY <1>1, <1>2, <1>3, <1>5, <2>1, <2>2, SamePayloadsSteps
<1>7. PublishedRows' = {r \in Known : IsHead(r)}
  BY <1>4, <1>5 DEF PublishedRows, SamePayloads
<1>8. ASSUME NEW r \in Known, IsHead(r) PROVE rows'[r].data = rows'[r].payload
  <2>1. r \in Nat \ {NoRow}
    BY <1>2, RowFacts
  <2>2. rows[r].payload \in stored
    BY <1>2, <1>8, <2>1 DEF IsHead, BackfillTyped
  <2>3. r <= progress.at
    BY <1>1, <1>3, <2>1, <2>2 DEF Unrestored
  <2>4. QED
    BY <1>3, <1>4, <2>2, <2>3
<1>9. \A r \in Known' : rows'[r].published <=> IsHead(r)'
  BY <1>1, <1>4, <1>5 DEF IsHead, SamePayloads
<1>a. AfterSwitch'
  BY <1>1, <1>6, <1>7, <1>8, <1>9 DEF AfterSwitch
<1>b. QED
  BY <1>1, <1>6, <1>a DEF BackfillSafe

LEMMA BackfillSteps == BackfillSafe /\ [BackfillNext]_backfillVars => BackfillSafe'
<1> SUFFICES ASSUME BackfillSafe, [BackfillNext]_backfillVars PROVE BackfillSafe'
  OBVIOUS
<1>1. CASE UNCHANGED backfillVars
  BY <1>1 DEF backfillVars, BackfillSafe, BackfillTyped, BeforeSwitch, AfterSwitch, Known, RowType,
              PublishedRows, Unread, Follows, Earlier, IsHead, HeadAnswer, Answered, Newest
<1>2. CASE BackfillNext
  BY <1>2, BeginBackfillSteps, StorePayloadSteps, LinkPayloadSteps, BackfillHeadSteps,
     RetireOthersSteps, PublishHeadsSteps, SwitchedPublishSteps, BeginSteps, ContractSteps,
     AddColumnsSteps, RestoreRowSteps, RestoreHeadsSteps, DieSteps DEF BackfillNext
<1>3. QED
  BY <1>1, <1>2

-----------------------------------------------------------------------------
\* Every variable keeps its type, and a head leads to a stored payload.
THEOREM BackfillTypes == BackfillSpec => []BackfillTypeOK
<1>1. BackfillSafe => BackfillTypeOK
  <2> SUFFICES ASSUME BackfillSafe PROVE BackfillTypeOK
    OBVIOUS
  <2>1. BackfillTyped
    BY DEF BackfillSafe
  <2>2. QED
    BY <2>1 DEF BackfillTyped, BackfillTypeOK, RowType
<1>2. QED
  BY <1>1, BackfillInitially, BackfillSteps, PTL DEF BackfillSpec

\* For any keys, rows, contents and deaths: the reader before 0006 and the one
\* after the switch are answered alike.
THEOREM ReadersStayUndisturbed == BackfillSpec => []ReadersUndisturbed
<1>1. BackfillSafe => ReadersUndisturbed
  <2> SUFFICES ASSUME BackfillSafe, NEW key \in SnapshotKeys
               PROVE  /\ applied >= 6 => HeadAnswer(key) = answers[key]
                      /\ inline = Columns /\ applied < 7 /\ ~switched => LegacyAnswer(key) = answers[key]
    BY DEF ReadersUndisturbed
  <2>1. BackfillTyped /\ applied \in 5..7
    BY DEF BackfillSafe, BackfillTyped
  <2>2. CASE applied = 5
    <3>1. Answered(key)
      BY <2>2 DEF BackfillSafe, BeforeSwitch
    <3>2. LegacyAnswer(key) = answers[key]
      BY <2>1, <3>1, LegacyChoice DEF Answered
    <3>3. QED
      BY <2>2, <3>2
  <2>3. CASE applied # 5
    <3>1. AfterSwitch
      BY <2>3, Switched
    <3>2. HeadAnswer(key) = answers[key]
      BY <3>1 DEF AfterSwitch
    <3>3. ASSUME inline = Columns, applied < 7, ~switched
          PROVE  LegacyAnswer(key) = answers[key]
      <4>1. applied = 6
        BY <2>1, <2>3, <3>3
      <4>2. /\ \A r \in Known : rows[r].published <=> IsHead(r)
            /\ \A r \in PublishedRows : rows[r].data = rows[r].payload
        BY <3>1, <3>3, <4>1 DEF AfterSwitch
      <4>3. \A r \in PublishedRows : r \in Known /\ r # NoRow /\ IsHead(r)
        BY <2>1, <4>2, RowFacts DEF PublishedRows
      <4>4. \A r \in PublishedRows : rows[r].key = key => heads[key] = r
        BY <2>1, <4>3 DEF IsHead, BackfillTyped
      <4>5. CASE heads[key] = NoRow
        <5>1. \A r \in PublishedRows : rows[r].key # key
          BY <4>3, <4>4, <4>5
        <5>2. QED
          BY <2>1, <3>2, <4>5, <5>1, LegacyChoice DEF HeadAnswer
      <4>6. CASE heads[key] # NoRow
        <5>1. PICK r : r = heads[key]
          OBVIOUS
        <5>2. r \in Known /\ rows[r].key = key
          BY <2>1, <4>6, <5>1 DEF BackfillTyped
        <5>3. r \in PublishedRows
          BY <4>2, <5>1, <5>2 DEF IsHead, PublishedRows
        <5>4. Newest(r, key)
          BY <4>4, <5>1, <5>2, <5>3 DEF Newest
        <5>5. LegacyAnswer(key) = rows[r].data
          BY <2>1, <5>3, <5>4, LegacyChoice
        <5>6. QED
          BY <3>2, <4>2, <4>6, <5>1, <5>3, <5>5 DEF HeadAnswer
      <4>7. QED
        BY <4>5, <4>6
    <3>4. QED
      BY <3>2, <3>3
  <2>4. QED
    BY <2>2, <2>3
<1>2. QED
  BY <1>1, BackfillInitially, BackfillSteps, PTL DEF BackfillSpec

-----------------------------------------------------------------------------
(***************************************************************************)
(* The components of MCRefreshAndSchema side by side.                      *)
(***************************************************************************)

LEMMA RefreshOrSchemaComponents ==
  RefreshOrSchemaSpec => Spec /\ MigrationSpec /\ BackfillSpec
<1>1. RefreshOrSchemaInit => Init /\ MigrationInit /\ BackfillInit
  BY DEF RefreshOrSchemaInit
<1>2. [RefreshStep \/ MigrationStep \/ BackfillStep]_<<vars, migrationVars, backfillVars, focus>>
        => [Next]_vars /\ [MigrationNext]_migrationVars /\ [BackfillNext]_backfillVars
  BY DEF RefreshStep, MigrationStep, BackfillStep
<1>3. QED
  BY <1>1, <1>2, PTL DEF RefreshOrSchemaSpec, Spec, MigrationSpec, BackfillSpec

\* Every variable of the refresh requests and of the migrations keeps its type,
\* for any constants.
THEOREM RefreshAndSchemaTypes == RefreshOrSchemaSpec => []RefreshAndSchemaTypeOK
<1>1. TypeOK /\ MigrationTypeOK /\ BackfillTypeOK => RefreshAndSchemaTypeOK
  BY DEF RefreshAndSchemaTypeOK
<1>2. QED
  BY <1>1, RefreshOrSchemaComponents, TypeCorrect, MigrationTypes, BackfillTypes, PTL

\* What the refresh requests, the migrations and the backfill promise alone, they
\* promise side by side: no mark is lost, nothing is dropped that was there
\* before, commands finish, and readers notice nothing.
THEOREM RefreshAndSchemaSafe ==
  RefreshOrSchemaSpec =>
    /\ [](CompletionIsFresh /\ CleanIsShown)
    /\ [](PreexistingKept /\ CommandsFinish /\ ReadersUndisturbed)
    /\ NeverOlder /\ FreshMarkNotDelayed
<1>1. Spec => [](CompletionIsFresh /\ CleanIsShown)
  BY CompletionsAreFresh, CleanFamiliesAreShown, PTL
<1>2. MigrationSpec /\ BackfillSpec => [](PreexistingKept /\ CommandsFinish /\ ReadersUndisturbed)
  BY PreexistingAlwaysKept, CommandsAlwaysFinish, ReadersStayUndisturbed, PTL
<1>3. QED
  BY <1>1, <1>2, RefreshOrSchemaComponents, ReadersNeverGoBack, FreshMarksNotDelayed, PTL

=============================================================================
