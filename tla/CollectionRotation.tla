------------------------- MODULE CollectionRotation -------------------------
(***************************************************************************)
(* What a run of a rotating source asks for (scheduler/runtime.py,         *)
(* _runtime_scope): the Korean catalog asks for a few provinces, those     *)
(* with the fewest selected places first, or for the overviews that are    *)
(* missing; the shops are asked for around a batch of the selected places. *)
(* Both keep a cursor in the evidence of the source's registry row, which  *)
(* is a position in a list that changes between the runs.                  *)
(***************************************************************************)
EXTENDS Integers, FiniteSets, FiniteSetsExt

CONSTANTS
  Provinces,     \* the provinces are 1..Provinces, in the order of their codes
  AreasPerRun,   \* TOUR_KO_AREAS_PER_RUN
  PlacesPerRun,  \* SEMAS_PLACES_PER_RUN
  Quota,         \* selected places of a province: at most
  MaxLosses      \* bound: places deselected, and crashes before a cursor is saved

ASSUME RotationAssumption ==
  {Provinces, AreasPerRun, PlacesPerRun, Quota} \subseteq Nat \ {0} /\ MaxLosses \in Nat

VARIABLES
  selected,   \* selected[p]: places of province p in essential_place_ids
  missing,    \* how many of them have no overview yet
  cursor,     \* collection_cursor of the catalog and of the shops
  asked,      \* what the last run asked for: [provinces, places]
  losses

rotationVars == <<selected, missing, cursor, asked, losses>>

Nothing == [provinces |-> {}, places |-> {}]

Places == UNION {{p} \X (1..selected[p]) : p \in 1..Provinces}

RotationInit ==
  /\ selected = [p \in 1..Provinces |-> 0]
  /\ missing = 0
  /\ cursor = [catalog |-> 0, shops |-> 0]
  /\ asked = Nothing
  /\ losses = 0

-----------------------------------------------------------------------------
\* Where a province stands when they are sorted by selected places and code.
Standing(p) ==
  Cardinality({q \in 1..Provinces :
    selected[q] < selected[p] \/ (selected[q] = selected[p] /\ q < p)})

\* rotating_batch
CatalogBatch ==
  {p \in 1..Provinces : \E k \in 0..(Min({AreasPerRun, Provinces}) - 1) :
     Standing(p) = (cursor.catalog + k) % Provinces}

\* The cursor is saved after the fetch, however it went; a crash may prevent it.
SaveCursor(key, next) ==
  \/ cursor' = [cursor EXCEPT ![key] = next] /\ UNCHANGED losses
  \/ losses < MaxLosses /\ losses' = losses + 1 /\ UNCHANGED cursor

\* mutant of CatalogRun: places are added without regard to the quota
CatalogRunUnlimited ==
  /\ missing = 0
  /\ asked' = [Nothing EXCEPT !.provinces = CatalogBatch]
  /\ \E grown \in SUBSET CatalogBatch :
       /\ selected' = [p \in 1..Provinces |->
            IF p \in grown THEN selected[p] + 1 ELSE selected[p]]
       /\ missing' = Cardinality(grown)
  /\ SaveCursor("catalog", (cursor.catalog + Cardinality(CatalogBatch)) % Provinces)

\* A run of the catalog: whatever was fetched may add a place to its province,
\* whose overview is then missing.
CatalogRun ==
  /\ missing = 0
  /\ asked' = [Nothing EXCEPT !.provinces = CatalogBatch]
  /\ \E grown \in SUBSET {p \in CatalogBatch : selected[p] < Quota} :
       /\ selected' = [p \in 1..Provinces |->
            IF p \in grown THEN selected[p] + 1 ELSE selected[p]]
       /\ missing' = Cardinality(grown)
  /\ SaveCursor("catalog", (cursor.catalog + Cardinality(CatalogBatch)) % Provinces)

\* As long as an overview is missing the run asks for overviews only, and the
\* catalog's cursor stays; some, none or all of them arrive.
DetailRun ==
  /\ missing > 0
  /\ missing' \in 0..missing
  /\ asked' = Nothing
  /\ SaveCursor("catalog", cursor.catalog)
  /\ UNCHANGED selected

\* The rank of a place among the candidates of the shops.
Rank(x) == Cardinality({y \in Places : y[1] < x[1] \/ (y[1] = x[1] /\ y[2] < x[2])})
ShopBatches == Max({1, (Cardinality(Places) + PlacesPerRun - 1) \div PlacesPerRun})

\* Without candidates the source waits for places.
ShopRun ==
  LET index == cursor.shops % ShopBatches IN
  /\ Places # {}
  /\ asked' = [Nothing EXCEPT !.places =
       {x \in Places : Rank(x) \div PlacesPerRun = index}]
  /\ SaveCursor("shops", (index + 1) % ShopBatches)
  /\ UNCHANGED <<selected, missing>>

-----------------------------------------------------------------------------
\* A place is merged, moves or closes.
Deselect(p) ==
  /\ losses < MaxLosses /\ selected[p] > 0
  /\ selected' = [selected EXCEPT ![p] = @ - 1]
  /\ missing' \in {missing, Max({0, missing - 1})}
  /\ losses' = losses + 1
  /\ asked' = Nothing
  /\ UNCHANGED cursor

\* mutant of Reseed: the evidence is written anew without the cursor
ReseedAfresh ==
  /\ cursor' = [catalog |-> 0, shops |-> 0]
  /\ asked' = Nothing
  /\ UNCHANGED <<selected, missing, losses>>

\* A deployment seeds the reference data again: preserve_collection_cursor.
Reseed ==
  /\ asked' = Nothing
  /\ UNCHANGED <<selected, missing, cursor, losses>>

RotationNext ==
  \/ CatalogRun \/ DetailRun \/ ShopRun \/ Reseed
  \/ \E p \in 1..Provinces : Deselect(p)

\* Both sources keep their jobs.
RotationFairness ==
  WF_rotationVars(CatalogRun \/ DetailRun) /\ SF_rotationVars(ShopRun)

RotationSpec == RotationInit /\ [][RotationNext]_rotationVars /\ RotationFairness

-----------------------------------------------------------------------------
RotationTypeOK ==
  /\ selected \in [1..Provinces -> 0..Quota]
  /\ missing \in 0..(Provinces * Quota)
  /\ cursor.catalog \in 0..(Provinces - 1) /\ cursor.shops \in Nat
  /\ losses \in 0..MaxLosses

\* The positional cursors starve nobody, although each run reorders the list
\* they point into, deployments seed again and cursors get lost: unless some
\* overview stays missing for ever, every province is asked for again and
\* again, and so is every place that stays selected.
NobodyStarves ==
  /\ []<>(missing = 0) => \A p \in 1..Provinces : []<>(p \in asked.provinces)
  /\ \A x \in (1..Provinces) \X (1..Quota) : []<>(x \in asked.places \/ x \notin Places)

=============================================================================
