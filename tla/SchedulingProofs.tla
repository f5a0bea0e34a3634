--------------------------- MODULE SchedulingProofs ---------------------------
(***************************************************************************)
(* Proofs about the leadership of the schedulers and the rotations of the  *)
(* sources: types, for any number of processes, provinces, places of a     *)
(* province and batch sizes.                                               *)
(***************************************************************************)
EXTENDS MCScheduling, FiniteSetTheorems, TLAPS

-----------------------------------------------------------------------------
(* The leadership. *)

LEMMA LeaderTypedInitially == LeaderInit => LeaderTypeOK
  BY LeadershipAssumption DEF LeaderInit, LeaderTypeOK

\* Closing a connection.
LEMMA CloseTyped ==
  ASSUME LeaderTypeOK, NEW p \in Schedulers, CloseLink(p)
  PROVE  /\ link' \in [Schedulers -> {"none", "open", "broken"}]
         /\ held' \in [Schedulers -> BOOLEAN]
         /\ owner' \in Schedulers \union {Free}
  BY DEF LeaderTypeOK, CloseLink

LEMMA LeaderTypesKept == LeaderTypeOK /\ [LeaderNext]_leaderVars => LeaderTypeOK'
<1> SUFFICES ASSUME LeaderTypeOK, [LeaderNext]_leaderVars PROVE LeaderTypeOK'
  OBVIOUS
<1>0. MaxMishaps \in Nat /\ (mishaps < MaxMishaps => mishaps + 1 \in 0..MaxMishaps)
  BY LeadershipAssumption DEF LeaderTypeOK
<1>1. ASSUME NEW p \in Schedulers, TryLead(p) PROVE LeaderTypeOK'
  BY <1>1 DEF LeaderTypeOK, TryLead
<1>2. ASSUME NEW p \in Schedulers, StartJobs(p) PROVE LeaderTypeOK'
  BY <1>2 DEF LeaderTypeOK, StartJobs
<1>3. ASSUME NEW p \in Schedulers, BeginJob(p) \/ EndJob(p) PROVE LeaderTypeOK'
  BY <1>3 DEF LeaderTypeOK, BeginJob, EndJob
<1>4. ASSUME NEW p \in Schedulers, BeginSample(p) \/ EndSample(p) PROVE LeaderTypeOK'
  BY <1>4 DEF LeaderTypeOK, BeginSample, EndSample
<1>5. ASSUME NEW p \in Schedulers, Heartbeat(p) PROVE LeaderTypeOK'
  <2>1. UNCHANGED <<slot, busy, stop, mishaps>>
    BY <1>5 DEF Heartbeat
  <2>2. CASE UNCHANGED <<phase, link, held, owner>>
    BY <2>1, <2>2 DEF LeaderTypeOK
  <2>3. CASE CloseLink(p) /\ phase' = [phase EXCEPT ![p] = "stopped"]
    BY <2>1, <2>3, CloseTyped DEF LeaderTypeOK
  <2>4. QED
    BY <1>5, <2>2, <2>3 DEF Heartbeat
<1>6. ASSUME NEW p \in Schedulers, Shutdown(p) PROVE LeaderTypeOK'
  BY <1>6, CloseTyped DEF LeaderTypeOK, Shutdown
<1>7. ASSUME NEW p \in Schedulers, ExitProcess(p) PROVE LeaderTypeOK'
  BY <1>7 DEF LeaderTypeOK, ExitProcess
<1>8. ASSUME NEW p \in Schedulers, LoseLink(p) PROVE LeaderTypeOK'
  BY <1>0, <1>8 DEF LeaderTypeOK, LoseLink
<1>9. ASSUME NEW p \in Schedulers, DieScheduler(p) PROVE LeaderTypeOK'
  BY <1>0, <1>9 DEF LeaderTypeOK, DieScheduler
<1>10. ASSUME NEW p \in Schedulers, AskToStop(p) PROVE LeaderTypeOK'
  BY <1>0, <1>10 DEF LeaderTypeOK, AskToStop
<1>11. CASE ServerNotices
  BY <1>11 DEF LeaderTypeOK, ServerNotices
<1>12. CASE UNCHANGED leaderVars
  BY <1>12 DEF LeaderTypeOK, leaderVars
<1>13. QED
  BY <1>1, <1>2, <1>3, <1>4, <1>5, <1>6, <1>7, <1>8, <1>9, <1>10, <1>11, <1>12 DEF LeaderNext

-----------------------------------------------------------------------------
(* The rotations. *)

RotationTyped ==
  /\ RotationTypeOK
  /\ cursor \in [catalog : 0..(Provinces - 1), shops : Nat]

LEMMA RotationNumbers ==
  /\ Provinces \in Nat \ {0} /\ AreasPerRun \in Nat \ {0} /\ PlacesPerRun \in Nat \ {0}
  /\ Quota \in Nat \ {0} /\ MaxLosses \in Nat
  BY RotationAssumption

\* There are at most as many places as the quotas allow.
LEMMA QuotaBounds == Provinces <= Provinces * Quota /\ Provinces * Quota \in Nat
<1>1. PICK n \in Nat : Quota = n + 1
  <2>1. Quota - 1 \in Nat /\ Quota = (Quota - 1) + 1
    BY RotationNumbers
  <2>2. QED
    BY <2>1
<1>2. Provinces * Quota = Provinces * n + Provinces /\ Provinces * n \in Nat
  BY <1>1, RotationNumbers
<1>3. QED
  BY <1>2, RotationNumbers

LEMMA MaxOfPair ==
  ASSUME NEW a \in Int, NEW b \in Int
  PROVE  Max({a, b}) = IF b <= a THEN a ELSE b
<1> DEFINE m == IF b <= a THEN a ELSE b
<1>1. m \in {a, b} /\ \A y \in {a, b} : m >= y
  OBVIOUS
<1>2. \A x \in {a, b} : (\A y \in {a, b} : x >= y) => x = m
  OBVIOUS
<1> HIDE DEF m
<1>3. Max({a, b}) = m
  BY <1>1, <1>2 DEF Max
<1>4. QED
  BY <1>3 DEF m

\* A set of provinces has at most all of them.
LEMMA SomeProvinces ==
  ASSUME NEW S \in SUBSET (1..Provinces)
  PROVE  Cardinality(S) \in 0..Provinces
<1>1. IsFiniteSet(1..Provinces) /\ Cardinality(1..Provinces) = Provinces
  BY FS_Interval, RotationNumbers
<1>2. IsFiniteSet(S) /\ Cardinality(S) <= Cardinality(1..Provinces)
  BY <1>1, FS_Subset
<1>3. Cardinality(S) \in Nat
  BY <1>2, FS_CardinalityType
<1>4. QED
  BY <1>1, <1>2, <1>3, RotationNumbers

LEMMA RotationTypedInitially == RotationInit => RotationTyped
  BY RotationNumbers, QuotaBounds DEF RotationInit, RotationTyped, RotationTypeOK

\* A cursor is saved, or the run is lost.
LEMMA SaveTyped ==
  ASSUME RotationTyped, NEW key \in {"catalog", "shops"}, NEW next, SaveCursor(key, next),
         key = "catalog" => next \in 0..(Provinces - 1),
         key = "shops" => next \in Nat
  PROVE  /\ cursor' \in [catalog : 0..(Provinces - 1), shops : Nat]
         /\ losses' \in 0..MaxLosses
<1>1. losses' = losses \/ (losses < MaxLosses /\ losses' = losses + 1)
  BY DEF SaveCursor
<1>2. losses' \in 0..MaxLosses
  BY <1>1, RotationNumbers DEF RotationTyped, RotationTypeOK
<1>3. CASE cursor' = cursor
  BY <1>2, <1>3 DEF RotationTyped
<1>4. CASE cursor' = [cursor EXCEPT ![key] = next]
  BY <1>2, <1>4 DEF RotationTyped
<1>5. QED
  BY <1>3, <1>4 DEF SaveCursor

LEMMA CatalogRunTyped == RotationTyped /\ CatalogRun => RotationTyped'
<1> SUFFICES ASSUME RotationTyped, CatalogRun PROVE RotationTyped'
  OBVIOUS
<1>1. PICK batch : batch = CatalogBatch
  OBVIOUS
<1>2. PICK grown \in SUBSET {p \in batch : selected[p] < Quota} :
        /\ selected' = [p \in 1..Provinces |->
             IF p \in grown THEN selected[p] + 1 ELSE selected[p]]
        /\ missing' = Cardinality(grown)
  BY <1>1 DEF CatalogRun
<1>3. SaveCursor("catalog", (cursor.catalog + Cardinality(batch)) % Provinces)
  BY <1>1 DEF CatalogRun
<1>4. batch \in SUBSET (1..Provinces)
  BY <1>1 DEF CatalogBatch
<1>5. missing' \in 0..(Provinces * Quota)
  <2>1. Cardinality(grown) \in 0..Provinces
    BY <1>2, <1>4, SomeProvinces
  <2>2. \A n, m \in Nat : n <= m => \A c \in 0..n : c \in 0..m
    OBVIOUS
  <2>3. QED
    BY <1>2, <2>1, <2>2, QuotaBounds, RotationNumbers
<1>6. selected' \in [1..Provinces -> 0..Quota]
  <2>1. ASSUME NEW p \in 1..Provinces PROVE selected'[p] \in 0..Quota
    <3>1. selected[p] \in 0..Quota
      BY DEF RotationTyped, RotationTypeOK
    <3>2. p \in grown => selected[p] < Quota
      BY <1>2
    <3>3. QED
      BY <1>2, <3>1, <3>2, RotationNumbers
  <2>2. QED
    BY <1>2, <2>1
<1>7. (cursor.catalog + Cardinality(batch)) % Provinces \in 0..(Provinces - 1)
  <2>1. cursor.catalog + Cardinality(batch) \in Nat
    BY <1>4, SomeProvinces DEF RotationTyped
  <2>2. QED
    BY <2>1, RotationNumbers
<1>8. /\ cursor' \in [catalog : 0..(Provinces - 1), shops : Nat]
      /\ losses' \in 0..MaxLosses
  BY <1>3, <1>7, SaveTyped
<1>9. QED
  BY <1>5, <1>6, <1>8 DEF RotationTyped, RotationTypeOK

\* The batches of the shops.
LEMMA SomePlaces ==
  ASSUME RotationTyped
  PROVE  IsFiniteSet(Places) /\ ShopBatches \in Nat \ {0}
<1>1. ASSUME NEW p \in 1..Provinces PROVE IsFiniteSet({p} \X (1..selected[p]))
  <2>1. IsFiniteSet({p})
    BY FS_Singleton
  <2>2. selected[p] \in Nat
    BY RotationNumbers DEF RotationTyped, RotationTypeOK
  <2>3. IsFiniteSet(1..selected[p])
    BY <2>2, FS_Interval
  <2>4. QED
    BY <2>1, <2>3, FS_Product
<1>2. PICK parts : parts = {{p} \X (1..selected[p]) : p \in 1..Provinces}
  OBVIOUS
<1>3. IsFiniteSet(parts)
  <2>1. IsFiniteSet(1..Provinces)
    BY FS_Interval, RotationNumbers
  <2>2. PICK f : f = [p \in 1..Provinces |-> {p} \X (1..selected[p])]
    OBVIOUS
  <2>3. f \in Surjection(1..Provinces, parts)
    BY <1>2, <2>2 DEF Surjection
  <2>4. QED
    BY <2>1, <2>3, FS_Surjection
<1>4. IsFiniteSet(Places)
  <2>1. \A S \in parts : IsFiniteSet(S)
    BY <1>1, <1>2
  <2>2. Places = UNION parts
    BY <1>2 DEF Places
  <2>3. QED
    BY <1>3, <2>1, <2>2, FS_UNION
<1>5. PICK n \in Nat : n = Cardinality(Places)
  BY <1>4, FS_CardinalityType
<1>6. (n + PlacesPerRun - 1) \div PlacesPerRun \in Nat
  BY RotationNumbers
<1>7. Max({1, (n + PlacesPerRun - 1) \div PlacesPerRun}) \in Nat \ {0}
  BY <1>6, MaxOfPair
<1>8. QED
  BY <1>4, <1>5, <1>7 DEF ShopBatches

LEMMA RotationTypesKept == RotationTyped /\ [RotationNext]_rotationVars => RotationTyped'
<1> SUFFICES ASSUME RotationTyped, [RotationNext]_rotationVars PROVE RotationTyped'
  OBVIOUS
<1>1. CASE DetailRun
  <2>1. missing' \in 0..missing /\ SaveCursor("catalog", cursor.catalog) /\ UNCHANGED selected
    BY <1>1 DEF DetailRun
  <2>2. cursor.catalog \in 0..(Provinces - 1) /\ missing \in 0..(Provinces * Quota)
    BY DEF RotationTyped, RotationTypeOK
  <2>3. missing' \in 0..(Provinces * Quota)
    <3>1. \A n \in Nat : \A m \in 0..n : \A c \in 0..m : c \in 0..n
      OBVIOUS
    <3>2. QED
      BY <2>1, <2>2, <3>1, QuotaBounds
  <2>4. QED
    BY <2>1, <2>2, <2>3, SaveTyped DEF RotationTyped, RotationTypeOK
<1>2. CASE ShopRun
  <2>1. PICK index : /\ index = cursor.shops % ShopBatches
                     /\ SaveCursor("shops", (index + 1) % ShopBatches)
    BY <1>2 DEF ShopRun
  <2>2. UNCHANGED <<selected, missing>>
    BY <1>2 DEF ShopRun
  <2>3. PICK n \in Nat \ {0} : n = ShopBatches
    BY SomePlaces
  <2>4. index \in Nat
    BY <2>1, <2>3 DEF RotationTyped
  <2>5. (index + 1) % n \in Nat
    BY <2>3, <2>4
  <2>6. QED
    BY <2>1, <2>2, <2>3, <2>5, SaveTyped DEF RotationTyped, RotationTypeOK
<1>3. CASE Reseed
  BY <1>3 DEF Reseed, RotationTyped, RotationTypeOK
<1>4. ASSUME NEW p \in 1..Provinces, Deselect(p) PROVE RotationTyped'
  <2>1. /\ selected[p] > 0 /\ losses < MaxLosses
        /\ selected' = [selected EXCEPT ![p] = selected[p] - 1]
        /\ missing' \in {missing, Max({0, missing - 1})}
        /\ losses' = losses + 1 /\ UNCHANGED cursor
    BY <1>4 DEF Deselect, RotationTyped, RotationTypeOK
  <2>2. selected' \in [1..Provinces -> 0..Quota] /\ losses' \in 0..MaxLosses
    BY <2>1, RotationNumbers DEF RotationTyped, RotationTypeOK
  <2>3. missing' \in 0..(Provinces * Quota)
    <3>1. missing \in 0..(Provinces * Quota)
      BY DEF RotationTyped, RotationTypeOK
    <3>2. PICK n \in Nat : n = Provinces * Quota
      BY QuotaBounds
    <3>3. Max({0, missing - 1}) = IF missing - 1 <= 0 THEN 0 ELSE missing - 1
      BY <3>1, <3>2, MaxOfPair
    <3>4. QED
      BY <2>1, <3>1, <3>2, <3>3
  <2>4. QED
    BY <2>1, <2>2, <2>3 DEF RotationTyped, RotationTypeOK
<1>5. CASE UNCHANGED rotationVars
  BY <1>5 DEF rotationVars, RotationTyped, RotationTypeOK
<1>6. QED
  BY <1>1, <1>2, <1>3, <1>4, <1>5, CatalogRunTyped DEF RotationNext

-----------------------------------------------------------------------------
\* Every variable of the leadership and of the rotations keeps its type: the
\* catalog's cursor always names a province, and no province has more places
\* than its quota, however often provinces are reordered and cursors are lost.
THEOREM SchedulingTypes == SchedulingSpec => []SchedulingTypeOK
<1> DEFINE Next1 == LeaderStep \/ RotationStep \/ RefreshStep
           vars1 == <<leaderVars, rotationVars, vars, focus>>
<1>1. SchedulingInit => LeaderTypeOK /\ RotationTyped
  BY LeaderTypedInitially, RotationTypedInitially DEF SchedulingInit
<1>2. [Next1]_vars1 => [LeaderNext]_leaderVars /\ [RotationNext]_rotationVars
  BY DEF LeaderStep, RotationStep, RefreshStep
<1>3. LeaderTypeOK /\ RotationTyped /\ [Next1]_vars1 => (LeaderTypeOK /\ RotationTyped)'
  BY <1>2, LeaderTypesKept, RotationTypesKept
<1>4. LeaderTypeOK /\ RotationTyped => SchedulingTypeOK
  BY DEF SchedulingTypeOK, RotationTyped
<1>5. SchedulingSpec => SchedulingInit /\ [][Next1]_vars1
  BY DEF SchedulingSpec
<1> HIDE DEF Next1, vars1
<1>6. QED
  BY <1>1, <1>3, <1>4, <1>5, PTL
=============================================================================
