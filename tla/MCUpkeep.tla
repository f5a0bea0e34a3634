------------------------------ MODULE MCUpkeep ------------------------------
(* One instance for TLC of nine components that share no state: each         *)
(* behaviour follows the one that "focus" names, and the others stand still. *)
EXTENDS ObservationRetention, AlertRevisions, CapacityGate, SourceFetch,
        FestivalSchedule, PlaceCatalog, ObservationRows, ReadCache,
        ReferenceCoverage, TLC

CONSTANTS v1, v2

VARIABLE focus

\* both records come from one run and are normalized into one row
MCRunOf == (v1 :> "g1") @@ (v2 :> "g1")
MCFactOf == (v1 :> "f1") @@ (v2 :> "f1")

\* a province, a district of it, and one name both events' addresses may hold
MCParentOf == ("P" :> "nowhere") @@ ("x" :> "P")
MCAddressOf ==
  ("e1" :> [road |-> {"P", "x"}, lot |-> {}, venue |-> {}]) @@
  ("e2" :> [road |-> {}, lot |-> {}, venue |-> {"x"}])

\* a row's data is the title; every pair of places is near
MCNameOf == ("a" :> "a") @@ ("b" :> "b")
MCNear == {"a", "b"} \X {"a", "b"}

\* two runs whose source times are equal, and a newer one that was fetched
\* between them
MCSourceTime == <<2, 3, 2>>

\* payloads that fit together, evict another one, are too large or damaged
MCSizeOf == ("small" :> 2) @@ ("middle" :> 3) @@ ("huge" :> 6) @@ ("bad" :> 1)

\* A job has crashed, or snapshots are published.
RetentionBound == crashes' = 0 \/ snapshots' = {}

\* A festival is listed, or a single-valued row is written: they share no row.
ForecastBound ==
  \/ listed' = [a \in Areas |-> [d \in 1..Days |-> NoRow]]
  \/ \A d \in 1..Days : latestValue'[d] = Never

\* Bounds of the catalog, so that one thing varies at a time: languages and
\* details; or the times of records; or the number of TourAPI places that TATS
\* rows may name.  With the last, both TATS sources bring rows only where there
\* are no details and a session remembers what the source maps say.
OneContent == Cardinality(UNION {known'[l] : l \in Langs}) <= 1
OneTime == \A p \in Places : place'[p].seen <= 1
OneSource == \A c \in Codes : remembered'[Related][c] = Nothing /\ maps'[Related][c] = Nothing
NoDetail == \A p \in Places : text'[p][Korean].told = 0
NoMemory == \A s \in Sources, c \in Codes : remembered'[s][c] \in {Nothing, maps'[s][c]}
CatalogBound ==
  \/ OneContent /\ order' = <<>>
  \/ /\ known'["en"] = {}
     /\ \/ OneContent /\ OneSource
        \/ OneTime /\ (OneSource \/ (NoDetail /\ NoMemory))

\* The views of one area do not depend on what was built for another.
OneArea == \A a, b \in ForecastAreas :
  product'[a] # product[a] /\ a # b => product'[b] = NoProduct

\* The inputs of the components out of focus are fixed.
Quiet ==
  /\ focus # "fetch" =>
       /\ server = [o \in 1..Ops |-> [pages |-> 1, declares |-> TRUE]]
       /\ ~plan.rotate /\ ~plan.windowed /\ plan.slot = 0
  /\ focus # "observation" => discipline = "plain"

UpkeepInit ==
  /\ RetentionInit /\ AlertInit /\ CapacityInit /\ FetchInit
  /\ ForecastInit /\ CatalogInit /\ ObservationInit /\ CacheInit /\ CoverageInit
  /\ focus \in {"retention", "alert", "capacity", "fetch", "forecast",
                "catalog", "observation", "cache", "coverage"}
  /\ Quiet

retains == <<lettersVars, retentionVars>>
first == <<retains, alertVars, capacityVars, fetchVars>>
second == <<forecastVars, catalogVars, observationVars, cacheVars, coverageVars>>

RetentionStep ==
  /\ focus = "retention" /\ RetentionNext /\ RetentionBound
  /\ UNCHANGED <<alertVars, capacityVars, fetchVars, second, focus>>
AlertStep ==
  /\ focus = "alert" /\ AlertNext
  /\ UNCHANGED <<retains, capacityVars, fetchVars, second, focus>>
CapacityStep ==
  /\ focus = "capacity" /\ CapacityNext
  /\ UNCHANGED <<retains, alertVars, fetchVars, second, focus>>
FetchStep ==
  /\ focus = "fetch" /\ FetchNext
  /\ UNCHANGED <<retains, alertVars, capacityVars, second, focus>>
ForecastStep ==
  /\ focus = "forecast" /\ ForecastNext /\ ForecastBound
  /\ UNCHANGED <<first, catalogVars, observationVars, cacheVars, coverageVars, focus>>
CatalogStep ==
  /\ focus = "catalog" /\ CatalogNext /\ CatalogBound
  /\ UNCHANGED <<first, forecastVars, observationVars, cacheVars, coverageVars, focus>>
ObservationStep ==
  /\ focus = "observation" /\ ObservationNext
  /\ UNCHANGED <<first, forecastVars, catalogVars, cacheVars, coverageVars, focus>>
CacheStep ==
  /\ focus = "cache" /\ CacheNext
  /\ UNCHANGED <<first, forecastVars, catalogVars, observationVars, coverageVars, focus>>
CoverageStep ==
  /\ focus = "coverage" /\ CoverageNext /\ OneArea
  /\ UNCHANGED <<first, forecastVars, catalogVars, observationVars, cacheVars, focus>>

UpkeepNext ==
  \/ RetentionStep \/ AlertStep \/ CapacityStep \/ FetchStep
  \/ ForecastStep \/ CatalogStep \/ ObservationStep \/ CacheStep \/ CoverageStep

UpkeepSpec == UpkeepInit /\ [][UpkeepNext]_<<first, second, focus>>

\* Every variable of the component that moves keeps its type.
UpkeepTypeOK ==
  CASE focus = "retention" -> RetentionTypeOK
    [] focus = "alert" -> AlertTypeOK
    [] focus = "capacity" -> CapacityTypeOK
    [] focus = "fetch" -> FetchTypeOK
    [] focus = "forecast" -> ForecastTypeOK
    [] focus = "catalog" -> CatalogTypeOK
    [] focus = "observation" -> ObservationTypeOK
    [] focus = "cache" -> CacheTypeOK
    [] focus = "coverage" -> CoverageTypeOK

\* Two names serve as records of one run, as enrichment batches, as readers and
\* as TourAPI places: a behaviour follows one component, so one exchange serves
\* all four.
Symmetry == Permutations({v1, v2})
=============================================================================
