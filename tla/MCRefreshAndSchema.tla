------------------------- MODULE MCRefreshAndSchema -------------------------
(* One instance for TLC of three components that share no state: the        *)
(* refresh requests, and the revisions of the schema that own what they     *)
(* create and that move the snapshots.  A behaviour follows the one that    *)
(* "focus" names.  MCScheduling holds the refresh requests for liveness.    *)
EXTENDS ProductRefresh, OwnedMigrations, SnapshotBackfill, TLC

CONSTANTS f1, s1, i1, i2, w1, w2, c1

VARIABLE focus

\* One family and one source.
OneFamilyOf == s1 :> {f1}

PartSymmetry == Permutations({i1, i2})

\* The components out of focus start from one state.
RefreshOrSchemaInit ==
  /\ focus \in {"refresh", "schema", "snapshots"}
  /\ focus = "schema" \/ before = {}
  /\ focus = "snapshots" \/ inline = {}
  /\ Init /\ MigrationInit /\ BackfillInit

RefreshStep ==
  focus = "refresh" /\ Next /\ UNCHANGED <<migrationVars, backfillVars, focus>>
MigrationStep ==
  focus = "schema" /\ MigrationNext /\ UNCHANGED <<vars, backfillVars, focus>>
BackfillStep ==
  focus = "snapshots" /\ BackfillNext /\ UNCHANGED <<vars, migrationVars, focus>>

RefreshOrSchemaSpec ==
  /\ RefreshOrSchemaInit
  /\ [][RefreshStep \/ MigrationStep \/ BackfillStep]_<<vars, migrationVars, backfillVars, focus>>

\* Every variable of the three components keeps its type.
RefreshAndSchemaTypeOK == TypeOK /\ MigrationTypeOK /\ BackfillTypeOK
=============================================================================
