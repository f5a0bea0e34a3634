--------------------------- MODULE MCSnapshotStore ---------------------------
(* Instances of SnapshotStore for TLC.                                     *)
EXTENDS SnapshotStore, TLC

CONSTANTS k1, k2, d1, d2, r1, p1, p2

\* Three versions of one key and one of a second key that shares a payload with
\* it.  With RetiredKept = 1 these are the fewest versions with one that
\* retention may delete, while retention of one key races publication of the
\* other.
SharedVersions  == 1..4
SharedKeyOf     == [v \in 1..4 |-> IF v = 4 THEN k2 ELSE k1]
SharedPayloadOf == [v \in 1..4 |-> IF v \in {1, 4} THEN d1 ELSE d2]
SharedEvidence  == [v \in 1..4 |-> IF v = 1 THEN {r1} ELSE {}]

\* All four versions belong to one key; version 2 has provenance to lose.
OneKeyOf    == [v \in 1..4 |-> k1]
OneEvidence == [v \in 1..4 |-> IF v = 2 THEN {r1} ELSE {}]
=============================================================================
