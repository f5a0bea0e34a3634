---------------------------- MODULE MCScheduling ----------------------------
(* One instance for TLC of three components of the scheduler whose state is *)
(* kept apart here: who leads, what the rotating sources ask for, and the   *)
(* refresh requests that product jobs work off.  A behaviour follows the    *)
(* one that "focus" names, and the others stand still.                      *)
EXTENDS SchedulerLeadership, CollectionRotation, ProductRefresh, TLC

CONSTANTS f1, f2, s1, s2, i1, i2, w1, c1

\* One source for both families, as SRC_YOUTUBE for trends and inbound, and
\* one for the first family only.
SharedFamiliesOf == (s1 :> {f1, f2}) @@ (s2 :> {f1})

VARIABLE focus

SchedulingInit ==
  LeaderInit /\ RotationInit /\ Init /\ focus \in {"leader", "rotation", "refresh"}

LeaderStep ==
  focus = "leader" /\ LeaderNext /\ UNCHANGED <<rotationVars, vars, focus>>
RotationStep ==
  focus = "rotation" /\ RotationNext /\ UNCHANGED <<leaderVars, vars, focus>>
RefreshStep ==
  focus = "refresh" /\ Next /\ UNCHANGED <<leaderVars, rotationVars, focus>>

SchedulingSpec ==
  /\ SchedulingInit
  /\ [][LeaderStep \/ RotationStep \/ RefreshStep]_<<leaderVars, rotationVars, vars, focus>>
  /\ \/ focus = "leader" /\ LeaderFairness
     \/ focus = "rotation" /\ RotationFairness
     \/ focus = "refresh" /\ Fairness

\* Every variable of the leadership and of the rotations keeps its type.
SchedulingTypeOK == LeaderTypeOK /\ RotationTypeOK

\* A leader comes back whatever dies (LeadershipRecovers, where it moves at all).
LeaderComesBack == focus = "leader" => LeadershipRecovers

\* The rotations starve nobody (NobodyStarves, where they move at all).
AllAreAsked == focus = "rotation" => NobodyStarves
=============================================================================
