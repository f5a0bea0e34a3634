------------------------ MODULE ProductRefreshProofs ------------------------
(***************************************************************************)
(* Proofs about ProductRefresh for every set of families, sources, parts   *)
(* and processes, and any number of facts and failures.                    *)
(***************************************************************************)
EXTENDS ProductRefresh, TLAPS

USE RefreshAssumption

LEMMA NoFactsType == NoFacts \in Facts
  BY DEF NoFacts, Facts

Sound(j) ==
  /\ j \in WorkRecord
  /\ j.step # "idle" => j.family \in Families
  /\ j.step = "publish" => j.part \in j.left

WorkTyped ==
  /\ work \in [Workers -> WorkRecord]
  /\ \A w \in Workers :
       /\ work[w].step # "idle" => work[w].family \in Families
       /\ work[w].step = "publish" => work[w].part \in work[w].left

\* Giving one worker a well-formed job keeps the jobs well formed.
LEMMA WorkType ==
  ASSUME WorkTyped, NEW w \in Workers, NEW j, Sound(j),
         work' = [work EXCEPT ![w] = j]
  PROVE  WorkTyped'
  BY DEF WorkTyped, Sound

LEMMA RestingSound == Sound(Resting)
  BY NoFactsType DEF Sound, Resting, WorkRecord

LEMMA UnlockType ==
  ASSUME TypeOK, NEW p, Unlock(p)
  PROVE  /\ holder' \in [Families -> Procs \union {None}]
         /\ heavy' \in Procs \union {None}
  BY DEF TypeOK, Unlock

LEMMA EndWorkType ==
  ASSUME TypeOK, NEW w \in Workers, EndWork(w)
  PROVE  /\ WorkTyped'
         /\ holder' \in [Families -> Procs \union {None}]
         /\ heavy' \in Procs \union {None}
  <1>1. WorkTyped
    BY DEF TypeOK, WorkTyped
  <1>2. WorkTyped'
    BY <1>1, RestingSound, WorkType DEF EndWork
  <1>3. QED
    BY <1>2, UnlockType DEF EndWork

LEMMA EndRunType ==
  ASSUME TypeOK, NEW c \in Collectors, EndRun(c)
  PROVE  /\ run' \in [Collectors -> RunRecord]
         /\ \A d \in Collectors : run'[d].step # "idle" => run'[d].source \in Sources
         /\ holder' \in [Families -> Procs \union {None}]
         /\ heavy' \in Procs \union {None}
  <1>1. run' \in [Collectors -> RunRecord]
    BY DEF TypeOK, EndRun, RunRecord
  <1>2. \A d \in Collectors : run'[d].step # "idle" => run'[d].source \in Sources
    BY DEF TypeOK, EndRun
  <1>3. QED
    BY <1>1, <1>2, UnlockType DEF EndRun

LEMMA FaultType ==
  ASSUME TypeOK, Fault
  PROVE  faults' \in Nat
  BY DEF TypeOK, Fault

\* A job that is not idle is a well-formed record with a family.
LEMMA AtWork ==
  ASSUME TypeOK, NEW w \in Workers, work[w].step # "idle"
  PROVE  /\ work[w] \in WorkRecord
         /\ work[w].family \in Families
         /\ WorkTyped
  BY DEF TypeOK, WorkTyped

LEMMA BuildingSound ==
  ASSUME TypeOK, NEW w \in Workers, work[w].step # "idle", NEW b \in BOOLEAN
  PROVE  /\ Sound(Building(w, b))
         /\ Building(w, b).step = "list"
  <1>1. work[w].family \in Families
    BY AtWork
  <1> DEFINE f == work[w].family
  <1> HIDE DEF f
  <1>2. Resting \in WorkRecord
    BY RestingSound DEF Sound
  <1>3. Sound([Resting EXCEPT !.step = "list", !.retried = b, !.family = f])
          /\ [Resting EXCEPT !.step = "list", !.retried = b, !.family = f].step = "list"
    BY <1>1, <1>2 DEF Sound, WorkRecord, f
  <1>4. QED
    BY <1>3 DEF f, Building

\* What the steps of a build make of a well-formed job.
LEMMA ReadingSound ==
  ASSUME NEW r \in WorkRecord, r.family \in Families, NEW i \in r.left, NEW x \in Facts
  PROVE  Sound([r EXCEPT !.step = "publish", !.part = i, !.read = x])
  <1>1. i \in Parts
    BY DEF WorkRecord
  <1>2. QED
    BY <1>1 DEF Sound, WorkRecord

LEMMA ListingSound ==
  ASSUME NEW r \in WorkRecord, r.family \in Families, NEW x \in Facts
  PROVE  Sound([r EXCEPT !.step = "build", !.left = Parts, !.from = x])
  BY DEF Sound, WorkRecord

LEMMA AfterPartSound ==
  ASSUME NEW r \in WorkRecord, r.family \in Families, r.part \in Parts
  PROVE  Sound(AfterPart(r))
  <1>1. [r.out EXCEPT ![r.part] = r.read] \in [Parts -> Facts]
    BY DEF WorkRecord
  <1> DEFINE o == [r.out EXCEPT ![r.part] = r.read]
             l == r.left \ {r.part}
  <1>2. o \in [Parts -> Facts] /\ l \in SUBSET Parts
    BY <1>1 DEF WorkRecord
  <1>3. AfterPart(r) = [r EXCEPT !.step = "build", !.left = l, !.part = None,
                                 !.out = o, !.read = NoFacts]
    BY DEF AfterPart
  <1> HIDE DEF o, l
  <1>4. QED
    BY <1>2, <1>3, NoFactsType DEF Sound, WorkRecord

LEMMA TypeInitially == Init => TypeOK
<1> SUFFICES ASSUME Init PROVE TypeOK
  OBVIOUS
<1>1. /\ work \in [Workers -> WorkRecord]
      /\ \A w \in Workers : work[w].step = "idle"
  BY RestingSound DEF Init, Sound, Resting
<1>2. /\ run \in [Collectors -> RunRecord]
      /\ \A c \in Collectors : run[c].step = "idle"
  BY DEF Init, RunRecord
<1>3. /\ fact \in Facts
      /\ marked \in [Families -> Facts]
      /\ shown \in [Families -> [Parts -> Facts]]
  BY NoFactsType DEF Init
<1>4. QED
  BY <1>1, <1>2, <1>3 DEF Init, TypeOK

LEMMA TypeKept == TypeOK /\ [Next]_vars => TypeOK'
<1> SUFFICES ASSUME TypeOK, [Next]_vars PROVE TypeOK'
  OBVIOUS
<1>0. WorkTyped
  BY DEF TypeOK, WorkTyped
<1>1. ASSUME NEW w \in Workers, NEW f \in Families, LockFamily(w, f)
      PROVE  TypeOK'
  <2> DEFINE j == [work[w] EXCEPT !.step = "heavy", !.family = f]
  <2>0. work[w] \in WorkRecord
    BY DEF TypeOK
  <2>1. Sound(j)
    BY <2>0 DEF Sound, WorkRecord
  <2>2. work' = [work EXCEPT ![w] = j]
    BY <1>1 DEF LockFamily
  <2> HIDE DEF j
  <2>3. WorkTyped'
    BY <1>0, <2>1, <2>2, WorkType
  <2>4. holder' \in [Families -> Procs \union {None}]
    BY <1>1 DEF TypeOK, LockFamily, Procs
  <2>5. QED
    BY <1>1, <2>3, <2>4 DEF TypeOK, WorkTyped, LockFamily, request
<1>2. ASSUME NEW w \in Workers, LockHeavy(w)
      PROVE  TypeOK'
  <2>1. CASE heavy = None
    <3> DEFINE j == [work[w] EXCEPT !.step = "claim"]
    <3>1. Sound(j)
      BY <1>2, AtWork DEF LockHeavy, Sound, WorkRecord
    <3>2. work' = [work EXCEPT ![w] = j]
      BY <1>2, <2>1 DEF LockHeavy
    <3> HIDE DEF j
    <3>3. WorkTyped'
      BY <1>0, <3>1, <3>2, WorkType
    <3>4. heavy' \in Procs \union {None} /\ UNCHANGED holder
      BY <1>2, <2>1 DEF LockHeavy, Procs
    <3>5. QED
      BY <1>2, <3>3, <3>4 DEF TypeOK, WorkTyped, LockHeavy, request
  <2>2. CASE heavy # None
    BY <1>2, <2>2, EndWorkType DEF TypeOK, WorkTyped, LockHeavy, request
  <2>3. QED
    BY <2>1, <2>2
<1>3. ASSUME NEW w \in Workers, Claim(w)
      PROVE  TypeOK'
  <2>1. work[w].family \in Families
    BY <1>3, AtWork DEF Claim
  <2>2. CASE Claimable(work[w].family)
    <3>1. work' = [work EXCEPT ![w] = Building(w, FALSE)]
      BY <1>3, <2>2 DEF Claim
    <3>2. WorkTyped'
      BY <1>3, <1>0, <3>1, BuildingSound, WorkType DEF Claim
    <3>3. /\ status' \in [Families -> {"absent", "pending", "processing", "clean"}]
          /\ token' \in [Families -> Workers \union {None}]
      <4>1. /\ status' = [status EXCEPT ![work[w].family] = "processing"]
            /\ token' = [token EXCEPT ![work[w].family] = w]
        BY <1>3, <2>2 DEF Claim
      <4>2. QED
        BY <4>1 DEF TypeOK
    <3>0. ripe' \in [Families -> BOOLEAN]
      <4>1. ripe' = [ripe EXCEPT ![work[w].family] = FALSE]
        BY <1>3, <2>2 DEF Claim
      <4>2. ripe \in [Families -> BOOLEAN]
        BY DEF TypeOK
      <4>3. QED
        BY <4>1, <4>2, Zenon
    <3>4. QED
      BY <1>3, <2>2, <3>0, <3>2, <3>3 DEF TypeOK, WorkTyped, Claim, locks
  <2>3. CASE ~Claimable(work[w].family)
    BY <1>3, <2>3, EndWorkType DEF TypeOK, WorkTyped, Claim
  <2>4. QED
    BY <2>2, <2>3
<1>4. ASSUME NEW w \in Workers, ReadPart(w)
      PROVE  TypeOK'
  <2>1. PICK i \in work[w].left, x \in Readable(w) :
          work' = [work EXCEPT ![w].step = "publish", ![w].part = i,
                               ![w].read = x]
    BY <1>4 DEF ReadPart
  <2> DEFINE j == [work[w] EXCEPT !.step = "publish", !.part = i, !.read = x]
  <2>2. x \in Facts
    BY DEF Readable, Facts
  <2>3. Sound(j)
    <3>1. work[w] \in WorkRecord /\ work[w].family \in Families
      BY <1>4, AtWork DEF ReadPart
    <3>2. QED
      BY <2>2, <3>1, ReadingSound
  <2>4. work' = [work EXCEPT ![w] = j]
    BY <2>1
  <2> HIDE DEF j
  <2>5. WorkTyped'
    BY <1>0, <2>3, <2>4, WorkType
  <2>6. QED
    BY <1>4, <2>5 DEF TypeOK, WorkTyped, ReadPart, request, locks
<1>4a. ASSUME NEW w \in Workers, ListParts(w)
      PROVE  TypeOK'
  <2> DEFINE j == [work[w] EXCEPT !.step = "build", !.left = Parts, !.from = fact]
  <2>1. Sound(j)
    <3>1. /\ work[w] \in WorkRecord /\ work[w].family \in Families
          /\ fact \in Facts
      BY <1>4a, AtWork DEF ListParts, TypeOK
    <3>2. QED
      BY <3>1, ListingSound
  <2>2. work' = [work EXCEPT ![w] = j]
    BY <1>4a DEF ListParts
  <2> HIDE DEF j
  <2>3. WorkTyped'
    BY <1>0, <2>1, <2>2, WorkType
  <2>4. QED
    BY <1>4a, <2>3 DEF TypeOK, WorkTyped, ListParts, request, locks
<1>5. ASSUME NEW w \in Workers, PublishPart(w)
      PROVE  TypeOK'
  <2> DEFINE r == work[w]
  <2>1. r \in WorkRecord /\ r.family \in Families /\ r.part \in Parts
    BY <1>5, AtWork DEF PublishPart, TypeOK, WorkRecord
  <2>2. work' = [work EXCEPT ![w] = AfterPart(r)]
    BY <1>5 DEF PublishPart
  <2>3. shown' \in [Families -> [Parts -> Facts]]
    BY <1>5, <2>1 DEF PublishPart, TypeOK, WorkRecord
  <2>4. Sound(AfterPart(r))
    BY <2>1, AfterPartSound
  <2> HIDE DEF r
  <2>5. WorkTyped'
    BY <1>0, <2>2, <2>4, WorkType
  <2>6. QED
    BY <1>5, <2>3, <2>5 DEF TypeOK, WorkTyped, PublishPart, request, locks
<1>6. ASSUME NEW w \in Workers, RetryBuild(w)
      PROVE  TypeOK'
  <2>1. work' = [work EXCEPT ![w] = Building(w, TRUE)]
    BY <1>6 DEF RetryBuild
  <2>2. WorkTyped'
    BY <1>6, <1>0, <2>1, BuildingSound, WorkType DEF RetryBuild
  <2>3. QED
    BY <1>6, <2>2, FaultType
    DEF TypeOK, WorkTyped, RetryBuild, request, locks
<1>7. ASSUME NEW w \in Workers, Complete(w) \/ Defer(w)
      PROVE  TypeOK'
  <2>1. work[w].family \in Families
    BY <1>7, AtWork DEF Complete, Defer
  <2>2. /\ status' \in [Families -> {"absent", "pending", "processing", "clean"}]
        /\ token' \in [Families -> Workers \union {None}]
        /\ ripe' \in [Families -> BOOLEAN]
    BY <1>7, <2>1 DEF TypeOK, Complete, Defer
  <2>3. EndWork(w) /\ faults' \in Nat
    BY <1>7, FaultType DEF TypeOK, Complete, Defer
  <2>4. QED
    BY <1>7, <2>2, <2>3, EndWorkType DEF TypeOK, WorkTyped, Complete, Defer
<1>8. ASSUME NEW w \in Workers, StopWork(w)
      PROVE  TypeOK'
  BY <1>8, EndWorkType, FaultType DEF TypeOK, WorkTyped, StopWork, request
<1>9. ASSUME NEW c \in Collectors, NEW s \in Sources, BeginRun(c, s)
      PROVE  TypeOK'
  <2>1. /\ run' \in [Collectors -> RunRecord]
        /\ heavy' \in Procs \union {None}
    BY <1>9 DEF TypeOK, BeginRun, RunRecord, Procs
  <2>2. \A d \in Collectors : run'[d].step # "idle" => run'[d].source \in Sources
    BY <1>9 DEF TypeOK, BeginRun
  <2>3. QED
    BY <1>9, <2>1, <2>2 DEF TypeOK, BeginRun, request
<1>10. ASSUME NEW c \in Collectors, Normalize(c)
      PROVE  TypeOK'
  <2>1. run[c] \in RunRecord /\ run[c].source \in Sources
    BY <1>10 DEF TypeOK, Normalize
  <2>2. fact[run[c].source] \in Nat /\ fact' \in Facts
    BY <1>10, <2>1 DEF TypeOK, Normalize, Facts
  <2>3. run' = [run EXCEPT ![c] = [step |-> "mark", source |-> run[c].source,
                                   fact |-> fact[run[c].source] + 1]]
    BY <1>10 DEF Normalize
  <2>4. run' \in [Collectors -> RunRecord]
    BY <2>1, <2>2, <2>3 DEF TypeOK, RunRecord
  <2>5. \A d \in Collectors : run'[d].step # "idle" => run'[d].source \in Sources
    BY <2>1, <2>3 DEF TypeOK
  <2>6. QED
    BY <1>10, <2>2, <2>4, <2>5 DEF TypeOK, Normalize, request, locks
<1>11. ASSUME NEW c \in Collectors, MarkDirty(c)
      PROVE  TypeOK'
  <2>1. run[c].source \in Sources /\ run[c].fact \in Nat
    BY <1>11 DEF TypeOK, MarkDirty, RunRecord
  <2>2. /\ status' \in [Families -> {"absent", "pending", "processing", "clean"}]
        /\ token' \in [Families -> Workers \union {None}]
    BY <1>11, <2>1 DEF TypeOK, MarkDirty
  <2>3. ripe' \in [Families -> BOOLEAN]
    BY <1>11, <2>1 DEF TypeOK, MarkDirty
  <2>4. marked' \in [Families -> Facts]
    BY <1>11, <2>1 DEF TypeOK, MarkDirty, Facts
  <2>5. QED
    BY <1>11, <2>2, <2>3, <2>4, EndRunType DEF TypeOK, MarkDirty
<1>12. ASSUME NEW c \in Collectors, StopRun(c)
      PROVE  TypeOK'
  BY <1>12, EndRunType, FaultType DEF TypeOK, StopRun, request
<1>13. ASSUME NEW p \in Fragile, LoseLocks(p)
      PROVE  TypeOK'
  BY <1>13, UnlockType, FaultType DEF TypeOK, LoseLocks, request
<1>14. ASSUME NEW f \in Families, Ripen(f)
      PROVE  TypeOK'
  BY <1>14 DEF TypeOK, Ripen, locks
<1>15. CASE UNCHANGED vars
  BY <1>15 DEF TypeOK, vars, request, locks
<1>16. QED
  BY <1>1, <1>2, <1>3, <1>4, <1>5, <1>6, <1>7, <1>8, <1>9, <1>10, <1>11,
     <1>12, <1>13, <1>14, <1>15, <1>4a DEF Next, Step, Collect

\* Every variable keeps its type, whatever fails.
THEOREM TypeCorrect == Spec => []TypeOK
  BY TypeInitially, TypeKept, PTL DEF Spec

-----------------------------------------------------------------------------
(* A completion is never older than the marks it makes clean.              *)

\* marks never run ahead of what is committed
MarksKnown ==
  /\ \A f \in Families : AtLeast(fact, marked[f])
  /\ \A c \in Collectors : run[c].step = "mark" =>
                             fact[run[c].source] >= run[c].fact

\* what a build may read, what it has published, and what it is about to
FreshFor(r, m) ==
  /\ AtLeast(r.from, m)
  /\ \A i \in Parts \ r.left : AtLeast(r.out[i], m)
  /\ r.step = "publish" => AtLeast(r.read, m)

ClaimFresh(w) ==
  work[w].step \in {"build", "publish"} /\ Matches(w) =>
    FreshFor(work[w], marked[work[w].family])

IInv == TypeOK /\ MarksKnown /\ \A w \in Workers : ClaimFresh(w)

\* A worker that did nothing stays fresh when no mark and no claim but its own
\* family's loss of it happened.
LEMMA Bystander ==
  ASSUME NEW w \in Workers, ClaimFresh(w), work'[w] = work[w],
         marked' = marked,
         work[w].step # "idle" /\ Matches(w)' => Matches(w)
  PROVE  ClaimFresh(w)'
  BY DEF ClaimFresh, FreshFor, AtLeast

\* A worker whose job is over, or has not begun to build, claims nothing.
LEMMA NotBuilding ==
  ASSUME NEW w \in Workers, work'[w].step \notin {"build", "publish"}
  PROVE  ClaimFresh(w)'
  BY DEF ClaimFresh

LEMMA EndsWork ==
  ASSUME TypeOK, NEW w \in Workers, EndWork(w)
  PROVE  /\ ClaimFresh(w)'
         /\ \A v \in Workers \ {w} : work'[v] = work[v]
  <1>1. work \in [Workers -> WorkRecord]
    BY DEF TypeOK
  <1>2. work'[w].step = "idle"
    BY <1>1 DEF EndWork, Resting
  <1>3. QED
    BY <1>1, <1>2, NotBuilding DEF EndWork

\* A step that gives up no claim but w's own, and marks nothing.
LEMMA OthersUndisturbed ==
  ASSUME TypeOK, \A v \in Workers : ClaimFresh(v), NEW w \in Workers,
         ClaimFresh(w)', marked' = marked,
         \A v \in Workers \ {w} :
           /\ work'[v] = work[v]
           /\ work[v].step # "idle" /\ Matches(v)' => Matches(v)
  PROVE  \A v \in Workers : ClaimFresh(v)'
  <1> SUFFICES ASSUME NEW v \in Workers, v # w PROVE ClaimFresh(v)'
    OBVIOUS
  <1>1. QED
    BY Bystander

LEMMA MarksStayKnown ==
  ASSUME MarksKnown, fact' = fact, marked' = marked, run' = run
  PROVE  MarksKnown'
  BY DEF MarksKnown, AtLeast

\* The inductive step for what one worker does.
LEMMA WorkKeepsFresh ==
  ASSUME IInv, NEW w \in Workers,
         \/ \E f \in Families : LockFamily(w, f)
         \/ Step(w) \/ RetryBuild(w) \/ Defer(w) \/ StopWork(w)
  PROVE  MarksKnown' /\ \A v \in Workers : ClaimFresh(v)'
<1>0. /\ TypeOK /\ MarksKnown /\ \A v \in Workers : ClaimFresh(v)
      /\ work \in [Workers -> WorkRecord]
  BY DEF IInv, TypeOK
<1>1. ASSUME NEW f \in Families, LockFamily(w, f)
      PROVE  MarksKnown' /\ \A v \in Workers : ClaimFresh(v)'
  <2>1. work'[w].step = "heavy" /\ \A v \in Workers \ {w} : work'[v] = work[v]
    BY <1>0, <1>1 DEF LockFamily, WorkRecord
  <2>2. \A v \in Workers \ {w} : Matches(v)' => Matches(v)
    BY <1>1, <2>1 DEF LockFamily, Matches, request
  <2>3. QED
    BY <1>0, <1>1, <2>1, <2>2, NotBuilding, OthersUndisturbed, MarksStayKnown
    DEF LockFamily, request
<1>2. ASSUME LockHeavy(w)
      PROVE  MarksKnown' /\ \A v \in Workers : ClaimFresh(v)'
  <2>1. /\ ClaimFresh(w)'
        /\ \A v \in Workers \ {w} : work'[v] = work[v]
    <3>1. CASE heavy = None
      <4>1. work'[w].step = "claim" /\ \A v \in Workers \ {w} : work'[v] = work[v]
        BY <1>0, <1>2, <3>1 DEF LockHeavy, WorkRecord
      <4>2. QED
        BY <4>1, NotBuilding
    <3>2. CASE heavy # None
      BY <1>0, <1>2, <3>2, EndsWork DEF LockHeavy
    <3>3. QED
      BY <3>1, <3>2
  <2>2. \A v \in Workers \ {w} : Matches(v)' => Matches(v)
    BY <1>2, <2>1 DEF LockHeavy, Matches, request
  <2>3. QED
    BY <1>0, <1>2, <2>1, <2>2, OthersUndisturbed, MarksStayKnown
    DEF LockHeavy, request
<1>3. ASSUME Claim(w)
      PROVE  MarksKnown' /\ \A v \in Workers : ClaimFresh(v)'
  <2>0. work[w].family \in Families
    BY <1>0, <1>3, AtWork DEF Claim
  <2>1. CASE Claimable(work[w].family)
    <3>1. /\ status' = [status EXCEPT ![work[w].family] = "processing"]
          /\ token' = [token EXCEPT ![work[w].family] = w]
          /\ work' = [work EXCEPT ![w] = Building(w, FALSE)]
      BY <1>3, <2>1 DEF Claim
    <3>2. work'[w].step = "list"
      BY <1>0, <1>3, <3>1, BuildingSound DEF Claim
    <3>3. ClaimFresh(w)'
      BY <3>2, NotBuilding
    <3>4. \A v \in Workers \ {w} : work'[v] = work[v]
      BY <1>0, <3>1
    <3>5. \A v \in Workers \ {w} : Matches(v)' => Matches(v)
      BY <1>0, <2>0, <3>1, <3>4 DEF Matches, TypeOK
    <3>6. QED
      BY <1>0, <1>3, <3>3, <3>4, <3>5, OthersUndisturbed, MarksStayKnown DEF Claim
  <2>2. CASE ~Claimable(work[w].family)
    <3>1. EndWork(w) /\ UNCHANGED <<status, token>>
      BY <1>3, <2>2 DEF Claim
    <3>2. /\ ClaimFresh(w)'
          /\ \A v \in Workers \ {w} : work'[v] = work[v]
      BY <1>0, <3>1, EndsWork
    <3>3. \A v \in Workers \ {w} : Matches(v)' => Matches(v)
      BY <3>1, <3>2 DEF Matches
    <3>4. QED
      BY <1>0, <1>3, <3>2, <3>3, OthersUndisturbed, MarksStayKnown DEF Claim
  <2>3. QED
    BY <2>1, <2>2
<1>4. ASSUME ReadPart(w)
      PROVE  MarksKnown' /\ \A v \in Workers : ClaimFresh(v)'
  <2>1. PICK i \in work[w].left, x \in Readable(w) :
          work' = [work EXCEPT ![w].step = "publish", ![w].part = i,
                               ![w].read = x]
    BY <1>4 DEF ReadPart
  <2>2. /\ work'[w].family = work[w].family
        /\ work'[w].from = work[w].from
        /\ work'[w].left = work[w].left
        /\ work'[w].out = work[w].out
        /\ work'[w].read = x
    BY <1>0, <2>1 DEF WorkRecord
  <2>3. \A v \in Workers \ {w} : work'[v] = work[v]
    BY <1>0, <2>1
  <2>4. UNCHANGED <<status, token, marked, fact, run>>
    BY <1>4 DEF ReadPart, request
  <2>5. \A v \in Workers : Matches(v)' => Matches(v)
    BY <2>2, <2>3, <2>4 DEF Matches
  <2>6. Matches(w) => FreshFor(work[w], marked[work[w].family])
    BY <1>0, <1>4 DEF ReadPart, ClaimFresh
  <2>7. Matches(w) => AtLeast(x, marked[work[w].family])
    <3>1. /\ x \in [Sources -> Nat] /\ work[w].from \in [Sources -> Nat]
          /\ marked[work[w].family] \in [Sources -> Nat]
      BY <1>0, <1>4, AtWork DEF ReadPart, TypeOK, Readable, WorkRecord, Facts
    <3>2. AtLeast(x, work[w].from)
      BY DEF Readable
    <3>3. QED
      BY <2>6, <3>1, <3>2 DEF FreshFor, AtLeast
  <2>8. ClaimFresh(w)'
    BY <2>2, <2>4, <2>5, <2>6, <2>7 DEF ClaimFresh, FreshFor, AtLeast
  <2>9. QED
    BY <1>0, <2>3, <2>4, <2>5, <2>8, OthersUndisturbed, MarksStayKnown
<1>4a. ASSUME ListParts(w)
      PROVE  MarksKnown' /\ \A v \in Workers : ClaimFresh(v)'
  <2>1. /\ work'[w].step = "build"
        /\ work'[w].family = work[w].family
        /\ work'[w].from = fact
        /\ work'[w].left = Parts
    BY <1>0, <1>4a DEF ListParts, WorkRecord
  <2>2. \A v \in Workers \ {w} : work'[v] = work[v]
    BY <1>0, <1>4a DEF ListParts
  <2>3. UNCHANGED <<status, token, marked, fact, run>>
    BY <1>4a DEF ListParts, request
  <2>4. \A v \in Workers : Matches(v)' => Matches(v)
    BY <2>1, <2>2, <2>3 DEF Matches
  <2>5. AtLeast(fact, marked[work[w].family])
    BY <1>0, <1>4a, AtWork DEF ListParts, MarksKnown
  <2>6. ClaimFresh(w)'
    BY <2>1, <2>3, <2>5 DEF ClaimFresh, FreshFor, AtLeast
  <2>7. QED
    BY <1>0, <2>2, <2>3, <2>4, <2>6, OthersUndisturbed, MarksStayKnown
<1>5. ASSUME PublishPart(w)
      PROVE  MarksKnown' /\ \A v \in Workers : ClaimFresh(v)'
  <2> DEFINE r == work[w]
  <2>0. r \in WorkRecord /\ r.family \in Families /\ r.part \in Parts
    BY <1>0, <1>5, AtWork DEF PublishPart, TypeOK, WorkRecord
  <2>1. work' = [work EXCEPT ![w] = AfterPart(r)]
    BY <1>5 DEF PublishPart
  <2>2. work'[w] = AfterPart(r) /\ \A v \in Workers \ {w} : work'[v] = work[v]
    BY <1>0, <2>1
  <2>3. UNCHANGED <<status, token, marked, fact, run>>
    BY <1>5 DEF PublishPart, request
  <2>4. /\ AfterPart(r).step = "build"
        /\ AfterPart(r).family = r.family
        /\ AfterPart(r).from = r.from
        /\ AfterPart(r).left = r.left \ {r.part}
        /\ AfterPart(r).out = [r.out EXCEPT ![r.part] = r.read]
    <3> HIDE DEF r
    <3>1. QED
      BY <2>0 DEF AfterPart, WorkRecord
  <2>5. \A v \in Workers : Matches(v)' => Matches(v)
    BY <2>2, <2>3, <2>4 DEF Matches
  <2>6. Matches(w) => FreshFor(r, marked[r.family])
    BY <1>0, <1>5 DEF PublishPart, ClaimFresh
  <2>7. Matches(w) => FreshFor(AfterPart(r), marked[r.family])
    <3>1. r.out \in [Parts -> Facts]
      BY <2>0 DEF WorkRecord
    <3>2. r.step = "publish"
      BY <1>5 DEF PublishPart
    <3>3. QED
      BY <2>4, <2>6, <3>1, <3>2 DEF FreshFor
  <2>8. ClaimFresh(w)'
    <3> HIDE DEF r
    <3>1. QED
      BY <2>2, <2>3, <2>4, <2>5, <2>7 DEF ClaimFresh, FreshFor, AtLeast
  <2>9. QED
    BY <1>0, <2>2, <2>3, <2>5, <2>8, OthersUndisturbed, MarksStayKnown
<1>6. ASSUME RetryBuild(w)
      PROVE  MarksKnown' /\ \A v \in Workers : ClaimFresh(v)'
  <2>1. work' = [work EXCEPT ![w] = Building(w, TRUE)]
    BY <1>6 DEF RetryBuild
  <2>2. work'[w].step = "list"
    BY <1>0, <1>6, <2>1, BuildingSound DEF RetryBuild
  <2>3. \A v \in Workers \ {w} : work'[v] = work[v]
    BY <1>0, <2>1
  <2>4. UNCHANGED <<status, token, marked, fact, run>>
    BY <1>6 DEF RetryBuild, request
  <2>5. ClaimFresh(w)'
    BY <2>2, NotBuilding
  <2>6. \A v \in Workers \ {w} : Matches(v)' => Matches(v)
    BY <2>3, <2>4 DEF Matches
  <2>7. QED
    BY <1>0, <2>3, <2>4, <2>5, <2>6, OthersUndisturbed, MarksStayKnown
<1>7. ASSUME Complete(w) \/ Defer(w)
      PROVE  MarksKnown' /\ \A v \in Workers : ClaimFresh(v)'
  <2>0. work[w].family \in Families
    BY <1>0, <1>7, AtWork DEF Complete, Defer
  <2>1. EndWork(w) /\ UNCHANGED <<marked, fact, run>>
    BY <1>7 DEF Complete, Defer
  <2>2. /\ ClaimFresh(w)'
        /\ \A v \in Workers \ {w} : work'[v] = work[v]
    BY <1>0, <2>1, EndsWork
  <2>3. \/ UNCHANGED <<status, token>>
        \/ /\ status' = [status EXCEPT ![work[w].family] = "clean"]
           /\ token' = [token EXCEPT ![work[w].family] = None]
        \/ /\ status' = [status EXCEPT ![work[w].family] = "pending"]
           /\ token' = [token EXCEPT ![work[w].family] = None]
    BY <1>7 DEF Complete, Defer
  <2>4. \A v \in Workers \ {w} :
          work[v].step # "idle" /\ Matches(v)' => Matches(v)
    <3> SUFFICES ASSUME NEW v \in Workers \ {w}, work[v].step # "idle",
                        Matches(v)'
                 PROVE  Matches(v)
      OBVIOUS
    <3>0. work[v].family \in Families
      BY <1>0, AtWork
    <3>1. /\ status'[work[v].family] = "processing"
          /\ token'[work[v].family] = v
      BY <2>2 DEF Matches
    <3>2. /\ status \in [Families -> {"absent", "pending", "processing", "clean"}]
          /\ token \in [Families -> Workers \union {None}]
      BY <1>0 DEF TypeOK
    <3>3. /\ status[work[v].family] = "processing"
          /\ token[work[v].family] = v
      BY <2>0, <2>3, <3>0, <3>1, <3>2 DEF Procs
    <3>4. QED
      BY <3>3 DEF Matches
  <2>5. QED
    BY <1>0, <2>1, <2>2, <2>4, OthersUndisturbed, MarksStayKnown
<1>8. ASSUME StopWork(w)
      PROVE  MarksKnown' /\ \A v \in Workers : ClaimFresh(v)'
  <2>1. EndWork(w) /\ UNCHANGED <<status, token, marked, fact, run>>
    BY <1>8 DEF StopWork, request
  <2>2. /\ ClaimFresh(w)'
        /\ \A v \in Workers \ {w} : work'[v] = work[v]
    BY <1>0, <2>1, EndsWork
  <2>3. \A v \in Workers \ {w} : Matches(v)' => Matches(v)
    BY <2>1, <2>2 DEF Matches
  <2>4. QED
    BY <1>0, <2>1, <2>2, <2>3, OthersUndisturbed, MarksStayKnown
<1>9. QED
  BY <1>1, <1>2, <1>3, <1>4, <1>5, <1>6, <1>7, <1>8, <1>4a DEF Step

\* Whoever may turn a family clean has published every part of it from facts
\* at least as new as every mark, although locks are lost, claims are taken
\* over and marks arrive at any moment.
THEOREM CompletionsAreFresh == Spec => []CompletionIsFresh
<1>1. Init => IInv
  <2>1. Init => TypeOK
    BY TypeInitially
  <2>2. Init => MarksKnown
    BY DEF Init, MarksKnown, AtLeast, NoFacts
  <2>3. Init => \A w \in Workers : ClaimFresh(w)
    BY DEF Init, ClaimFresh, Resting
  <2>4. QED
    BY <2>1, <2>2, <2>3 DEF IInv
<1>2. IInv /\ [Next]_vars => IInv'
  <2> SUFFICES ASSUME IInv, [Next]_vars PROVE IInv'
    OBVIOUS
  <2>0. TypeOK /\ MarksKnown /\ \A w \in Workers : ClaimFresh(w)
    BY DEF IInv
  <2>1. TypeOK'
    BY <2>0, TypeKept
  <2>2. ASSUME NEW w \in Workers,
               \/ \E f \in Families : LockFamily(w, f)
               \/ Step(w) \/ RetryBuild(w) \/ Defer(w) \/ StopWork(w)
        PROVE  MarksKnown' /\ \A v \in Workers : ClaimFresh(v)'
    BY <2>2, WorkKeepsFresh
  <2>3. ASSUME UNCHANGED <<status, token, marked, work>>
        PROVE  \A v \in Workers : ClaimFresh(v)'
    BY <2>0, <2>3, Bystander DEF Matches
  <2>4. ASSUME NEW c \in Collectors, NEW s \in Sources, BeginRun(c, s)
        PROVE  MarksKnown' /\ \A v \in Workers : ClaimFresh(v)'
    <3>1. \A d \in Collectors : run'[d].step = "mark" => run'[d] = run[d]
      BY <2>0, <2>4 DEF BeginRun, TypeOK
    <3>2. MarksKnown'
      BY <2>0, <2>4, <3>1 DEF BeginRun, MarksKnown, AtLeast, request
    <3>3. QED
      BY <2>3, <2>4, <3>2 DEF BeginRun, request
  <2>5. ASSUME NEW c \in Collectors, Normalize(c)
        PROVE  MarksKnown' /\ \A v \in Workers : ClaimFresh(v)'
    <3>1. run[c].source \in Sources /\ fact \in [Sources -> Nat]
      BY <2>0, <2>5 DEF Normalize, TypeOK, Facts
    <3>2. \A s \in Sources : fact'[s] >= fact[s] /\ fact'[s] \in Nat
      BY <2>5, <3>1 DEF Normalize
    <3>3. \A f \in Families : marked[f] \in [Sources -> Nat]
      BY <2>0 DEF TypeOK, Facts
    <3>4. \A f \in Families : AtLeast(fact, marked[f])'
      <4>1. SUFFICES ASSUME NEW f \in Families, NEW s \in Sources
                     PROVE  fact'[s] >= marked'[f][s]
        BY DEF AtLeast
      <4>2. fact[s] >= marked[f][s] /\ marked' = marked
        BY <2>0, <2>5 DEF MarksKnown, AtLeast, Normalize, request
      <4>3. QED
        BY <3>1, <3>2, <3>3, <4>2
    <3>5. \A d \in Collectors : run'[d].step = "mark" =>
                                 fact'[run'[d].source] >= run'[d].fact
      <4> SUFFICES ASSUME NEW d \in Collectors, run'[d].step = "mark"
                   PROVE  fact'[run'[d].source] >= run'[d].fact
        OBVIOUS
      <4>1. run[d] \in RunRecord /\ run \in [Collectors -> RunRecord]
        BY <2>0 DEF TypeOK
      <4>2. CASE d = c
        <5>1. run'[d] = [step |-> "mark", source |-> run[c].source,
                         fact |-> fact[run[c].source] + 1]
          BY <2>5, <4>1, <4>2 DEF Normalize
        <5>2. fact'[run[c].source] = fact[run[c].source] + 1
          BY <2>5, <3>1 DEF Normalize
        <5>3. QED
          BY <3>1, <5>1, <5>2
      <4>3. CASE d # c
        <5>1. run'[d] = run[d]
          BY <2>5, <4>1, <4>3 DEF Normalize
        <5>2. run[d].source \in Sources /\ run[d].fact \in Nat
                /\ fact[run[d].source] >= run[d].fact
          BY <2>0, <4>1, <5>1 DEF MarksKnown, TypeOK, RunRecord
        <5>3. QED
          BY <3>1, <3>2, <5>1, <5>2
      <4>4. QED
        BY <4>2, <4>3
    <3>6. QED
      BY <2>3, <2>5, <3>4, <3>5 DEF Normalize, MarksKnown, request
  <2>6. ASSUME NEW c \in Collectors, EndRun(c), fact' = fact
        PROVE  \A d \in Collectors : run'[d].step = "mark" =>
                                      fact'[run'[d].source] >= run'[d].fact
    <3>1. \A d \in Collectors : run'[d].step = "mark" => run'[d] = run[d]
      BY <2>0, <2>6 DEF EndRun, TypeOK
    <3>2. QED
      BY <2>0, <2>6, <3>1 DEF MarksKnown
  <2>7. ASSUME NEW c \in Collectors, MarkDirty(c)
        PROVE  MarksKnown' /\ \A v \in Workers : ClaimFresh(v)'
    <3> DEFINE s == run[c].source
    <3>1. s \in Sources /\ fact[s] >= run[c].fact
      BY <2>0, <2>7 DEF MarkDirty, TypeOK, MarksKnown
    <3>2. \A f \in Families : AtLeast(fact, marked[f])'
      <4>1. SUFFICES ASSUME NEW f \in Families, NEW t \in Sources
                     PROVE  fact'[t] >= marked'[f][t]
        BY DEF AtLeast
      <4>2. marked[f] \in [Sources -> Nat]
        BY <2>0 DEF TypeOK, Facts
      <4>3. marked'[f] = IF f \in FamiliesOf[s]
                           THEN [marked[f] EXCEPT ![s] = run[c].fact] ELSE marked[f]
        BY <2>7 DEF MarkDirty
      <4>4. fact' = fact /\ fact[t] >= marked[f][t]
        BY <2>0, <2>7 DEF MarkDirty, MarksKnown, AtLeast
      <4>5. QED
        BY <3>1, <4>2, <4>3, <4>4
    <3>3. MarksKnown'
      BY <2>6, <2>7, <3>2 DEF MarkDirty, MarksKnown
    <3>4. ASSUME NEW w \in Workers PROVE ClaimFresh(w)'
      <4>1. work' = work
        BY <2>7 DEF MarkDirty
      <4>2. CASE work[w].step \notin {"build", "publish"}
        BY <4>1, <4>2, NotBuilding
      <4>3. CASE work[w].step \in {"build", "publish"}
        <5>1. work[w].family \in Families
          BY <2>0, <4>3 DEF TypeOK
        <5>2. CASE work[w].family \in FamiliesOf[s]
          <6>1. status'[work[w].family] = "pending"
            BY <2>7, <5>1, <5>2 DEF MarkDirty
          <6>2. QED
            BY <4>1, <6>1 DEF ClaimFresh, Matches
        <5>3. CASE work[w].family \notin FamiliesOf[s]
          <6>1. /\ status'[work[w].family] = status[work[w].family]
                /\ token'[work[w].family] = token[work[w].family]
                /\ marked'[work[w].family] = marked[work[w].family]
            BY <2>7, <5>1, <5>3 DEF MarkDirty
          <6>2. QED
            BY <2>0, <4>1, <6>1 DEF ClaimFresh, Matches, FreshFor, AtLeast
        <5>4. QED
          BY <5>2, <5>3
      <4>4. QED
        BY <4>2, <4>3
    <3>5. QED
      BY <3>3, <3>4
  <2>8. ASSUME NEW c \in Collectors, StopRun(c)
        PROVE  MarksKnown' /\ \A v \in Workers : ClaimFresh(v)'
    <3>1. \A f \in Families : AtLeast(fact, marked[f])'
      BY <2>0, <2>8 DEF StopRun, MarksKnown, AtLeast, request
    <3>2. QED
      BY <2>3, <2>6, <2>8, <3>1 DEF StopRun, MarksKnown, request
  <2>9. ASSUME NEW p \in Fragile, LoseLocks(p)
        PROVE  MarksKnown' /\ \A v \in Workers : ClaimFresh(v)'
    BY <2>0, <2>3, <2>9, MarksStayKnown DEF LoseLocks, request
  <2>10. ASSUME NEW f \in Families, Ripen(f)
        PROVE  MarksKnown' /\ \A v \in Workers : ClaimFresh(v)'
    BY <2>0, <2>3, <2>10, MarksStayKnown DEF Ripen
  <2>11. ASSUME UNCHANGED vars
         PROVE  MarksKnown' /\ \A v \in Workers : ClaimFresh(v)'
    <3>1. UNCHANGED <<fact, status, token, marked, work, run>>
      BY <2>11 DEF vars
    <3>2. QED
      BY <2>0, <2>3, <3>1, MarksStayKnown
  <2>12. MarksKnown' /\ \A v \in Workers : ClaimFresh(v)'
    <3>1. CASE \E w \in Workers :
                 \/ \E f \in Families : LockFamily(w, f)
                 \/ Step(w) \/ RetryBuild(w) \/ Defer(w) \/ StopWork(w)
      BY <2>2, <3>1
    <3>2. CASE \E c \in Collectors :
                 \/ \E s \in Sources : BeginRun(c, s)
                 \/ Collect(c) \/ StopRun(c)
      BY <2>4, <2>5, <2>7, <2>8, <3>2 DEF Collect
    <3>3. QED
      BY <2>9, <2>10, <2>11, <3>1, <3>2 DEF Next
  <2>13. QED
    BY <2>1, <2>12 DEF IInv
<1>3. IInv => CompletionIsFresh
  BY DEF IInv, CompletionIsFresh, ClaimFresh, FreshFor
<1>4. QED
  BY <1>1, <1>2, <1>3, PTL DEF Spec

-----------------------------------------------------------------------------
(* While no lock is lost: readers never go back, and clean means shown.    *)

LEMMA AtLeastTransitive ==
  ASSUME NEW a \in Facts, NEW b \in Facts, NEW c \in Facts,
         AtLeast(a, b), AtLeast(b, c)
  PROVE  AtLeast(a, c)
  BY DEF Facts, AtLeast

\* nothing is shown, or about to be shown, that is not committed
ShownKnown ==
  /\ \A f \in Families, i \in Parts : AtLeast(fact, shown[f][i])
  /\ \A w \in Workers : work[w].step = "publish" => AtLeast(fact, work[w].read)

\* A build r of a family whose parts show s: what it has published is what
\* they show, and what it may still read is no older than what they show.
InOrder(r, s) ==
  /\ \A i \in r.left : AtLeast(r.from, s[i])
  /\ \A i \in Parts \ r.left : s[i] = r.out[i]
  /\ r.step = "publish" => AtLeast(r.read, r.from)

\* The family lock makes a worker the only one that builds its family.
Served(w) ==
  /\ work[w].step # "idle" => holder[work[w].family] = w
  /\ work[w].step \in {"build", "publish"} =>
       InOrder(work[w], shown[work[w].family])

InTurn == ShownKnown /\ (~lost => \A w \in Workers : Served(w))

LEMMA OthersServed ==
  ASSUME TypeOK, NEW v \in Workers, Served(v), work'[v] = work[v],
         \A f \in Families : holder[f] = v => holder'[f] = v,
         work[v].step # "idle" =>
           shown'[work[v].family] = shown[work[v].family]
  PROVE  Served(v)'
<1>1. CASE work[v].step = "idle"
  BY <1>1 DEF Served
<1>2. CASE work[v].step # "idle"
  <2>1. work[v].family \in Families /\ holder'[work[v].family] = v
    BY <1>2, AtWork DEF Served
  <2>2. QED
    BY <1>2, <2>1 DEF Served, InOrder
<1>3. QED
  BY <1>1, <1>2

LEMMA ServedApart ==
  ASSUME \A v \in Workers : Served(v), NEW w \in Workers, NEW v \in Workers \ {w},
         work[w].step # "idle", work[v].step # "idle"
  PROVE  work[v].family # work[w].family
  BY DEF Served

\* What a worker's step does to the other workers, to the facts and to lost.
LEMMA WorkIsLocal ==
  ASSUME TypeOK, NEW w \in Workers,
         \/ \E f \in Families : LockFamily(w, f)
         \/ Step(w) \/ RetryBuild(w) \/ Defer(w) \/ StopWork(w)
  PROVE  /\ \A v \in Workers \ {w} : work'[v] = work[v]
         /\ UNCHANGED <<fact, lost>>
         /\ UNCHANGED shown \/ PublishPart(w)
<1>1. work \in [Workers -> WorkRecord]
  BY DEF TypeOK
<1>2. \A v \in Workers \ {w} : work'[v] = work[v]
  <2>1. CASE \E f \in Families : LockFamily(w, f)
    BY <1>1, <2>1 DEF LockFamily
  <2>2. CASE LockHeavy(w) \/ Claim(w)
    BY <1>1, <2>2 DEF LockHeavy, Claim, EndWork
  <2>3. CASE ListParts(w) \/ ReadPart(w) \/ PublishPart(w)
    BY <1>1, <2>3 DEF ListParts, ReadPart, PublishPart
  <2>4. CASE RetryBuild(w) \/ Complete(w) \/ Defer(w) \/ StopWork(w)
    BY <1>1, <2>4 DEF RetryBuild, Complete, Defer, StopWork, EndWork
  <2>5. QED
    BY <2>1, <2>2, <2>3, <2>4 DEF Step
<1>3. UNCHANGED <<fact, lost>>
  BY DEF LockFamily, Step, LockHeavy, Claim, ListParts, ReadPart, PublishPart,
         Complete, RetryBuild, Defer, StopWork
<1>4. UNCHANGED shown \/ PublishPart(w)
  BY DEF LockFamily, Step, LockHeavy, Claim, ListParts, ReadPart, Complete,
         RetryBuild, Defer, StopWork
<1>5. QED
  BY <1>2, <1>3, <1>4

LEMMA ServedWhenEnded ==
  ASSUME TypeOK, NEW w \in Workers, EndWork(w)
  PROVE  /\ Served(w)'
         /\ work'[w].step = "idle"
         /\ \A v \in Workers \ {w}, f \in Families : holder[f] = v => holder'[f] = v
<1>1. work'[w] = Resting
  BY DEF TypeOK, EndWork
<1>2. QED
  BY <1>1 DEF EndWork, Unlock, Resting, Served

\* The steps of w that keep its family and its locks, up to the build.
LEMMA WorkKeepsTurn ==
  ASSUME TypeOK, InTurn, NEW w \in Workers,
         \/ \E f \in Families : LockFamily(w, f)
         \/ Step(w) \/ RetryBuild(w) \/ Defer(w) \/ StopWork(w)
  PROVE  InTurn'
<1>0. /\ work \in [Workers -> WorkRecord] /\ work[w] \in WorkRecord
      /\ fact \in Facts /\ shown \in [Families -> [Parts -> Facts]]
      /\ ShownKnown /\ (~lost => \A v \in Workers : Served(v))
  BY DEF TypeOK, InTurn
<1>1. /\ \A v \in Workers \ {w} : work'[v] = work[v]
      /\ UNCHANGED <<fact, lost>>
      /\ UNCHANGED shown \/ PublishPart(w)
  BY WorkIsLocal
\* a step that neither reads nor publishes: w and its locks decide
<1>2. ASSUME UNCHANGED shown, work'[w].step # "publish", ~lost => Served(w)',
             \A v \in Workers \ {w}, f \in Families : holder[f] = v => holder'[f] = v
      PROVE  InTurn'
  <2>1. ShownKnown'
    BY <1>0, <1>1, <1>2 DEF ShownKnown, AtLeast
  <2>2. ASSUME ~lost, NEW v \in Workers \ {w} PROVE Served(v)'
    BY <1>0, <1>1, <1>2, <2>2, OthersServed
  <2>3. QED
    BY <1>1, <1>2, <2>1, <2>2 DEF InTurn
<1>3. ASSUME EndWork(w), UNCHANGED shown
      PROVE  InTurn'
  BY <1>2, <1>3, ServedWhenEnded
\* a step that keeps w's family and every lock, and builds nothing yet
<1>4. ASSUME UNCHANGED <<holder, shown>>, work[w].step # "idle",
             work'[w].step \in {"claim", "list"}, work'[w].family = work[w].family
      PROVE  InTurn'
  <2>1. ~lost => Served(w)'
    BY <1>0, <1>4 DEF Served
  <2>2. QED
    BY <1>2, <1>4, <2>1
<1>5. ASSUME NEW f \in Families, LockFamily(w, f)
      PROVE  InTurn'
  <2>1. work'[w].step = "heavy" /\ work'[w].family = f
    BY <1>0, <1>5 DEF LockFamily, WorkRecord
  <2>2. holder[f] = None /\ holder' = [holder EXCEPT ![f] = w] /\ UNCHANGED shown
    BY <1>5 DEF LockFamily
  <2>3. holder'[f] = w
    BY <2>2 DEF TypeOK
  <2>4. \A v \in Workers \ {w}, g \in Families : holder[g] = v => holder'[g] = v
    BY <2>2 DEF TypeOK, Procs
  <2>5. Served(w)'
    BY <2>1, <2>3 DEF Served
  <2>6. QED
    BY <1>2, <2>1, <2>2, <2>4, <2>5
<1>6. ASSUME LockHeavy(w)
      PROVE  InTurn'
  <2>1. CASE heavy = None
    <3>1. work'[w].step = "claim" /\ work'[w].family = work[w].family
      BY <1>0, <1>6, <2>1 DEF LockHeavy, WorkRecord
    <3>2. QED
      BY <1>4, <1>6, <2>1, <3>1 DEF LockHeavy
  <2>2. CASE heavy # None
    BY <1>3, <1>6, <2>2 DEF LockHeavy
  <2>3. QED
    BY <2>1, <2>2
<1>7. \A b \in BOOLEAN : Building(w, b).step = "list"
                           /\ Building(w, b).family = work[w].family
  BY DEF Building, Resting
<1>8. ASSUME Claim(w)
      PROVE  InTurn'
  <2>1. CASE Claimable(work[w].family)
    <3>1. work' = [work EXCEPT ![w] = Building(w, FALSE)]
      BY <1>8, <2>1 DEF Claim
    <3>2. work'[w].step = "list" /\ work'[w].family = work[w].family
      BY <1>0, <1>7, <3>1
    <3>3. QED
      BY <1>4, <1>8, <2>1, <3>2 DEF Claim, locks
  <2>2. CASE ~Claimable(work[w].family)
    BY <1>3, <1>8, <2>2 DEF Claim
  <2>3. QED
    BY <2>1, <2>2
<1>9. ASSUME RetryBuild(w)
      PROVE  InTurn'
  <2>1. work'[w].step = "list" /\ work'[w].family = work[w].family
    BY <1>0, <1>7, <1>9 DEF RetryBuild
  <2>2. QED
    BY <1>4, <1>9, <2>1 DEF RetryBuild, locks
<1>10. ASSUME ListParts(w)
       PROVE  InTurn'
  <2>1. /\ work'[w].step = "build" /\ work'[w].family = work[w].family
        /\ work'[w].left = Parts /\ work'[w].from = fact
    BY <1>0, <1>10 DEF ListParts, WorkRecord
  <2>2. UNCHANGED <<holder, shown>> /\ work[w].family \in Families
    BY <1>10, AtWork DEF ListParts, locks
  <2>3. InOrder(work'[w], shown'[work'[w].family])
    BY <1>0, <2>1, <2>2 DEF InOrder, ShownKnown
  <2>4. ~lost => Served(w)'
    BY <1>0, <1>10, <2>1, <2>2, <2>3 DEF Served, ListParts
  <2>5. QED
    BY <1>2, <2>1, <2>2, <2>4
<1>11. ASSUME ReadPart(w)
       PROVE  InTurn'
  <2>1. PICK i \in work[w].left, x \in Readable(w) :
          work' = [work EXCEPT ![w].step = "publish", ![w].part = i,
                               ![w].read = x]
    BY <1>11 DEF ReadPart
  <2>2. /\ work'[w].step = "publish"
        /\ work'[w].family = work[w].family
        /\ work'[w].from = work[w].from
        /\ work'[w].left = work[w].left
        /\ work'[w].out = work[w].out
        /\ work'[w].read = x
    BY <1>0, <2>1 DEF WorkRecord
  <2>3. UNCHANGED <<holder, shown>>
    BY <1>11 DEF ReadPart, locks
  <2>4. AtLeast(x, work[w].from) /\ AtLeast(fact, x)
    BY DEF Readable
  <2>5. ShownKnown'
    BY <1>0, <1>1, <2>2, <2>3, <2>4 DEF ShownKnown, AtLeast
  <2>6. ASSUME ~lost PROVE Served(w)'
    <3>1. work[w].step = "build" /\ Served(w)
      BY <1>0, <1>11, <2>6 DEF ReadPart
    <3>2. QED
      BY <2>2, <2>3, <2>4, <3>1 DEF Served, InOrder
  <2>7. ASSUME ~lost, NEW v \in Workers \ {w} PROVE Served(v)'
    BY <1>0, <1>1, <2>3, <2>7, OthersServed
  <2>8. QED
    BY <1>1, <2>5, <2>6, <2>7 DEF InTurn
<1>12. ASSUME PublishPart(w)
       PROVE  InTurn'
  <2> DEFINE r == work[w]
             f == r.family
             i == r.part
  <2>1. /\ r \in WorkRecord /\ f \in Families /\ i \in r.left
        /\ i \in Parts /\ r.step = "publish"
    BY <1>12, AtWork DEF PublishPart, TypeOK, WorkRecord
  <2>2. /\ work'[w] = AfterPart(r)
        /\ UNCHANGED holder
        /\ shown' = [shown EXCEPT ![f][i] = r.read]
    BY <1>0, <1>12 DEF PublishPart, locks
  <2>3. /\ AfterPart(r).step = "build"
        /\ AfterPart(r).family = f
        /\ AfterPart(r).from = r.from
        /\ AfterPart(r).left = r.left \ {i}
        /\ AfterPart(r).out = [r.out EXCEPT ![i] = r.read]
        /\ r.out \in [Parts -> Facts]
    <3> HIDE DEF r
    <3>1. QED
      BY <2>1 DEF AfterPart, WorkRecord
  <2>4. /\ shown'[f][i] = r.read
        /\ \A j \in Parts \ {i} : shown'[f][j] = shown[f][j]
        /\ \A g \in Families \ {f} : shown'[g] = shown[g]
    <3> HIDE DEF r, f, i
    <3>1. QED
      BY <1>0, <2>1, <2>2
  <2>5. AtLeast(fact, r.read)
    BY <1>0, <2>1 DEF ShownKnown
  <2> HIDE DEF r, f, i
  <2>6. ShownKnown'
    <3>1. \A g \in Families, j \in Parts : AtLeast(fact, shown'[g][j])
      BY <1>0, <2>1, <2>4, <2>5 DEF ShownKnown
    <3>2. \A v \in Workers : work'[v].step = "publish" => AtLeast(fact, work'[v].read)
      BY <1>0, <1>1, <2>2, <2>3 DEF ShownKnown
    <3>3. QED
      BY <1>1, <3>1, <3>2 DEF ShownKnown, AtLeast
  <2>7. ASSUME ~lost PROVE Served(w)'
    <3>1. holder[f] = w /\ InOrder(r, shown[f])
      BY <1>0, <2>1, <2>7 DEF Served, r, f
    <3>2. InOrder(AfterPart(r), shown'[f])
      <4>1. r.left \subseteq Parts
        BY <2>1 DEF WorkRecord
      <4>2. \A j \in r.left \ {i} : AtLeast(r.from, shown'[f][j])
        BY <2>4, <3>1, <4>1 DEF InOrder
      <4>3. \A j \in Parts \ (r.left \ {i}) : shown'[f][j] = [r.out EXCEPT ![i] = r.read][j]
        BY <2>1, <2>3, <2>4, <3>1 DEF InOrder
      <4>4. QED
        BY <2>3, <4>2, <4>3 DEF InOrder
    <3>3. QED
      BY <2>2, <2>3, <3>1, <3>2 DEF Served
  <2>8. ASSUME ~lost, NEW v \in Workers \ {w} PROVE Served(v)'
    <3>1. work[v].step # "idle" => shown'[work[v].family] = shown[work[v].family]
      <4>1. ASSUME work[v].step # "idle"
            PROVE  work[v].family \in Families \ {f}
        BY <1>0, <2>1, <2>8, <4>1, AtWork, ServedApart DEF r, f
      <4>2. QED
        BY <2>4, <4>1
    <3>2. QED
      BY <1>0, <1>1, <2>2, <2>8, <3>1, OthersServed
  <2>9. QED
    BY <1>1, <2>6, <2>7, <2>8 DEF InTurn
<1>13. ASSUME Complete(w) \/ Defer(w) \/ StopWork(w)
       PROVE  InTurn'
  BY <1>3, <1>13 DEF Complete, Defer, StopWork
<1>14. QED
  BY <1>5, <1>6, <1>8, <1>9, <1>10, <1>11, <1>12, <1>13 DEF Step

LEMMA InTurnKept == TypeOK /\ TypeOK' /\ InTurn /\ [Next]_vars => InTurn'
<1> SUFFICES ASSUME TypeOK, TypeOK', InTurn, [Next]_vars PROVE InTurn'
  OBVIOUS
<1>1. ASSUME NEW w \in Workers,
             \/ \E f \in Families : LockFamily(w, f)
             \/ Step(w) \/ RetryBuild(w) \/ Defer(w) \/ StopWork(w)
      PROVE  InTurn'
  BY <1>1, WorkKeepsTurn
\* the other steps show nothing and move no worker; facts only grow
<1>2. ASSUME UNCHANGED <<work, shown>>, AtLeast(fact', fact)
      PROVE  ShownKnown'
  <2>1. fact \in Facts /\ fact' \in Facts
    BY DEF TypeOK
  <2>2. \A f \in Families, i \in Parts : AtLeast(fact', shown[f][i])
    BY <1>2, <2>1, AtLeastTransitive DEF TypeOK, InTurn, ShownKnown
  <2>3. \A w \in Workers : work[w].step = "publish" => AtLeast(fact', work[w].read)
    BY <1>2, <2>1, AtLeastTransitive DEF TypeOK, InTurn, ShownKnown, WorkRecord
  <2>4. QED
    BY <1>2, <2>2, <2>3 DEF ShownKnown, AtLeast
<1>3. ASSUME UNCHANGED fact PROVE AtLeast(fact', fact)
  BY <1>3 DEF AtLeast, TypeOK, Facts
<1>4. ASSUME UNCHANGED <<work, shown, lost>>, AtLeast(fact', fact),
             \A v \in Workers, f \in Families : holder[f] = v => holder'[f] = v
      PROVE  InTurn'
  <2>1. ASSUME ~lost, NEW v \in Workers PROVE Served(v)'
    BY <1>4, <2>1, OthersServed DEF InTurn
  <2>2. QED
    BY <1>2, <1>4, <2>1 DEF InTurn
<1>5. ASSUME NEW c \in Collectors, EndRun(c)
      PROVE  \A v \in Workers, f \in Families : holder[f] = v => holder'[f] = v
  BY <1>5 DEF EndRun, Unlock
<1>6. ASSUME NEW c \in Collectors, NEW s \in Sources, BeginRun(c, s)
      PROVE  InTurn'
  BY <1>3, <1>4, <1>6 DEF BeginRun
<1>7. ASSUME NEW c \in Collectors, Normalize(c)
      PROVE  InTurn'
  <2>1. run[c].source \in Sources /\ fact \in [Sources -> Nat]
    BY <1>7 DEF Normalize, TypeOK, Facts
  <2>2. AtLeast(fact', fact)
    BY <1>7, <2>1 DEF Normalize, AtLeast
  <2>3. QED
    BY <1>4, <1>7, <2>2 DEF Normalize, locks
<1>8. ASSUME NEW c \in Collectors, MarkDirty(c) \/ StopRun(c)
      PROVE  InTurn'
  BY <1>3, <1>4, <1>5, <1>8 DEF MarkDirty, StopRun
<1>9. ASSUME NEW p \in Fragile, LoseLocks(p)
      PROVE  InTurn'
  BY <1>2, <1>3, <1>9 DEF LoseLocks, InTurn
<1>10. ASSUME NEW f \in Families, Ripen(f)
      PROVE  InTurn'
  BY <1>3, <1>4, <1>10 DEF Ripen, locks
<1>11. CASE UNCHANGED vars
  BY <1>3, <1>4, <1>11 DEF vars, locks
<1>12. QED
  BY <1>1, <1>6, <1>7, <1>8, <1>9, <1>10, <1>11 DEF Next, Collect

LEMMA InTurnInvariant == Spec => []InTurn
<1>1. Init => InTurn
  <2> SUFFICES ASSUME Init PROVE InTurn
    OBVIOUS
  <2>1. \A w \in Workers : work[w].step = "idle"
    BY DEF Init, Resting
  <2>2. ShownKnown
    BY <2>1 DEF Init, ShownKnown, AtLeast, NoFacts
  <2>3. QED
    BY <2>1, <2>2 DEF InTurn, Served
<1>2. QED
  BY <1>1, InTurnKept, TypeCorrect, PTL DEF Spec

\* the part a worker publishes is no older than what readers have
LEMMA PublishesForward ==
  ASSUME TypeOK, InTurn, ~lost, NEW w \in Workers, PublishPart(w)
  PROVE  \A f \in Families, i \in Parts : AtLeast(shown'[f][i], shown[f][i])
<1> DEFINE r == work[w]
<1>1. /\ r \in WorkRecord /\ r.family \in Families /\ r.part \in r.left
      /\ r.part \in Parts /\ r.step = "publish"
  BY AtWork DEF PublishPart, TypeOK, WorkRecord
<1>2. InOrder(r, shown[r.family])
  BY <1>1 DEF InTurn, Served
<1>3. /\ r.read \in Facts /\ r.from \in Facts
      /\ shown \in [Families -> [Parts -> Facts]]
  BY <1>1 DEF WorkRecord, TypeOK
<1>4. shown' = [shown EXCEPT ![r.family][r.part] = r.read]
  BY DEF PublishPart
<1> HIDE DEF r
<1>5. AtLeast(r.read, shown[r.family][r.part])
  <2>1. AtLeast(r.read, r.from) /\ AtLeast(r.from, shown[r.family][r.part])
    BY <1>1, <1>2 DEF InOrder
  <2>2. shown[r.family][r.part] \in Facts
    BY <1>1, <1>3
  <2>3. QED
    BY <1>3, <2>1, <2>2, AtLeastTransitive
<1>6. TAKE f \in Families, i \in Parts
<1>7. CASE f = r.family /\ i = r.part
  BY <1>1, <1>3, <1>4, <1>5, <1>7
<1>8. CASE ~(f = r.family /\ i = r.part)
  <2>1. shown'[f][i] = shown[f][i] /\ shown[f][i] \in Facts
    BY <1>1, <1>3, <1>4, <1>8
  <2>2. QED
    BY <2>1 DEF AtLeast, Facts
<1>9. QED
  BY <1>7, <1>8

\* The steps of one worker, or of anybody else, that publish nothing.
LEMMA OnlyWorkersPublish ==
  ASSUME TypeOK, [Next]_vars
  PROVE  UNCHANGED shown \/ \E w \in Workers : PublishPart(w)
<1>1. ASSUME NEW w \in Workers,
             \/ \E f \in Families : LockFamily(w, f)
             \/ Step(w) \/ RetryBuild(w) \/ Defer(w) \/ StopWork(w)
      PROVE  UNCHANGED shown \/ \E v \in Workers : PublishPart(v)
  BY <1>1, WorkIsLocal
<1>2. QED
  BY <1>1
  DEF Next, Collect, BeginRun, Normalize, MarkDirty, StopRun, LoseLocks, Ripen, vars

\* While no lock connection is lost, no reader sees a part go back to older
\* facts, however builds, failures and changes of leader follow each other.
THEOREM ReadersNeverGoBack == Spec => NeverOlder
<1> DEFINE Forward == ~lost => \A f \in Families, i \in Parts :
                                 AtLeast(shown'[f][i], shown[f][i])
<1>1. TypeOK /\ InTurn /\ [Next]_vars => Forward
  <2> SUFFICES ASSUME TypeOK, InTurn, [Next]_vars PROVE Forward
    OBVIOUS
  <2>1. CASE UNCHANGED shown
    BY <2>1 DEF TypeOK, AtLeast, Facts
  <2>2. ASSUME NEW w \in Workers, PublishPart(w) PROVE Forward
    BY <2>2, PublishesForward
  <2>3. QED
    BY <2>1, <2>2, OnlyWorkersPublish
<1>2. TypeOK /\ InTurn /\ [Next]_vars => [Forward]_vars
  BY <1>1
<1>3. QED
  BY <1>2, TypeCorrect, InTurnInvariant, PTL DEF Spec, NeverOlder

\* A step that turns no family clean and marks no clean one.
LEMMA CleanStaysShown ==
  ASSUME TypeOK, TypeOK', CleanIsShown, lost' = lost,
         \A f \in Families : status'[f] = "clean" =>
                               status[f] = "clean" /\ marked'[f] = marked[f],
         ~lost => \A f \in Families, i \in Parts :
                    AtLeast(shown'[f][i], shown[f][i])
  PROVE  CleanIsShown'
<1> SUFFICES ASSUME ~lost, NEW f \in Families, status'[f] = "clean", NEW i \in Parts
             PROVE  AtLeast(shown'[f][i], marked[f])
  BY DEF CleanIsShown, AtLeast
<1>1. /\ shown'[f][i] \in Facts /\ shown[f][i] \in Facts /\ marked[f] \in Facts
      /\ AtLeast(shown[f][i], marked[f])
  BY DEF TypeOK, CleanIsShown
<1>2. QED
  BY <1>1, AtLeastTransitive

\* As long as no lock connection is lost, a family that is called clean serves
\* in every part what it was last marked with: the build that turned it clean
\* had read it (CompletionsAreFresh), nobody else has published since it began
\* (the family lock), and later builds only go forward.
THEOREM CleanFamiliesAreShown == Spec => []CleanIsShown
<1>1. Init => CleanIsShown
  BY DEF Init, CleanIsShown
<1>2. TypeOK /\ TypeOK' /\ InTurn /\ CompletionIsFresh /\ CleanIsShown /\ [Next]_vars
        => CleanIsShown'
  <2> SUFFICES ASSUME TypeOK, TypeOK', InTurn, CompletionIsFresh, CleanIsShown,
                      [Next]_vars
               PROVE  CleanIsShown'
    OBVIOUS
  <2>0. UNCHANGED shown => \A f \in Families, i \in Parts :
                             AtLeast(shown'[f][i], shown[f][i])
    BY DEF TypeOK, AtLeast, Facts
  <2>1. ASSUME UNCHANGED <<status, marked, shown, lost>> PROVE CleanIsShown'
    BY <2>0, <2>1, CleanStaysShown
  <2>2. ASSUME NEW w \in Workers, PublishPart(w) PROVE CleanIsShown'
    <3>1. UNCHANGED <<status, marked, lost>>
      BY <2>2 DEF PublishPart, request
    <3>2. QED
      BY <2>2, <3>1, PublishesForward, CleanStaysShown
  <2>3. ASSUME NEW w \in Workers, Claim(w) \/ Defer(w) PROVE CleanIsShown'
    <3>1. UNCHANGED <<marked, shown, lost>>
      BY <2>3 DEF Claim, Defer
    <3>2. \A f \in Families : status'[f] = "clean" => status[f] = "clean"
      BY <2>3 DEF Claim, Defer, TypeOK
    <3>3. QED
      BY <2>0, <3>1, <3>2, CleanStaysShown
  <2>4. ASSUME NEW c \in Collectors, MarkDirty(c) PROVE CleanIsShown'
    <3>1. UNCHANGED <<shown, lost>>
      BY <2>4 DEF MarkDirty
    <3>2. \A f \in Families : status'[f] = "clean" =>
                                status[f] = "clean" /\ marked'[f] = marked[f]
      BY <2>4 DEF MarkDirty
    <3>3. QED
      BY <2>0, <3>1, <3>2, CleanStaysShown
  <2>5. ASSUME NEW w \in Workers, Complete(w) PROVE CleanIsShown'
    <3> DEFINE f == work[w].family
    <3>1. /\ f \in Families /\ work[w].step = "build" /\ work[w].left = {}
          /\ UNCHANGED <<marked, shown, lost>>
      BY <2>5, AtWork DEF Complete
    <3>2. CASE Matches(w)
      <4>1. \A g \in Families \ {f} : status'[g] = status[g]
        BY <2>5, <3>2 DEF Complete, TypeOK
      <4>2. \A i \in Parts : AtLeast(work[w].out[i], marked[f])
        BY <3>1, <3>2 DEF CompletionIsFresh
      <4>3. ~lost => \A i \in Parts : shown[f][i] = work[w].out[i]
        BY <3>1 DEF InTurn, Served, InOrder
      <4>4. QED
        BY <3>1, <4>1, <4>2, <4>3 DEF CleanIsShown, AtLeast
    <3>3. CASE ~Matches(w)
      BY <2>1, <2>5, <3>1, <3>3 DEF Complete
    <3>4. QED
      BY <3>2, <3>3
  <2>6. ASSUME NEW p \in Fragile, LoseLocks(p) PROVE CleanIsShown'
    BY <2>6 DEF LoseLocks, CleanIsShown
  <2>7. CASE \E w \in Workers :
               \/ \E f \in Families : LockFamily(w, f)
               \/ LockHeavy(w) \/ ListParts(w) \/ ReadPart(w)
               \/ RetryBuild(w) \/ StopWork(w)
    BY <2>1, <2>7 DEF LockFamily, LockHeavy, ListParts, ReadPart, RetryBuild,
                      StopWork, request
  <2>8. CASE \/ \E c \in Collectors :
                  \/ \E s \in Sources : BeginRun(c, s)
                  \/ Normalize(c) \/ StopRun(c)
             \/ \E f \in Families : Ripen(f)
             \/ UNCHANGED vars
    BY <2>1, <2>8 DEF BeginRun, Normalize, StopRun, Ripen, vars, request
  <2>9. QED
    BY <2>2, <2>3, <2>4, <2>5, <2>6, <2>7, <2>8 DEF Next, Step, Collect
<1>3. QED
  BY <1>1, <1>2, TypeCorrect, InTurnInvariant, CompletionsAreFresh, PTL DEF Spec

-----------------------------------------------------------------------------
\* A family that was marked and may be built at once is never pushed back into
\* a backoff: only the holder of the current claim can defer.
THEOREM FreshMarksNotDelayed == Spec => FreshMarkNotDelayed
<1> DEFINE Due(f) == status[f] = "pending" /\ ripe[f]
           Kept(f) == Due(f) => ~(status'[f] = "pending" /\ ~ripe'[f])
<1>1. TypeOK /\ [Next]_vars => \A f \in Families : Kept(f)
  <2> SUFFICES ASSUME TypeOK, [Next]_vars, NEW f \in Families, Due(f)
               PROVE  ~(status'[f] = "pending" /\ ~ripe'[f])
    OBVIOUS
  <2>0. status \in [Families -> {"absent", "pending", "processing", "clean"}]
          /\ ripe \in [Families -> BOOLEAN]
    BY DEF TypeOK
  <2>1. CASE UNCHANGED <<status, ripe>>
    BY <2>1
  <2>2. ASSUME NEW w \in Workers, Claim(w)
        PROVE  ~(status'[f] = "pending" /\ ~ripe'[f])
    <3>1. work[w].family \in Families
      BY <2>2, AtWork DEF Claim
    <3>2. CASE Claimable(work[w].family)
      <4>1. /\ status' = [status EXCEPT ![work[w].family] = "processing"]
            /\ ripe' = [ripe EXCEPT ![work[w].family] = FALSE]
        BY <2>2, <3>2 DEF Claim
      <4>2. CASE f = work[w].family
        <5>1. status'[f] = "processing"
          BY <2>0, <4>1, <4>2
        <5>2. QED
          BY <5>1
      <4>3. CASE f # work[w].family
        <5>1. ripe'[f] = ripe[f]
          BY <2>0, <3>1, <4>1, <4>3, Zenon
        <5>2. QED
          BY <5>1
      <4>4. QED
        BY <4>2, <4>3
    <3>3. CASE ~Claimable(work[w].family)
      BY <2>1, <2>2, <3>3 DEF Claim
    <3>4. QED
      BY <3>2, <3>3
  <2>3. ASSUME NEW w \in Workers, Complete(w) \/ Defer(w)
        PROVE  ~(status'[f] = "pending" /\ ~ripe'[f])
    <3>1. CASE Matches(w)
      <4>1. f # work[w].family
        BY <3>1 DEF Matches
      <4>2. ripe' = [ripe EXCEPT ![work[w].family] = FALSE]
        BY <2>3, <3>1 DEF Complete, Defer
      <4>3. ripe'[f] = ripe[f]
        BY <2>0, <4>1, <4>2, Zenon
      <4>4. QED
        BY <4>3
    <3>2. CASE ~Matches(w)
      BY <2>1, <2>3, <3>2 DEF Complete, Defer
    <3>3. QED
      BY <3>1, <3>2
  <2>4. ASSUME NEW c \in Collectors, MarkDirty(c)
        PROVE  ~(status'[f] = "pending" /\ ~ripe'[f])
    <3>1. ripe'[f] = (f \in FamiliesOf[run[c].source] \/ ripe[f])
      BY <2>4 DEF MarkDirty
    <3>2. QED
      BY <3>1
  <2>5. ASSUME NEW g \in Families, Ripen(g)
        PROVE  ~(status'[f] = "pending" /\ ~ripe'[f])
    <3>1. ripe' = [ripe EXCEPT ![g] = TRUE]
      BY <2>5 DEF Ripen
    <3>2. ripe'[f] = TRUE
      BY <2>0, <3>1, Zenon
    <3>3. QED
      BY <3>2
  <2>6. CASE \E w \in Workers :
               \/ \E g \in Families : LockFamily(w, g)
               \/ LockHeavy(w) \/ ListParts(w) \/ ReadPart(w) \/ PublishPart(w)
               \/ RetryBuild(w) \/ StopWork(w)
    BY <2>1, <2>6
    DEF LockFamily, LockHeavy, ListParts, ReadPart, PublishPart, RetryBuild, StopWork,
        request
  <2>7. CASE \E c \in Collectors :
               \/ \E s \in Sources : BeginRun(c, s)
               \/ Normalize(c) \/ StopRun(c)
    BY <2>1, <2>7 DEF BeginRun, Normalize, StopRun, request
  <2>8. CASE \E p \in Fragile : LoseLocks(p)
    BY <2>1, <2>8 DEF LoseLocks, request
  <2>9. CASE UNCHANGED vars
    BY <2>1, <2>9 DEF vars
  <2>10. QED
    BY <2>2, <2>3, <2>4, <2>5, <2>6, <2>7, <2>8, <2>9 DEF Next, Step, Collect
<1>2. TypeOK /\ [Next]_vars => [\A f \in Families : Kept(f)]_vars
  BY <1>1
<1>3. QED
  BY <1>2, TypeCorrect, PTL DEF Spec, FreshMarkNotDelayed

=============================================================================
