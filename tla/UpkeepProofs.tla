---------------------------- MODULE UpkeepProofs ----------------------------
(*****************************************************************************)
(* Proofs about the collection of a source, the cache that serves readers    *)
(* and the gate that measures the disk; and about the components that        *)
(* MCUpkeep puts side by side.                                               *)
(*****************************************************************************)
EXTENDS MCUpkeep, ObservationRetentionProofs, NormalizationProofs, SequenceTheorems,
        NaturalsInduction, WellFoundedInduction, TLAPS

-----------------------------------------------------------------------------
(*****************************************************************************)
(* SourceFetch: what a fetch leaves out, for any pages and any budgets.      *)
(*****************************************************************************)

(* The operators. *)

LEMMA FetchNumbers ==
  /\ Ops \in Nat \ {0} /\ PageLimit \in Nat \ {0} /\ MaxRequests \in Nat \ {0}
  /\ ByteBudget \in Nat \ {0} /\ MaxSeconds \in Nat \ {0} /\ MaxRecords \in Nat \ {0}
  /\ MaxHops \in Nat \ {0} /\ OperationsPerRun \in Nat \ {0}
  /\ Pages \subseteq Nat \ {0} /\ Slots \subseteq Nat
  BY FetchAssumption

\* A set of numbers has a least member.
LEMMA LeastNumber ==
  ASSUME NEW S \in SUBSET Nat, S # {}
  PROVE  Min(S) \in S /\ \A y \in S : Min(S) <= y
<1> DEFINE R == {p \in Nat \X Nat : p[1] < p[2]}
<1>1. IsWellFoundedOn(R, Nat)
  BY NatLessThanWellFounded DEF OpToRel
<1> HIDE DEF R
<1>2. PICK m \in S : \A n \in S : ~(<<n, m>> \in R)
  BY <1>1, WFMin
<1>3. ASSUME NEW n \in S PROVE m <= n
  <2>1. n \in Nat /\ m \in Nat /\ ~(<<n, m>> \in R)
    BY <1>2
  <2>2. ~(n < m)
    BY <2>1 DEF R
  <2>3. QED
    BY <2>1, <2>2
<1>4. QED
  BY <1>3 DEF Min

LEMMA LesserOfTwo ==
  ASSUME NEW a \in Nat, NEW b \in Nat
  PROVE  Min({a, b}) = IF a <= b THEN a ELSE b
<1> DEFINE m == IF a <= b THEN a ELSE b
<1>1. m \in {a, b} /\ \A y \in {a, b} : m <= y
  OBVIOUS
<1>2. \A x \in {a, b} : (\A y \in {a, b} : x <= y) => x = m
  OBVIOUS
<1> HIDE DEF m
<1>3. Min({a, b}) = m
  BY <1>1, <1>2 DEF Min
<1>4. QED
  BY <1>3 DEF m

LEMMA GreaterOfTwo ==
  ASSUME NEW a \in Int, NEW b \in Int
  PROVE  Max({a, b}) = IF b <= a THEN a ELSE b
<1> DEFINE m == IF b <= a THEN a ELSE b
<1>1. m \in {a, b} /\ \A y \in {a, b} : m >= y
  OBVIOUS
<1>2. \A x \in {a, b} : (\A y \in {a, b} : x >= y) => x = m
  OBVIOUS
<1> HIDE DEF m
<1>3. Max({a, b}) = m
  BY <1>1, <1>2 DEF Max
<1>4. QED
  BY <1>3 DEF m

\* Every slot of the rotation selects some operations.
LEMMA BatchHasOperations ==
  ASSUME NEW slot \in Nat
  PROVE  OperationBatch(slot) # {} /\ OperationBatch(slot) \subseteq 1..Ops
<1> DEFINE count == (Ops + OperationsPerRun - 1) \div OperationsPerRun
           start == (slot % count) * OperationsPerRun
<1>1. count \in Nat \ {0} /\ OperationsPerRun * count <= Ops + OperationsPerRun - 1
  BY FetchNumbers
<1>2. count = BatchCount
  BY DEF BatchCount
<1> HIDE DEF count
<1>3. slot % count \in 0..(count - 1)
  BY <1>1
<1>4. start \in Nat /\ start < Ops
  <2>1. \A m \in 0..(count - 1) : m * OperationsPerRun \in Nat /\ m * OperationsPerRun < Ops
    BY <1>1, FetchNumbers
  <2>2. QED
    BY <1>3, <2>1
<1>5. OperationBatch(slot) = {o \in 1..Ops : start < o /\ o <= start + OperationsPerRun}
  BY <1>2 DEF OperationBatch
<1> HIDE DEF start
<1>6. start + 1 \in OperationBatch(slot)
  BY <1>4, <1>5, FetchNumbers
<1>7. QED
  BY <1>5, <1>6

\* The window of an operation lies within its pages.
LEMMA WindowWithin ==
  ASSUME NEW slot \in Nat, NEW n \in Nat \ {0}
  PROVE  /\ WindowStart(slot, n) \in Nat \ {0}
         /\ WindowEnd(slot, n) \in Nat \ {0} /\ WindowEnd(slot, n) <= n
<1>1. WindowSize \in Nat \ {0}
  BY FetchNumbers, GreaterOfTwo DEF WindowSize
<1>2. WindowCount(n) \in Nat \ {0}
  BY <1>1 DEF WindowCount
<1>3. slot % WindowCount(n) \in Nat
  BY <1>2
<1>4. WindowStart(slot, n) \in Nat \ {0}
  <2>1. \A m \in Nat : m * WindowSize + 1 \in Nat \ {0}
    BY <1>1
  <2>2. QED
    BY <1>3, <2>1 DEF WindowStart
<1>5. WindowEnd(slot, n) = Min({n, WindowStart(slot, n) + WindowSize - 1})
  BY DEF WindowEnd
<1>6. WindowStart(slot, n) + WindowSize - 1 \in Nat \ {0}
  BY <1>1, <1>4
<1>7. QED
  BY <1>4, <1>5, <1>6, LesserOfTwo

-----------------------------------------------------------------------------
(* The inductive invariant. *)

Budgets == [requests : 0..MaxRequests, bytes : 0..ByteBudget,
            seconds : 0..MaxSeconds, records : 0..MaxRecords]
Cursors == [op : 0..Ops, page : Nat \ {0}, end : Nat, got : Nat, hop : 1..MaxHops, try : 1..3]
FetchTyped ==
  /\ server \in [1..Ops -> [pages : Pages, declares : BOOLEAN]]
  /\ plan \in [ops : SUBSET (1..Ops), rotate : BOOLEAN, windowed : BOOLEAN, slot : Nat]
  /\ left \in Budgets
  /\ at \in {"next", "send", "wait", "page", "done"}
  /\ cur \in Cursors
  /\ items \subseteq (1..Ops) \X Nat
  /\ errors \subseteq {"auth", "http", "budget", "limit", "pages", "drift"}
  /\ notices \subseteq 1..Ops

\* What a run without an error has to store of an operation.
StartOf(o) == IF o \in notices THEN WindowStart(plan.slot, server[o].pages) ELSE 1
EndOf(o) == IF o \in notices THEN WindowEnd(plan.slot, server[o].pages) ELSE server[o].pages
Stored(o, from, to) == \A page \in Nat : from <= page /\ page <= to => <<o, page>> \in items
Covered(o) == Stored(o, StartOf(o), EndOf(o))

\* The operations are taken in order; the one at work has all its pages, or all
\* of its window, up to the one that is asked for.
FetchProgress ==
  /\ plan.ops = IF plan.rotate THEN OperationBatch(plan.slot) ELSE 1..Ops
  /\ \A o \in notices : o <= cur.op
  /\ errors = {} =>
       /\ \A o \in plan.ops : o < cur.op => Covered(o)
       /\ at = "next" => \A o \in plan.ops : o = cur.op => Covered(o)
       /\ at = "done" => \A o \in plan.ops : Covered(o)
  /\ at \in {"send", "wait", "page"} =>
       /\ cur.op \in plan.ops
       /\ cur.end # NoEnd <=> cur.op \in notices
       /\ cur.end # NoEnd => cur.end = EndOf(cur.op)
       /\ Stored(cur.op, StartOf(cur.op), cur.page - 1)

FetchSafe == FetchTyped /\ FetchProgress

LEMMA FetchInitially == FetchInit => FetchSafe
<1> SUFFICES ASSUME FetchInit PROVE FetchSafe
  OBVIOUS
<1>1. PICK s \in Slots, r \in BOOLEAN, w \in BOOLEAN :
        plan = [ops |-> IF r /\ Ops > 1 THEN OperationBatch(s) ELSE 1..Ops,
                rotate |-> r /\ Ops > 1, windowed |-> w, slot |-> s]
  BY DEF FetchInit
<1>2. s \in Nat /\ OperationBatch(s) \subseteq 1..Ops
  BY FetchNumbers, BatchHasOperations
<1>3. (r /\ Ops > 1) \in BOOLEAN
  OBVIOUS
<1>4. plan \in [ops : SUBSET (1..Ops), rotate : BOOLEAN, windowed : BOOLEAN, slot : Nat]
      /\ plan.ops = IF plan.rotate THEN OperationBatch(plan.slot) ELSE 1..Ops
  BY <1>1, <1>2, <1>3
<1>5. /\ left \in Budgets /\ at = "next" /\ items = {} /\ errors = {} /\ notices = {}
      /\ cur = [op |-> 0, page |-> 1, end |-> NoEnd, got |-> 0, hop |-> 1, try |-> 1]
      /\ server \in [1..Ops -> [pages : Pages, declares : BOOLEAN]]
  BY FetchNumbers DEF FetchInit, Budgets, Start
<1>6. FetchTyped
  BY <1>4, <1>5, FetchNumbers DEF FetchTyped, NoEnd, Cursors
<1>7. FetchProgress
  <2>1. \A o \in plan.ops : ~(o < cur.op) /\ o # cur.op
    BY <1>4, <1>5
  <2>2. QED
    BY <1>4, <1>5, <2>1 DEF FetchProgress
<1>8. QED
  BY <1>6, <1>7 DEF FetchSafe

-----------------------------------------------------------------------------
(* The steps.  A step that stores nothing and stays with its operation keeps *)
(* what is stored.                                                           *)

LEMMA StoredIsKept ==
  ASSUME items \subseteq items', NEW o, NEW from, NEW to, Stored(o, from, to)
  PROVE  Stored(o, from, to)'
  BY DEF Stored

\* A request that is refused, fails or is tried again.
LEMMA RequestKeepsProgress ==
  ASSUME FetchSafe, at \in {"send", "wait"},
         UNCHANGED <<server, plan, items, notices>>,
         cur'.op = cur.op, cur'.page = cur.page, cur'.end = cur.end,
         \/ UNCHANGED errors /\ at' \in {"send", "wait", "page"}
         \/ errors' # {} /\ at' \in {"next", "done"}
  PROVE  FetchProgress'
<1>1. \A o : Covered(o)' <=> Covered(o)
  BY DEF Covered, StartOf, EndOf, Stored
<1>2. QED
  BY <1>1 DEF FetchSafe, FetchProgress, StartOf, EndOf, Stored

LEMMA RequestSteps ==
  ASSUME FetchSafe, RefuseRequest \/ Redirected \/ Rejected \/ Transient \/ Wait \/ Answered
  PROVE  FetchSafe'
<1>0. FetchTyped
  BY DEF FetchSafe
<1>1. at \in {"send", "wait"} /\ UNCHANGED <<server, plan, items, notices>>
  BY DEF RefuseRequest, Redirected, Rejected, Transient, Wait, Answered
<1>2. \/ UNCHANGED errors /\ at' \in {"send", "wait", "page"}
      \/ /\ errors' # {} /\ at' \in {"next", "done"}
         /\ errors' \subseteq {"auth", "http", "budget", "limit", "pages", "drift"}
  BY <1>0, <1>1 DEF RefuseRequest, Redirected, Rejected, Transient, Wait, Answered, Fail, FetchTyped
<1>3. /\ cur' \in Cursors
      /\ cur'.op = cur.op /\ cur'.page = cur.page /\ cur'.end = cur.end
  <2>1. CASE UNCHANGED cur
    BY <1>0, <2>1 DEF FetchTyped
  <2>2. CASE cur.hop < MaxHops /\ cur' = [cur EXCEPT !.hop = @ + 1]
    <3>1. PICK c \in Cursors : c = cur
      BY <1>0 DEF FetchTyped
    <3>2. PICK new : new = [c EXCEPT !.hop = c.hop + 1]
      OBVIOUS
    <3>3. c.hop < MaxHops /\ cur' = new
      BY <2>2, <3>1, <3>2
    <3>4. new \in Cursors /\ new.op = c.op /\ new.page = c.page /\ new.end = c.end
      BY <3>2, <3>3, FetchNumbers DEF Cursors
    <3>5. QED
      BY <3>1, <3>3, <3>4
  <2>3. CASE \E attempts \in {2, 3} : cur.try < attempts /\ cur' = [cur EXCEPT !.try = @ + 1, !.hop = 1]
    <3>1. PICK c \in Cursors : c = cur
      BY <1>0 DEF FetchTyped
    <3>2. PICK new : new = [c EXCEPT !.try = c.try + 1, !.hop = 1]
      OBVIOUS
    <3>3. c.try < 3 /\ cur' = new
      BY <2>3, <3>1, <3>2 DEF Cursors
    <3>4. c.try + 1 \in 1..3 /\ 1 \in 1..MaxHops
      BY <3>3, FetchNumbers DEF Cursors
    <3>5. new \in Cursors /\ new.op = c.op /\ new.page = c.page /\ new.end = c.end
      BY <3>2, <3>4 DEF Cursors
    <3>6. QED
      BY <3>1, <3>3, <3>5
  <2>4. QED
    BY <2>1, <2>2, <2>3 DEF RefuseRequest, Redirected, Rejected, Transient, Wait, Answered
<1>4. left' \in Budgets
  <2>0. /\ left \in Budgets /\ MaxRequests \in Nat /\ ByteBudget \in Nat
        /\ MaxSeconds \in Nat /\ MaxRecords \in Nat
    BY <1>0, FetchNumbers DEF FetchTyped
  <2>1. CASE UNCHANGED left
    BY <2>0, <2>1
  <2>2. ASSUME CanSend
        PROVE  /\ Sent \in Budgets /\ Sent.seconds = left.seconds /\ Sent.bytes = left.bytes
               /\ left.seconds \in 1..MaxSeconds /\ left.bytes \in 0..ByteBudget
    BY <2>0, <2>2 DEF CanSend, Sent, Budgets
  <2>3. \A x \in Budgets : \A s, b : s \in 0..x.seconds /\ b \in 0..x.bytes =>
          [x EXCEPT !.seconds = x.seconds - s, !.bytes = x.bytes - b] \in Budgets
    <3> TAKE x \in Budgets
    <3> TAKE s, b
    <3> PICK new : new = [x EXCEPT !.seconds = x.seconds - s, !.bytes = x.bytes - b]
      OBVIOUS
    <3> SUFFICES ASSUME s \in 0..x.seconds, b \in 0..x.bytes PROVE new \in Budgets
      OBVIOUS
    <3>1. x.seconds - s \in 0..MaxSeconds /\ x.bytes - b \in 0..ByteBudget
      BY <2>0 DEF Budgets
    <3>2. QED
      BY <3>1 DEF Budgets
  <2>4. \A x \in Budgets : \A s : s \in 0..x.seconds => [x EXCEPT !.seconds = x.seconds - s] \in Budgets
    BY <2>0 DEF Budgets
  <2>5. CASE CanSend /\ left' = Sent
    BY <2>2, <2>5
  <2>6. CASE CanSend /\ Spent
    <3>1. Min({1, left.bytes}) = IF 1 <= left.bytes THEN 1 ELSE left.bytes
      BY <2>2, <2>6, <2>0, LesserOfTwo
    <3>2. PICK s \in {0, 1}, b \in 0..Min({1, left.bytes}) :
            left' = [Sent EXCEPT !.seconds = Sent.seconds - s, !.bytes = Sent.bytes - b]
      <4>1. PICK s \in {0, 1}, b \in 0..Min({1, left.bytes}) :
              left' = [Sent EXCEPT !.seconds = @ - s, !.bytes = @ - b]
        BY <2>6 DEF Spent
      <4>2. QED
        BY <4>1
    <3>3. s \in 0..Sent.seconds /\ b \in 0..Sent.bytes
      BY <2>2, <2>6, <3>1, <2>0
    <3>4. QED
      BY <2>2, <2>3, <2>6, <3>2, <3>3
  <2>7. CASE CanSend /\ \E s \in {0, 1} : left' = [Sent EXCEPT !.seconds = @ - s]
    BY <2>0, <2>2, <2>4, <2>7
  <2>8. CASE CanSend /\ \E s \in {0, 1} : ~(left.bytes < 1) /\
                 left' = [Sent EXCEPT !.seconds = @ - s, !.bytes = @ - 1]
    <3>1. PICK s \in {0, 1} : left' = [Sent EXCEPT !.seconds = Sent.seconds - s, !.bytes = Sent.bytes - 1]
      BY <2>8
    <3>2. s \in 0..Sent.seconds /\ 1 \in 0..Sent.bytes
      BY <2>0, <2>2, <2>8
    <3>3. QED
      BY <2>2, <2>3, <2>8, <3>1, <3>2
  <2>9. CASE \E s \in {0, 1} : ~(s >= left.seconds) /\ left' = [left EXCEPT !.seconds = @ - s]
    BY <2>0, <2>4, <2>9 DEF Budgets
  <2>a. QED
    BY <2>1, <2>5, <2>6, <2>7, <2>8, <2>9
    DEF RefuseRequest, Redirected, Rejected, Transient, Wait, Answered, SentOrNot
<1>5. FetchTyped'
  BY <1>0, <1>1, <1>2, <1>3, <1>4 DEF FetchTyped
<1>6. FetchProgress'
  BY <1>1, <1>2, <1>3, RequestKeepsProgress
<1>7. QED
  BY <1>5, <1>6 DEF FetchSafe

\* The next operation is the least one left: all below it are done.
LEMMA NextSteps == FetchSafe /\ NextOperation => FetchSafe'
<1> SUFFICES ASSUME FetchSafe, NextOperation PROVE FetchSafe'
  OBVIOUS
<1>0. FetchTyped /\ FetchProgress
  BY DEF FetchSafe
<1> DEFINE rest == {o \in plan.ops : o > cur.op}
<1>1. /\ at = "next" /\ UNCHANGED <<server, plan, left, items, notices>>
      /\ \/ rest = {} /\ at' = "done" /\ UNCHANGED <<cur, errors>>
         \/ rest # {} /\ at' = "done" /\ errors' = errors \union {"limit"} /\ UNCHANGED cur
         \/ rest # {} /\ cur' = Start(Min(rest)) /\ at' = "send" /\ UNCHANGED errors
  BY DEF NextOperation
<1>2. plan.ops \subseteq 1..Ops /\ cur.op \in 0..Ops /\ Ops \in Nat
  BY <1>0, FetchNumbers DEF FetchTyped, Cursors
<1>3. \A o : Covered(o)' <=> Covered(o)
  BY <1>1 DEF Covered, StartOf, EndOf, Stored
<1>4. errors = {} => \A o \in plan.ops : o <= cur.op => Covered(o)
  BY <1>0, <1>1, <1>2 DEF FetchProgress
<1>5. CASE rest = {} /\ at' = "done" /\ UNCHANGED <<cur, errors>>
  <2>1. errors = {} => \A o \in plan.ops : Covered(o)
    BY <1>2, <1>4, <1>5
  <2>2. FetchTyped'
    BY <1>0, <1>1, <1>5 DEF FetchTyped
  <2>3. FetchProgress'
    BY <1>0, <1>1, <1>3, <1>5, <2>1 DEF FetchProgress
  <2>4. QED
    BY <2>2, <2>3 DEF FetchSafe
<1>6. CASE rest # {} /\ at' = "done" /\ errors' = errors \union {"limit"} /\ UNCHANGED cur
  <2>1. FetchTyped'
    BY <1>0, <1>1, <1>6 DEF FetchTyped
  <2>2. FetchProgress'
    BY <1>0, <1>1, <1>6 DEF FetchProgress
  <2>3. QED
    BY <2>1, <2>2 DEF FetchSafe
<1>7. CASE rest # {} /\ cur' = Start(Min(rest)) /\ at' = "send" /\ UNCHANGED errors
  <2>1. rest \in SUBSET Nat
    BY <1>2
  <2>2. PICK m : m = Min(rest)
    OBVIOUS
  <2>3. m \in rest /\ \A y \in rest : m <= y
    BY <1>7, <2>1, <2>2, LeastNumber
  <2>4. cur' = [op |-> m, page |-> 1, end |-> NoEnd, got |-> 0, hop |-> 1, try |-> 1]
    BY <1>7, <2>2 DEF Start
  <2>5. cur' \in Cursors /\ cur'.op = m /\ cur'.page = 1 /\ cur'.end = NoEnd
    BY <1>2, <2>3, <2>4, FetchNumbers DEF Cursors, NoEnd
  <2>6. FetchTyped'
    BY <1>0, <1>1, <1>7, <2>5 DEF FetchTyped
  <2>7. m > cur.op /\ m \in plan.ops /\ m \in Nat /\ m \notin notices
    BY <1>0, <1>2, <2>3 DEF FetchProgress
  <2>8. \A o \in notices' : o <= cur'.op
    <3>1. \A o \in notices : o <= cur.op /\ o \in Nat
      BY <1>0 DEF FetchProgress, FetchTyped
    <3>2. QED
      BY <1>1, <1>2, <2>5, <2>7, <3>1
  <2>9. errors' = {} => \A o \in plan.ops : o < cur'.op => Covered(o)'
    <3>1. ASSUME NEW o \in plan.ops, o < m PROVE o <= cur.op
      BY <1>2, <2>3, <2>7, <3>1
    <3>2. QED
      BY <1>3, <1>4, <1>7, <2>5, <3>1
  <2>a. Stored(cur.op, StartOf(cur.op), cur.page - 1)'
    <3>1. StartOf(m)' = 1
      BY <1>1, <2>7 DEF StartOf
    <3>2. Stored(m, 1, 0)'
      BY DEF Stored
    <3>3. StartOf(cur.op)' = StartOf(m)'
      BY <2>5 DEF StartOf
    <3>4. QED
      BY <2>5, <3>1, <3>2, <3>3 DEF Stored
  <2>b. FetchProgress'
    BY <1>0, <1>1, <1>7, <2>5, <2>7, <2>8, <2>9, <2>a DEF FetchProgress
  <2>c. QED
    BY <2>6, <2>b DEF FetchSafe
<1>8. QED
  BY <1>1, <1>5, <1>6, <1>7

\* The pages of the operation at work, its window if it is to have one.
LEMMA WindowOpens ==
  ASSUME FetchSafe, at = "page", Windowing
  PROVE  /\ OpenWindow \in Cursors /\ OpenWindow.op = cur.op
         /\ OpenWindow.page = WindowStart(plan.slot, server[cur.op].pages)
         /\ OpenWindow.end = WindowEnd(plan.slot, server[cur.op].pages)
         /\ OpenWindow.end # NoEnd
<1>1. cur \in Cursors /\ cur.op \in 1..Ops /\ server \in [1..Ops -> [pages : Pages, declares : BOOLEAN]]
      /\ plan.slot \in Nat
  BY DEF FetchSafe, FetchTyped, FetchProgress
<1>2. PICK n : n = server[cur.op].pages
  OBVIOUS
<1>3. n \in Nat \ {0}
  BY <1>1, <1>2, FetchNumbers
<1>4. PICK start : start = WindowStart(plan.slot, n)
  OBVIOUS
<1>5. PICK last : last = WindowEnd(plan.slot, n)
  OBVIOUS
<1>6. start \in Nat \ {0} /\ last \in Nat \ {0}
  BY <1>1, <1>3, <1>4, <1>5, WindowWithin
<1>7. OpenWindow = [cur EXCEPT !.end = last, !.page = start, !.hop = 1, !.try = 1]
  BY <1>2, <1>4, <1>5 DEF OpenWindow
<1>8. OpenWindow \in Cursors /\ OpenWindow.op = cur.op /\ OpenWindow.page = start /\ OpenWindow.end = last
  <2>1. PICK c \in Cursors : c = cur
    BY <1>1
  <2>2. PICK new : new = [c EXCEPT !.end = last, !.page = start, !.hop = 1, !.try = 1]
    OBVIOUS
  <2>3. 1 \in 1..MaxHops /\ 1 \in 1..3
    BY FetchNumbers
  <2>4. new \in Cursors /\ new.op = c.op /\ new.page = start /\ new.end = last
    BY <1>6, <2>2, <2>3 DEF Cursors
  <2>5. QED
    BY <1>7, <2>1, <2>2, <2>4
<1>9. QED
  BY <1>2, <1>4, <1>5, <1>6, <1>8 DEF NoEnd

LEMMA JumpSteps == FetchSafe /\ JumpToWindow => FetchSafe'
<1> SUFFICES ASSUME FetchSafe, JumpToWindow PROVE FetchSafe'
  OBVIOUS
<1>0. FetchTyped /\ FetchProgress
  BY DEF FetchSafe
<1>1. /\ at = "page" /\ Windowing /\ cur' = OpenWindow /\ notices' = notices \union {cur.op}
      /\ at' = "send" /\ UNCHANGED <<server, plan, left, items, errors>>
  BY DEF JumpToWindow
<1>2. /\ cur' \in Cursors /\ cur'.op = cur.op
      /\ cur'.page = WindowStart(plan.slot, server[cur.op].pages)
      /\ cur'.end = WindowEnd(plan.slot, server[cur.op].pages)
      /\ cur'.end # NoEnd
  BY <1>1, WindowOpens
<1>3. cur.op \in plan.ops /\ cur.op \in 1..Ops /\ cur.page \in Nat
  BY <1>0, <1>1 DEF FetchProgress, FetchTyped, Cursors
<1>4. FetchTyped'
  BY <1>0, <1>1, <1>2, <1>3 DEF FetchTyped
<1>5. \A o : o # cur.op => (Covered(o)' <=> Covered(o))
  BY <1>1 DEF Covered, StartOf, EndOf, Stored
<1>6. StartOf(cur.op)' = cur'.page /\ EndOf(cur.op)' = cur'.end
  BY <1>1, <1>2 DEF StartOf, EndOf
<1>7. Stored(cur.op, StartOf(cur.op), cur.page - 1)'
  BY <1>2, <1>6 DEF Stored, Cursors
<1>8. \A o \in notices' : o <= cur'.op
  BY <1>0, <1>1, <1>2, <1>3 DEF FetchProgress
<1>9. errors' = {} => \A o \in plan.ops : o < cur'.op => Covered(o)'
  BY <1>0, <1>1, <1>2, <1>3, <1>5 DEF FetchProgress
<1>a. FetchProgress'
  BY <1>0, <1>1, <1>2, <1>3, <1>6, <1>7, <1>8, <1>9 DEF FetchProgress
<1>b. QED
  BY <1>4, <1>a DEF FetchSafe

LEMMA TakeSteps == FetchSafe /\ TakePage => FetchSafe'
<1> SUFFICES ASSUME FetchSafe, TakePage PROVE FetchSafe'
  OBVIOUS
<1>0. FetchTyped /\ FetchProgress
  BY DEF FetchSafe
<1>p. PICK c : c = IF Windowing THEN OpenWindow ELSE cur
  OBVIOUS
<1>q. PICK size : size = IF Full THEN 1 ELSE 0
  OBVIOUS
<1>1. /\ at = "page" /\ ~(Windowing /\ OpenWindow.page > 1)
      /\ notices' = IF Windowing THEN notices \union {cur.op} ELSE notices
      /\ UNCHANGED <<server, plan>>
      /\ \/ /\ errors' = errors \union {"limit"} /\ at' = "done"
            /\ UNCHANGED <<cur, items, left>>
         \/ /\ ~(size > left.records)
            /\ items' = items \union {<<c.op, c.page>>}
            /\ left' = [left EXCEPT !.records = @ - size]
            /\ cur' = [c EXCEPT !.page = @ + 1, !.got = @ + 1, !.hop = 1, !.try = 1]
            /\ \/ LastPage(c) /\ at' = "next" /\ UNCHANGED errors
               \/ at' = "next" /\ errors' = errors \union {"pages"}
               \/ at' = "done" /\ errors' = errors \union {"limit"}
               \/ at' = "send" /\ UNCHANGED errors
  BY <1>p, <1>q DEF TakePage
<1>2. /\ cur.op \in plan.ops /\ cur.op \in 1..Ops /\ cur.page \in Nat \ {0} /\ cur \in Cursors
      /\ server \in [1..Ops -> [pages : Pages, declares : BOOLEAN]] /\ plan.slot \in Nat
  BY <1>0, <1>1 DEF FetchProgress, FetchTyped, Cursors
<1>3. c \in Cursors /\ c.op = cur.op
  BY <1>1, <1>2, <1>p, WindowOpens
<1>4. PICK n : n = server[cur.op].pages
  OBVIOUS
<1>o. cur'.op = cur.op
  <2>1. CASE cur' = cur
    BY <2>1
  <2>2. CASE cur' = [c EXCEPT !.page = @ + 1, !.got = @ + 1, !.hop = 1, !.try = 1]
    <3>1. PICK new : new = [c EXCEPT !.page = @ + 1, !.got = @ + 1, !.hop = 1, !.try = 1]
      OBVIOUS
    <3>2. new.op = c.op
      BY <1>3, <3>1 DEF Cursors
    <3>3. QED
      BY <1>3, <2>2, <3>1, <3>2
  <2>3. QED
    BY <1>1, <2>1, <2>2
<1>5. n \in Nat \ {0}
  BY <1>2, <1>4, FetchNumbers
<1>6. /\ notices' \subseteq 1..Ops /\ notices \subseteq notices'
      /\ \A o \in notices' : o \in notices \/ o = cur.op
      /\ \A o \in notices' : o <= cur.op
  BY <1>0, <1>1, <1>2 DEF FetchTyped, FetchProgress
<1>7. /\ c.end # NoEnd <=> cur.op \in notices'
      /\ c.end # NoEnd => c.end = EndOf(cur.op)'
      /\ \A page \in Nat : StartOf(cur.op)' <= page /\ page <= c.page - 1 => <<cur.op, page>> \in items
  <2>1. CASE Windowing
    <3>1. c.page = WindowStart(plan.slot, n) /\ c.end = WindowEnd(plan.slot, n) /\ c.end # NoEnd
      BY <1>1, <1>4, <1>p, <2>1, WindowOpens
    <3>2. cur.op \in notices' /\ StartOf(cur.op)' = c.page /\ EndOf(cur.op)' = c.end
      BY <1>1, <1>4, <1>o, <2>1, <3>1 DEF StartOf, EndOf
    <3>3. QED
      BY <1>3, <3>1, <3>2 DEF Cursors
  <2>2. CASE ~Windowing
    <3>1. c = cur /\ notices' = notices
      BY <1>1, <1>p, <2>2
    <3>2. StartOf(cur.op)' = StartOf(cur.op) /\ EndOf(cur.op)' = EndOf(cur.op)
      BY <1>1, <1>o, <3>1 DEF StartOf, EndOf
    <3>3. QED
      BY <1>0, <1>1, <3>1, <3>2 DEF FetchProgress, Stored
  <2>3. QED
    BY <2>1, <2>2
<1>8. \A o : o # cur.op /\ items \subseteq items' /\ Covered(o) => Covered(o)'
  BY <1>1, <1>6 DEF Covered, StartOf, EndOf, Stored
<1>9. CASE /\ errors' = errors \union {"limit"} /\ at' = "done"
           /\ UNCHANGED <<cur, items, left>>
  <2>1. FetchTyped'
    BY <1>0, <1>1, <1>6, <1>9 DEF FetchTyped
  <2>2. FetchProgress'
    BY <1>0, <1>1, <1>6, <1>9 DEF FetchProgress
  <2>3. QED
    BY <2>1, <2>2 DEF FetchSafe
<1>a. CASE /\ ~(size > left.records)
           /\ items' = items \union {<<c.op, c.page>>}
           /\ left' = [left EXCEPT !.records = @ - size]
           /\ cur' = [c EXCEPT !.page = @ + 1, !.got = @ + 1, !.hop = 1, !.try = 1]
           /\ \/ LastPage(c) /\ at' = "next" /\ UNCHANGED errors
              \/ at' = "next" /\ errors' = errors \union {"pages"}
              \/ at' = "done" /\ errors' = errors \union {"limit"}
              \/ at' = "send" /\ UNCHANGED errors
  <2>1. left' \in Budgets
    <3>1. PICK x \in Budgets : x = left
      BY <1>0 DEF FetchTyped
    <3>2. x.records - size \in 0..MaxRecords
      BY <1>a, <1>q, <3>1, FetchNumbers DEF Budgets
    <3>3. [x EXCEPT !.records = x.records - size] \in Budgets
      BY <3>2 DEF Budgets
    <3>4. QED
      BY <1>a, <3>1, <3>3
  <2>2. cur' \in Cursors /\ cur'.op = cur.op /\ cur'.page = c.page + 1 /\ cur'.end = c.end
    <3>1. PICK new : new = [c EXCEPT !.page = c.page + 1, !.got = c.got + 1, !.hop = 1, !.try = 1]
      OBVIOUS
    <3>2. 1 \in 1..MaxHops /\ 1 \in 1..3 /\ c.page + 1 \in Nat \ {0} /\ c.got + 1 \in Nat
      BY <1>3, FetchNumbers DEF Cursors
    <3>3. new \in Cursors /\ new.op = c.op /\ new.page = c.page + 1 /\ new.end = c.end
      BY <1>3, <3>1, <3>2 DEF Cursors
    <3>4. cur' = new
      BY <1>a, <3>1
    <3>5. QED
      BY <1>3, <3>3, <3>4
  <2>3. c.page \in Nat \ {0} /\ c.end \in Nat
    BY <1>3 DEF Cursors
  <2>4. FetchTyped'
    <3>1. items' \subseteq (1..Ops) \X Nat
      BY <1>0, <1>2, <1>3, <1>a, <2>3 DEF FetchTyped
    <3>2. /\ errors' \subseteq {"auth", "http", "budget", "limit", "pages", "drift"}
          /\ at' \in {"next", "send", "wait", "page", "done"}
      BY <1>0, <1>a DEF FetchTyped
    <3>3. QED
      BY <1>0, <1>1, <1>6, <2>1, <2>2, <3>1, <3>2 DEF FetchTyped
  <2>5. \A page \in Nat : StartOf(cur.op)' <= page /\ page <= c.page => <<cur.op, page>> \in items'
    <3>1. PICK start : start = StartOf(cur.op)'
      OBVIOUS
    <3>2. \A page \in Nat : start <= page /\ page <= c.page - 1 => <<cur.op, page>> \in items
      BY <1>7, <3>1
    <3>3. \A page \in Nat : page <= c.page => page <= c.page - 1 \/ page = c.page
      BY <2>3
    <3>4. \A page \in Nat : start <= page /\ page <= c.page => <<cur.op, page>> \in items'
      BY <1>3, <1>a, <3>2, <3>3
    <3>5. QED
      BY <3>1, <3>4
  <2>6. StartOf(cur.op)' \in Nat \ {0} /\ EndOf(cur.op)' \in Nat /\ EndOf(cur.op)' <= n
    BY <1>1, <1>2, <1>4, <1>5, <1>o, WindowWithin DEF StartOf, EndOf
  <2>7. ASSUME LastPage(c) PROVE Covered(cur.op)'
    <3>1. EndOf(cur.op)' <= c.page
      <4>1. CASE c.end # NoEnd /\ c.page >= c.end
        BY <1>7, <2>3, <4>1
      <4>2. CASE c.page >= server[c.op].pages
        BY <1>3, <1>4, <1>5, <2>3, <2>6, <4>2
      <4>3. CASE ~Declared /\ ~Full
        <5>1. c = cur
          BY <1>p, <4>3 DEF Windowing
        <5>2. QED
          BY <1>4, <1>5, <2>3, <2>6, <4>3, <5>1 DEF Full
      <4>4. QED
        BY <2>7, <4>1, <4>2, <4>3 DEF LastPage
    <3>2. QED
      BY <1>o, <2>3, <2>5, <2>6, <3>1 DEF Covered, Stored, StartOf, EndOf
  <2>8. items \subseteq items'
    BY <1>a
  <2>9. errors' = {} => \A o \in plan.ops : o < cur'.op => Covered(o)'
    BY <1>0, <1>2, <1>8, <1>a, <2>2, <2>8 DEF FetchProgress
  <2>a. errors' = {} /\ at' = "next" => Covered(cur.op)'
    BY <1>a, <2>7
  <2>b. at' # "done" \/ errors' # {}
    BY <1>a
  <2>c. Stored(cur.op, StartOf(cur.op), cur.page - 1)'
    <3>1. StartOf(cur.op)' = (IF cur.op \in notices' THEN WindowStart(plan.slot, n) ELSE 1)
      BY <1>1, <1>4, <1>o DEF StartOf
    <3>2. cur'.page - 1 = c.page
      BY <2>2, <2>3
    <3>3. QED
      BY <2>2, <2>5, <3>2 DEF Stored, StartOf
  <2>d. FetchProgress'
    BY <1>0, <1>1, <1>2, <1>6, <1>7, <2>2, <2>9, <2>a, <2>b, <2>c DEF FetchProgress, EndOf
  <2>e. QED
    BY <2>4, <2>d DEF FetchSafe
<1>b. QED
  BY <1>1, <1>9, <1>a

LEMMA DriftSteps == FetchSafe /\ SchemaDrift => FetchSafe'
<1> SUFFICES ASSUME FetchSafe, SchemaDrift PROVE FetchSafe'
  OBVIOUS
<1>0. FetchTyped /\ FetchProgress
  BY DEF FetchSafe
<1>1. /\ at = "page" /\ items' = items \union {<<cur.op, cur.page>>}
      /\ errors' = errors \union {"drift"} /\ at' = "next"
      /\ UNCHANGED <<server, plan, left, cur, notices>>
  BY DEF SchemaDrift
<1>2. cur.op \in 1..Ops /\ cur.page \in Nat
  BY <1>0, <1>1 DEF FetchProgress, FetchTyped, Cursors
<1>3. FetchTyped'
  BY <1>0, <1>1, <1>2 DEF FetchTyped
<1>4. FetchProgress'
  BY <1>0, <1>1 DEF FetchProgress
<1>5. QED
  BY <1>3, <1>4 DEF FetchSafe

LEMMA FetchSteps == FetchSafe /\ [FetchNext]_fetchVars => FetchSafe'
<1> SUFFICES ASSUME FetchSafe, [FetchNext]_fetchVars PROVE FetchSafe'
  OBVIOUS
<1>1. CASE UNCHANGED fetchVars
  BY <1>1 DEF fetchVars, FetchSafe, FetchTyped, FetchProgress, Covered, StartOf, EndOf, Stored
<1>2. QED
  BY <1>1, NextSteps, RequestSteps, JumpSteps, TakeSteps, DriftSteps DEF FetchNext

-----------------------------------------------------------------------------
\* Every variable keeps its type, whatever the budgets.
THEOREM FetchTypes == FetchSpec => []FetchTypeOK
<1>1. FetchSafe => FetchTypeOK
  BY DEF FetchSafe, FetchTyped, FetchTypeOK, Budgets, Cursors
<1>2. QED
  BY <1>1, FetchInitially, FetchSteps, PTL DEF FetchSpec

\* For any operations, page limits, budgets, rotations and answers of the
\* server: what a run leaves out is told.
THEOREM OmissionsStayTold == FetchSpec => []OmissionsAreTold
<1>1. FetchSafe => OmissionsAreTold
  <2> SUFFICES ASSUME FetchSafe, at = "done" PROVE
        /\ errors = {} =>
             \A o \in plan.ops :
               LET n == server[o].pages
                   wanted == IF o \in notices
                             THEN WindowStart(plan.slot, n)..WindowEnd(plan.slot, n) ELSE 1..n
               IN \A page \in wanted : <<o, page>> \in items
        /\ Complete => \A o \in 1..Ops : \A page \in 1..server[o].pages : <<o, page>> \in items
        /\ FetchStatus = "unavailable" => items = {} /\ "auth" \in errors
    BY DEF OmissionsAreTold
  <2>0. FetchTyped /\ FetchProgress
    BY DEF FetchSafe
  <2>1. errors = {} => \A o \in plan.ops : Covered(o)
    BY <2>0 DEF FetchProgress
  <2>2. \A o \in plan.ops : o \in 1..Ops /\ server[o].pages \in Nat \ {0}
    BY <2>0, FetchNumbers DEF FetchTyped
  <2>3. plan.slot \in Nat
    BY <2>0 DEF FetchTyped
  <2>4. ASSUME errors = {}, NEW o \in plan.ops
        PROVE  LET n == server[o].pages
                   wanted == IF o \in notices
                             THEN WindowStart(plan.slot, n)..WindowEnd(plan.slot, n) ELSE 1..n
               IN \A page \in wanted : <<o, page>> \in items
    <3>1. PICK n : n = server[o].pages
      OBVIOUS
    <3>2. /\ n \in Nat \ {0} /\ WindowStart(plan.slot, n) \in Nat \ {0}
          /\ WindowEnd(plan.slot, n) \in Nat \ {0}
      BY <2>2, <2>3, <3>1, WindowWithin
    <3>3. \A page \in Nat : StartOf(o) <= page /\ page <= EndOf(o) => <<o, page>> \in items
      BY <2>1, <2>4 DEF Covered, Stored
    <3>4. CASE o \in notices
      BY <3>1, <3>2, <3>3, <3>4 DEF StartOf, EndOf
    <3>5. CASE o \notin notices
      BY <3>1, <3>2, <3>3, <3>5 DEF StartOf, EndOf
    <3>6. QED
      BY <3>4, <3>5
  <2>5. ASSUME Complete
        PROVE  \A o \in 1..Ops : \A page \in 1..server[o].pages : <<o, page>> \in items
    <3>1. errors = {} /\ notices = {} /\ ~(plan.rotate /\ items # {})
      BY <2>5 DEF Complete, RotationTold
    <3>2. \A o \in plan.ops : \A page \in 1..server[o].pages : <<o, page>> \in items
      BY <2>4, <3>1
    <3>3. plan.ops = 1..Ops
      <4>1. CASE ~plan.rotate
        BY <2>0, <4>1 DEF FetchProgress
      <4>2. CASE plan.rotate
        <5>1. PICK o \in plan.ops : TRUE
          BY <2>0, <2>3, <4>2, BatchHasOperations DEF FetchProgress
        <5>2. <<o, 1>> \in items
          BY <2>2, <3>2
        <5>3. QED
          BY <3>1, <4>2, <5>2
      <4>3. QED
        BY <4>1, <4>2
    <3>4. QED
      BY <3>2, <3>3
  <2>6. FetchStatus = "unavailable" => items = {} /\ "auth" \in errors
    BY DEF FetchStatus
  <2>7. QED
    BY <2>4, <2>5, <2>6
<1>2. QED
  BY <1>1, FetchInitially, FetchSteps, PTL DEF FetchSpec

-----------------------------------------------------------------------------
(*****************************************************************************)
(* ReferenceCoverage: the silence of the visitor forecast, for every         *)
(* calendar, every length of pages, horizons and windows, and any number of  *)
(* failures, crashes and midnights.                                          *)
(*****************************************************************************)

LEMMA SpanNumbers == Horizon \in Nat \ {0} /\ Spans \subseteq 0..Horizon /\ Districts # {}
  BY CoverageAssumption DEF CoverageAssumption

\* A set of spans has a greatest member, and Max is one.
LEMMA MaxOfSpans ==
  ASSUME NEW S \in SUBSET Spans, S # {}
  PROVE  Max(S) \in S
<1> DEFINE T == {Horizon - y : y \in S}
           R == {p \in Nat \X Nat : p[1] < p[2]}
<1>1. \A y \in S : y \in Nat /\ y <= Horizon
  BY SpanNumbers
<1>2. T \subseteq Nat /\ T # {}
  <2>1. \A y \in S : Horizon - y \in Nat
    BY <1>1, SpanNumbers
  <2>2. QED
    BY <2>1
<1>3. IsWellFoundedOn(R, Nat)
  BY NatLessThanWellFounded DEF OpToRel
<1> HIDE DEF T, R
<1>4. PICK m \in T : \A n \in T : ~(<<n, m>> \in R)
  BY <1>2, <1>3, WFMin
<1>5. PICK x \in S : m = Horizon - x
  BY <1>4 DEF T
<1>6. ASSUME NEW y \in S
      PROVE  x >= y
  <2>1. Horizon - y \in T /\ Horizon - y \in Nat /\ m \in Nat
    BY <1>2, <1>4 DEF T
  <2>2. ~(Horizon - y < m)
    BY <1>4, <2>1 DEF R
  <2>3. QED
    BY <1>1, <1>5, <2>2, SpanNumbers
<1>7. QED
  BY <1>6 DEF Max

-----------------------------------------------------------------------------
(* The inductive invariant. *)

HealthRow == [attempt : Int, success : Int, failures : Int, retry : BOOLEAN]
CoverageTyped ==
  /\ day \in Nat
  /\ health \in HealthRow
  /\ collection = NoCollection \/ collection.step \in {"planned", "fetched", "normalized"}

\* A holiday of a page that is stored has a row, or never will have one, unless
\* the page is still in the hands of a run.
Accounted ==
  \A d \in calendar : PageOf(d) \in pages =>
    \/ d \in dated \union lost
    \/ PageOf(d) \in unfinished
    \/ collection.step = "fetched" /\ PageOf(d) \in collection.new

\* Pages that wait for a retry will get one.
Waiting == unfinished # {} => health.retry /\ collection = NoCollection

\* So when a success is counted, no stored page is in anybody's hands ...
Settled == \A d \in calendar : PageOf(d) \in vouched => d \in dated \union lost

\* ... and a product built since has the holidays it is vouched for.
Shown ==
  \A a \in Published :
    /\ product[a].built \in Nat /\ product[a].demand \in 0..Horizon
    /\ \A d \in calendar :
         /\ d \in product[a].built..(product[a].built + Horizon - 1)
         /\ PageOf(d) \in product[a].vouched
         => d \in product[a].holidays \union lost

CoverageSafe ==
  /\ CoverageTyped /\ Accounted /\ Waiting /\ Settled /\ Shown
  /\ DOMAIN product = ForecastAreas

LEMMA FailedType ==
  ASSUME CoverageTyped, NEW retry \in BOOLEAN
  PROVE  Failed(retry) \in HealthRow /\ Failed(retry).retry = retry
<1>1. health \in HealthRow /\ day \in Int
  BY DEF CoverageTyped
<1>2. health.failures + 1 \in Int
  BY <1>1 DEF HealthRow
<1>3. Failed(retry) = [health EXCEPT !.attempt = day, !.failures = health.failures + 1,
                                      !.retry = retry]
  BY <1>1 DEF Failed
<1>4. QED
  BY <1>1, <1>2, <1>3 DEF HealthRow

\* Products, and what is no longer to come, are disturbed by builds alone.
LEMMA ShownKept ==
  ASSUME Shown, UNCHANGED <<calendar, product>>, lost \subseteq lost'
  PROVE  Shown'
  BY DEF Shown, Published

LEMMA SettledKept ==
  ASSUME Settled, UNCHANGED <<calendar, vouched>>, lost \subseteq lost', dated \subseteq dated'
  PROVE  Settled'
  BY DEF Settled

LEMMA CoverageInitially == CoverageInit => CoverageSafe
  BY DEF CoverageInit, CoverageSafe, CoverageTyped, Accounted, Waiting, Settled, Shown, Published,
    NeverDone, NoCollection, HealthRow

LEMMA PlanSafe ==
  ASSUME CoverageSafe, Plan
  PROVE  CoverageSafe'
<1> USE DEF CoverageSafe
<1>1. /\ collection = NoCollection /\ unfinished' = {}
      /\ health' = [health EXCEPT !.attempt = day]
      /\ UNCHANGED <<day, calendar, pages, dated, product, trouble, vouched, lost>>
      /\ IF health.retry /\ unfinished # {}
         THEN collection' = [step |-> "fetched", new |-> unfinished]
         ELSE collection'.step = "planned"
  BY DEF Plan
<1>2. CoverageTyped'
  BY <1>1 DEF CoverageTyped, HealthRow
<1>3. Accounted'
  <2>1. collection.step # "fetched"
    BY <1>1 DEF NoCollection
  <2>2. CASE unfinished = {}
    BY <1>1, <2>1, <2>2 DEF Accounted
  <2>3. CASE unfinished # {}
    BY <1>1, <2>1, <2>3 DEF Accounted, Waiting
  <2>4. QED
    BY <2>2, <2>3
<1>4. Waiting' /\ Settled' /\ Shown'
  BY <1>1, SettledKept, ShownKept DEF Waiting
<1>5. QED
  BY <1>1, <1>2, <1>3, <1>4

LEMMA PagesSafe ==
  ASSUME CoverageSafe, FetchMonths
  PROVE  CoverageSafe'
<1> USE DEF CoverageSafe
<1>1. PICK got \in SUBSET collection.new :
        /\ pages' = pages \union got
        /\ collection' = IF got \subseteq pages THEN NoCollection
                         ELSE [step |-> "fetched", new |-> got \ pages]
        /\ health' = IF got \subseteq pages THEN Failed(FALSE) ELSE health
  BY DEF FetchMonths
<1>2. /\ collection.step = "planned"
      /\ UNCHANGED <<day, calendar, dated, unfinished, product, vouched, lost>>
  BY DEF FetchMonths
<1>3. unfinished = {}
  BY <1>2 DEF Waiting, NoCollection
<1>4. CoverageTyped'
  BY <1>1, <1>2, FailedType DEF CoverageTyped
<1>5. Accounted'
  <2>1. ASSUME NEW d \in calendar, PageOf(d) \in pages
        PROVE  d \in dated \union lost
    BY <1>2, <1>3, <2>1 DEF Accounted
  <2>2. CASE got \subseteq pages
    BY <1>1, <1>2, <2>1, <2>2 DEF Accounted, PageOf
  <2>3. CASE ~(got \subseteq pages)
    <3>1. collection' = [step |-> "fetched", new |-> got \ pages]
      BY <1>1, <2>3
    <3>2. QED
      BY <1>1, <1>2, <2>1, <3>1 DEF Accounted, PageOf
  <2>4. QED
    BY <2>2, <2>3
<1>6. Waiting' /\ Settled' /\ Shown'
  BY <1>2, <1>3, SettledKept, ShownKept DEF Waiting
<1>7. QED
  BY <1>2, <1>4, <1>5, <1>6

\* A run that fails keeps its pages in hand.
LEMMA FailSafe ==
  ASSUME CoverageSafe, FailPipeline, collection.step \in {"fetched", "normalized"},
         UNCHANGED <<day, calendar, pages, product, lost>>, dated \subseteq dated'
  PROVE  CoverageSafe'
<1> USE DEF CoverageSafe, FailPipeline
<1>1. CoverageTyped'
  BY FailedType DEF CoverageTyped
<1>2. unfinished = {}
  BY DEF Waiting, NoCollection
<1>3. Accounted'
  BY <1>2 DEF Accounted, PageOf
<1>4. health'.retry
  BY FailedType
<1>5. Waiting' /\ Settled' /\ Shown'
  BY <1>4, SettledKept, ShownKept DEF Waiting
<1>6. QED
  BY <1>1, <1>3, <1>5

\* A page that was normalized has no holiday left without a row, but for lost ones.
LEMMA MonthsSafe ==
  ASSUME CoverageSafe, NormalizeMonths
  PROVE  CoverageSafe'
<1> USE DEF CoverageSafe
<1>1. /\ collection.step = "fetched" /\ UNCHANGED <<day, calendar, pages, product>>
      /\ dated \subseteq dated'
      /\ \/ FailPipeline /\ UNCHANGED lost
         \/ /\ collection' = [collection EXCEPT !.step = "normalized"]
            /\ lost' = lost \union (On(collection.new) \ dated')
            /\ UNCHANGED <<unfinished, health, vouched>>
  BY DEF NormalizeMonths
<1>2. CASE FailPipeline /\ UNCHANGED lost
  BY <1>1, <1>2, FailSafe
<1>3. CASE /\ collection' = [collection EXCEPT !.step = "normalized"]
           /\ lost' = lost \union (On(collection.new) \ dated')
           /\ UNCHANGED <<unfinished, health, vouched>>
  <2>1. unfinished = {}
    BY <1>1 DEF Waiting, NoCollection
  <2>2. Accounted'
    BY <1>1, <1>3 DEF Accounted, PageOf, On
  <2>3. collection'.step = "normalized"
    BY <1>3
  <2>4. CoverageTyped'
    BY <1>1, <1>3, <2>3 DEF CoverageTyped
  <2>5. Waiting' /\ Settled' /\ Shown'
    BY <1>1, <1>3, <2>1, SettledKept, ShownKept DEF Waiting
  <2>6. QED
    BY <1>1, <2>2, <2>4, <2>5
<1>4. QED
  BY <1>1, <1>2, <1>3

LEMMA StageFailsSafe ==
  ASSUME CoverageSafe, StageFails
  PROVE  CoverageSafe'
  BY FailSafe DEF StageFails

LEMMA CompleteSafe ==
  ASSUME CoverageSafe, CompletePipeline
  PROVE  CoverageSafe'
<1> USE DEF CoverageSafe
<1>1. /\ collection.step = "normalized" /\ health' = Succeeded /\ vouched' = pages
      /\ collection' = NoCollection
      /\ UNCHANGED <<day, calendar, pages, dated, unfinished, product, lost>>
  BY DEF CompletePipeline
<1>2. unfinished = {}
  BY <1>1 DEF Waiting, NoCollection
<1>3. CoverageTyped'
  BY <1>1 DEF CoverageTyped, Succeeded, HealthRow
<1>4. Accounted' /\ Settled'
  BY <1>1, <1>2 DEF Accounted, Settled, PageOf
<1>5. Waiting' /\ Shown'
  BY <1>1, <1>2, ShownKept DEF Waiting
<1>6. QED
  BY <1>1, <1>3, <1>4, <1>5

LEMMA JobDiesSafe ==
  ASSUME CoverageSafe, JobDies
  PROVE  CoverageSafe'
<1> USE DEF CoverageSafe
<1>1. /\ collection # NoCollection /\ collection' = NoCollection
      /\ lost' = IF collection.step = "planned" THEN lost
                 ELSE lost \union (On(collection.new) \ dated)
      /\ UNCHANGED <<day, calendar, pages, dated, health, unfinished, product, vouched>>
  BY DEF JobDies
<1>2. unfinished = {}
  BY <1>1 DEF Waiting
<1>3. CoverageTyped'
  BY <1>1 DEF CoverageTyped
<1>4. Accounted'
  BY <1>1, <1>2 DEF Accounted, PageOf, On
<1>5. Waiting' /\ Settled' /\ Shown'
  BY <1>1, <1>2, SettledKept, ShownKept DEF Waiting
<1>6. QED
  BY <1>1, <1>3, <1>4, <1>5

LEMMA MidnightSafe ==
  ASSUME CoverageSafe, Midnight
  PROVE  CoverageSafe'
<1> USE DEF CoverageSafe
<1>1. day' = day + 1 /\ UNCHANGED <<calendar, pages, dated, health, collection, unfinished,
                                   product, vouched, lost>>
  BY DEF Midnight
<1>2. CoverageTyped'
  BY <1>1 DEF CoverageTyped
<1>3. Accounted' /\ Waiting'
  BY <1>1 DEF Accounted, Waiting, PageOf
<1>4. Settled' /\ Shown'
  BY <1>1, SettledKept, ShownKept
<1>5. QED
  BY <1>1, <1>2, <1>3, <1>4

\* What is vouched for and falls in the horizon has a row to copy.
LEMMA BuildSafe ==
  ASSUME CoverageSafe, NEW a \in ForecastAreas, BuildForecast(a)
  PROVE  CoverageSafe'
<1> USE DEF CoverageSafe
<1>1. UNCHANGED <<day, calendar, pages, dated, health, collection, unfinished, vouched, lost>>
  BY DEF BuildForecast
<1>2. PICK demand \in [Districts -> Spans], weather \in Spans :
        product' = [product EXCEPT ![a] =
          [built |-> day, through |-> CoveredThrough,
           holidays |-> {d \in dated : d \in day..(day + Horizon - 1)},
           demand |-> IF a = Province THEN Aggregated(demand) ELSE demand[a],
           weather |-> weather, vouched |-> vouched]]
  BY DEF BuildForecast
<1> DEFINE own == IF a = Province THEN Aggregated(demand) ELSE demand[a]
           fresh == {d \in dated : d \in day..(day + Horizon - 1)}
           new == [built |-> day, through |-> CoveredThrough, holidays |-> fresh,
                   demand |-> own, weather |-> weather, vouched |-> vouched]
<1>3. own \in 0..Horizon
  <2>1. CASE a = Province
    <3>1. {demand[x] : x \in Districts} \in SUBSET Spans /\ {demand[x] : x \in Districts} # {}
      BY SpanNumbers
    <3>2. Aggregated(demand) \in {demand[x] : x \in Districts}
      BY <3>1, MaxOfSpans DEF Aggregated
    <3>3. QED
      BY <2>1, <3>1, <3>2, SpanNumbers
  <2>2. CASE a # Province
    <3>1. a \in Districts
      BY <2>2 DEF ForecastAreas
    <3>2. QED
      BY <2>2, <3>1, SpanNumbers
  <2>3. QED
    BY <2>1, <2>2
<1>4. /\ new.built = day /\ new.holidays = fresh /\ new.vouched = vouched
      /\ new.demand \in 0..Horizon
  BY <1>3
<1> HIDE DEF own
<1>5. \A x \in ForecastAreas : product'[x] = IF x = a THEN new ELSE product[x]
  BY <1>2 DEF own
<1>6. DOMAIN product' = ForecastAreas
  BY <1>2
<1> HIDE DEF new
<1>7. Shown'
  <2>1. ASSUME NEW x \in Published'
        PROVE  /\ product'[x].built \in Nat /\ product'[x].demand \in 0..Horizon
               /\ \A d \in calendar' :
                    /\ d \in product'[x].built..(product'[x].built + Horizon - 1)
                    /\ PageOf(d) \in product'[x].vouched
                    => d \in product'[x].holidays \union lost'
    <3>1. CASE x = a
      <4>1. product'[x] = new
        BY <1>5, <3>1
      <4>2. \A d \in calendar : /\ d \in day..(day + Horizon - 1)
                                /\ PageOf(d) \in vouched
                                => d \in fresh \union lost
        BY DEF Settled
      <4>3. QED
        BY <1>1, <1>4, <4>1, <4>2 DEF CoverageTyped
    <3>2. CASE x # a
      <4>1. product'[x] = product[x] /\ x \in Published
        BY <1>5, <3>2 DEF Published
      <4>2. QED
        BY <1>1, <4>1 DEF Shown
    <3>3. QED
      BY <3>1, <3>2
  <2>2. QED
    BY <2>1 DEF Shown, PageOf
<1>8. CoverageTyped' /\ Accounted' /\ Waiting' /\ Settled'
  BY <1>1 DEF CoverageTyped, Accounted, Waiting, Settled, PageOf
<1>9. QED
  BY <1>6, <1>7, <1>8

LEMMA CoverageKept == CoverageSafe /\ [CoverageNext]_coverageVars => CoverageSafe'
<1> SUFFICES ASSUME CoverageSafe, [CoverageNext]_coverageVars PROVE CoverageSafe'
  OBVIOUS
<1>1. CASE Plan \/ FetchMonths \/ NormalizeMonths \/ StageFails
  BY <1>1, PlanSafe, PagesSafe, MonthsSafe, StageFailsSafe
<1>2. CASE CompletePipeline \/ JobDies \/ Midnight
  BY <1>2, CompleteSafe, JobDiesSafe, MidnightSafe
<1>3. CASE \E a \in ForecastAreas : BuildForecast(a)
  BY <1>3, BuildSafe
<1>4. CASE UNCHANGED coverageVars
  BY <1>4 DEF coverageVars, CoverageSafe, CoverageTyped, Accounted, Waiting, Settled, Shown, Published,
    PageOf
<1>5. QED
  BY <1>1, <1>2, <1>3, <1>4 DEF CoverageNext

LEMMA CoverageInvariance == CoverageSpec => []CoverageSafe
  BY CoverageInitially, CoverageKept, PTL DEF CoverageSpec

\* A forecast that a view calls no holiday is none, unless its page came after
\* the success that vouches for it or a stage passed its row over: whatever
\* fails, dies or is built in between, and however old success and product are.
THEOREM SilenceAlwaysExplained == CoverageSpec => []SilenceIsExplained
<1>1. CoverageSafe => SilenceIsExplained
  <2> SUFFICES ASSUME CoverageSafe, NEW a \in Published, NEW r \in Requests,
                      NEW d \in Horizons(r),
                      DayAvailability(a, d, r) # "unavailable", Denies(a, d, r), d \in calendar,
                      PageOf(d) \in product[a].vouched
               PROVE  d \in lost
    BY DEF SilenceIsExplained
  <2>1. d \in Int
    BY DEF Horizons
  <2>2. product[a].built <= d /\ d < product[a].built + product[a].demand
    BY DEF DayAvailability, HasBase
  <2>3. product[a].built \in Nat /\ product[a].demand \in 0..Horizon
    BY DEF CoverageSafe, Shown
  <2>4. d \in product[a].built..(product[a].built + Horizon - 1)
    BY <2>1, <2>2, <2>3, SpanNumbers
  <2>5. d \notin product[a].holidays
    BY DEF Denies
  <2>6. QED
    BY <2>4, <2>5 DEF CoverageSafe, Shown
<1>2. QED
  BY <1>1, CoverageInvariance, PTL

-----------------------------------------------------------------------------
(* Types. *)

\* A later day is on no earlier page.
LEMMA PagesFollow ==
  ASSUME NEW d \in Nat, NEW e \in Nat, d <= e
  PROVE  PageOf(d) \in Nat /\ PageOf(e) \in Nat /\ PageOf(d) <= PageOf(e)
<1>1. PageDays \in Nat \ {0}
  BY CoverageAssumption DEF CoverageAssumption
<1>2. PICK x, y : x = PageOf(d) /\ y = PageOf(e)
  OBVIOUS
<1>3. x \in Nat /\ PageDays * x <= d
  BY <1>1, <1>2 DEF PageOf
<1>4. y \in Nat /\ e < PageDays * y + PageDays
  BY <1>1, <1>2 DEF PageOf
<1>5. ASSUME y < x PROVE FALSE
  <2>1. PICK n \in Nat : x = y + 1 + n
    <3>1. x - y - 1 \in Nat /\ x = y + 1 + (x - y - 1)
      BY <1>3, <1>4, <1>5
    <3>2. QED
      BY <3>1
  <2>2. PageDays * x = PageDays * y + PageDays + PageDays * n
    BY <1>1, <1>4, <2>1
  <2>3. PageDays * n \in Nat /\ PageDays * y \in Nat
    BY <1>1, <1>4, <2>1
  <2>4. QED
    BY <1>1, <1>3, <1>4, <2>2, <2>3
<1>6. QED
  BY <1>2, <1>3, <1>4, <1>5

CoverageNumbers ==
  /\ LastDay \in Nat /\ Ahead \in Nat /\ Reach \in Nat \ {0} /\ MaxTrouble \in Nat
  /\ PageOf(LastDay) \in Nat /\ Spans \subseteq Nat

LEMMA CoverageConstants == CoverageNumbers
  BY CoverageAssumption, PagesFollow, SpanNumbers DEF CoverageAssumption, CoverageNumbers

LEMMA CoverageTypedInitially == CoverageInit => CoverageTypeOK
  BY CoverageConstants DEF CoverageInit, CoverageTypeOK, CoverageNumbers, NeverDone, NoCollection,
    NoProduct, ProductType

\* A failure counts against the bound.
LEMMA TroubleCounted ==
  ASSUME CoverageTypeOK, Trouble \/ UNCHANGED trouble
  PROVE  trouble' \in 0..MaxTrouble
  BY CoverageConstants DEF CoverageTypeOK, CoverageNumbers, Trouble

HealthType ==
  [attempt : -1..LastDay, success : -1..LastDay, failures : Nat, retry : BOOLEAN]
CollectionType ==
  [step : {"idle", "planned", "fetched", "normalized"}, new : SUBSET Months]

LEMMA HealthTyped ==
  ASSUME CoverageTypeOK
  PROVE  /\ health \in HealthType /\ Succeeded \in HealthType
         /\ \A retry \in BOOLEAN : Failed(retry) \in HealthType
         /\ [health EXCEPT !.attempt = day] \in HealthType
<1>1. health \in HealthType /\ day \in -1..LastDay /\ 0 \in Nat
  BY CoverageConstants DEF CoverageTypeOK, CoverageNumbers, HealthType
<1>2. health.failures + 1 \in Nat
  BY <1>1 DEF HealthType
<1>3. ASSUME NEW retry \in BOOLEAN PROVE Failed(retry) \in HealthType
  <2>1. PICK n \in Nat : n = health.failures + 1
    BY <1>2
  <2>2. Failed(retry) = [health EXCEPT !.attempt = day, !.failures = n, !.retry = retry]
    BY <1>1, <2>1 DEF Failed
  <2>3. QED
    BY <1>1, <2>1, <2>2 DEF HealthType
<1>4. QED
  BY <1>1, <1>3 DEF Succeeded, HealthType

\* What jobs do to the source's records.
LEMMA JobTyped ==
  ASSUME CoverageTypeOK, UNCHANGED <<day, calendar, product>>,
         Trouble \/ UNCHANGED trouble,
         dated' \subseteq calendar, lost' \subseteq calendar,
         pages' \subseteq Months, unfinished' \subseteq Months, vouched' \subseteq Months,
         health' \in HealthType, collection' \in CollectionType
  PROVE  CoverageTypeOK'
<1>1. trouble' \in 0..MaxTrouble
  BY TroubleCounted
<1>2. Months' = Months /\ ProductType' = ProductType
  BY DEF Months, ProductType, PageOf
<1>3. QED
  BY <1>1, <1>2 DEF CoverageTypeOK, HealthType, CollectionType

LEMMA CoverageTypesKept == CoverageTypeOK /\ [CoverageNext]_coverageVars => CoverageTypeOK'
<1> SUFFICES ASSUME CoverageTypeOK, [CoverageNext]_coverageVars PROVE CoverageTypeOK'
  OBVIOUS
<1>0. /\ day \in 0..LastDay /\ trouble \in 0..MaxTrouble
      /\ dated \subseteq calendar /\ lost \subseteq calendar
      /\ pages \subseteq Months /\ unfinished \subseteq Months /\ vouched \subseteq Months
      /\ health \in HealthType /\ collection \in CollectionType
      /\ NoCollection \in CollectionType /\ collection.new \subseteq Months
  BY DEF CoverageTypeOK, HealthType, CollectionType, NoCollection
<1>1. CASE Plan
  <2>1. PageOf(day)..(PageOf(day) + Ahead) \subseteq Months
    <3>1. PageOf(day) \in Nat /\ PageOf(day) <= PageOf(LastDay) /\ Ahead \in Nat
          /\ PageOf(LastDay) \in Nat
      BY <1>0, PagesFollow, CoverageConstants DEF CoverageNumbers
    <3>2. \A x, y, z \in Nat : x <= y => x..(x + z) \subseteq 0..(y + z)
      OBVIOUS
    <3>3. QED
      BY <3>1, <3>2 DEF Months
  <2>2. collection' \in CollectionType
    BY <1>0, <1>1, <2>1 DEF Plan, CollectionType
  <2>3. QED
    BY <1>0, <1>1, <2>2, HealthTyped, JobTyped DEF Plan
<1>2. CASE FetchMonths
  <2>1. PICK got \in SUBSET collection.new :
          /\ pages' = pages \union got
          /\ TroubleIf(got # collection.new)
          /\ collection' = IF got \subseteq pages THEN NoCollection
                           ELSE [step |-> "fetched", new |-> got \ pages]
          /\ health' = IF got \subseteq pages THEN Failed(FALSE) ELSE health
    BY <1>2 DEF FetchMonths
  <2>2. collection' \in CollectionType /\ pages' \subseteq Months
    BY <1>0, <2>1 DEF CollectionType
  <2>3. health' \in HealthType
    BY <1>0, <2>1, HealthTyped
  <2>4. Trouble \/ UNCHANGED trouble
    BY <2>1 DEF TroubleIf
  <2>5. QED
    BY <1>0, <1>2, <2>2, <2>3, <2>4, JobTyped DEF FetchMonths
<1>3. CASE NormalizeMonths
  <2>1. PICK rejected \in SUBSET On(collection.new), fresh \in SUBSET On(collection.new) :
          /\ TroubleIf(rejected # {})
          /\ dated' = dated \union fresh
          /\ \/ FailPipeline /\ UNCHANGED lost
             \/ /\ collection' = [collection EXCEPT !.step = "normalized"]
                /\ lost' = lost \union (On(collection.new) \ dated')
                /\ UNCHANGED <<unfinished, health, vouched>>
    BY <1>3 DEF NormalizeMonths
  <2>2. Trouble \/ UNCHANGED trouble
    BY <2>1 DEF TroubleIf
  <2>3. On(collection.new) \subseteq calendar
    BY DEF On
  <2>4. dated' \subseteq calendar /\ lost' \subseteq calendar
    BY <1>0, <2>1, <2>3
  <2>5. UNCHANGED <<day, calendar, pages, product>>
    BY <1>3 DEF NormalizeMonths
  <2>6. CASE FailPipeline
    <3>1. /\ unfinished' = collection.new /\ health' = Failed(TRUE)
          /\ collection' = NoCollection /\ UNCHANGED vouched
      BY <2>6 DEF FailPipeline
    <3>2. health' \in HealthType
      BY <3>1, HealthTyped
    <3>3. QED
      BY <1>0, <2>2, <2>4, <2>5, <3>1, <3>2, JobTyped
  <2>7. CASE /\ collection' = [collection EXCEPT !.step = "normalized"]
             /\ UNCHANGED <<unfinished, health, vouched>>
    <3>1. collection' \in CollectionType
      BY <1>0, <2>7 DEF CollectionType
    <3>2. QED
      BY <1>0, <2>2, <2>4, <2>5, <2>7, <3>1, JobTyped
  <2>8. QED
    BY <2>1, <2>6, <2>7
<1>4. CASE StageFails
  <2>1. /\ unfinished' = collection.new /\ health' = Failed(TRUE)
        /\ collection' = NoCollection /\ Trouble
        /\ UNCHANGED <<day, calendar, pages, dated, product, lost, vouched>>
    BY <1>4 DEF StageFails, FailPipeline
  <2>2. health' \in HealthType
    BY <2>1, HealthTyped
  <2>3. QED
    BY <1>0, <2>1, <2>2, JobTyped
<1>5. CASE CompletePipeline
  BY <1>0, <1>5, HealthTyped, JobTyped DEF CompletePipeline
<1>6. CASE JobDies
  <2>1. lost' \subseteq calendar
    BY <1>0, <1>6 DEF JobDies, On
  <2>2. QED
    BY <1>0, <1>6, <2>1, JobTyped DEF JobDies
<1>7. CASE Midnight
  <2>1. day' \in 0..LastDay /\ trouble' \in 0..MaxTrouble
    <3>1. day' = day + 1 /\ day < LastDay /\ LastDay \in Nat
      BY <1>7, CoverageConstants DEF Midnight, CoverageNumbers
    <3>2. Trouble \/ UNCHANGED trouble
      BY <1>7 DEF Midnight, TroubleIf
    <3>3. QED
      BY <1>0, <3>1, <3>2, TroubleCounted
  <2>2. UNCHANGED <<calendar, pages, dated, health, collection, unfinished, product, vouched, lost>>
    BY <1>7 DEF Midnight
  <2>3. Months' = Months /\ ProductType' = ProductType
    BY <2>2 DEF Months, ProductType, PageOf
  <2>4. QED
    BY <2>1, <2>2, <2>3 DEF CoverageTypeOK
<1>8. CASE \E a \in ForecastAreas : BuildForecast(a)
  <2>1. PICK a \in ForecastAreas : BuildForecast(a)
    BY <1>8
  <2>2. PICK demand \in [Districts -> Spans], weather \in Spans :
          product' = [product EXCEPT ![a] =
            [built |-> day, through |-> CoveredThrough,
             holidays |-> {d \in dated : d \in day..(day + Horizon - 1)},
             demand |-> IF a = Province THEN Aggregated(demand) ELSE demand[a],
             weather |-> weather, vouched |-> vouched]]
    BY <2>1 DEF BuildForecast
  <2>a. PICK own : own = IF a = Province THEN Aggregated(demand) ELSE demand[a]
    OBVIOUS
  <2>3. own \in Spans
    <3>1. CASE a = Province
      <4>1. {demand[x] : x \in Districts} \in SUBSET Spans /\ {demand[x] : x \in Districts} # {}
        BY SpanNumbers
      <4>2. Aggregated(demand) \in {demand[x] : x \in Districts}
        BY <4>1, MaxOfSpans DEF Aggregated
      <4>3. QED
        BY <2>a, <3>1, <4>1, <4>2
    <3>2. CASE a # Province
      BY <2>a, <3>2 DEF ForecastAreas
    <3>3. QED
      BY <3>1, <3>2
  <2>4. CoveredThrough \in -1..(LastDay + Reach - 1)
    <3>1. health.success \in -1..LastDay
      BY <1>0 DEF HealthType
    <3>2. LastDay \in Nat /\ Reach \in Nat \ {0}
      BY CoverageConstants DEF CoverageNumbers
    <3>3. QED
      BY <3>1, <3>2 DEF CoveredThrough, NeverDone
  <2>5. day \in -1..LastDay
    BY <1>0
  <2>6. {d \in dated : d \in day..(day + Horizon - 1)} \subseteq calendar
    BY <1>0
  <2>7. PICK listing : listing = {d \in dated : d \in day..(day + Horizon - 1)}
    OBVIOUS
  <2>8. [built |-> day, through |-> CoveredThrough, holidays |-> listing,
         demand |-> own, weather |-> weather, vouched |-> vouched] \in ProductType
    BY <1>0, <2>3, <2>4, <2>5, <2>6, <2>7 DEF ProductType
  <2>9. product \in [ForecastAreas -> ProductType]
    BY DEF CoverageTypeOK
  <2>10. product' \in [ForecastAreas -> ProductType]
    BY <2>2, <2>a, <2>7, <2>8, <2>9
  <2>11. UNCHANGED <<day, calendar, pages, dated, health, collection, unfinished,
                     trouble, vouched, lost>>
    BY <2>1 DEF BuildForecast
  <2>12. Months' = Months /\ ProductType' = ProductType
    BY <2>11 DEF Months, ProductType, PageOf
  <2>13. QED
    BY <2>10, <2>11, <2>12 DEF CoverageTypeOK
<1>9. CASE UNCHANGED coverageVars
  <2>1. Months' = Months /\ ProductType' = ProductType
    BY <1>9 DEF Months, ProductType, PageOf, coverageVars
  <2>2. QED
    BY <1>9, <2>1 DEF coverageVars, CoverageTypeOK
<1>10. QED
  BY <1>1, <1>2, <1>3, <1>4, <1>5, <1>6, <1>7, <1>8, <1>9 DEF CoverageNext

\* Every variable of the coverage keeps its type, the pages of every run among
\* the months that can be asked for.
THEOREM CoverageTypes == CoverageSpec => []CoverageTypeOK
  BY CoverageTypedInitially, CoverageTypesKept, PTL DEF CoverageSpec

-----------------------------------------------------------------------------
(*****************************************************************************)
(* ReadCache: the account of the payload cache, for any payloads, sizes      *)
(* and limits.                                                               *)
(*****************************************************************************)

LEMMA CacheNumbers ==
  /\ \A p \in Payloads : SizeOf[p] \in Nat
  /\ MaxBytes \in Nat /\ MaxEntries \in Nat \ {0} /\ NoPayload \notin Payloads
  BY CacheAssumption

\* A set of numbers has a least member.
LEMMA LeastOf ==
  ASSUME NEW S \in SUBSET Nat, S # {}
  PROVE  \E m \in S : \A n \in S : m <= n
<1> DEFINE R == {p \in Nat \X Nat : p[1] < p[2]}
<1>1. IsWellFoundedOn(R, Nat)
  BY NatLessThanWellFounded DEF OpToRel
<1> HIDE DEF R
<1>2. PICK m \in S : \A n \in S : ~(<<n, m>> \in R)
  BY <1>1, WFMin
<1>3. ASSUME NEW n \in S PROVE m <= n
  <2>1. n \in Nat /\ m \in Nat /\ ~(<<n, m>> \in R)
    BY <1>2
  <2>2. ~(n < m)
    BY <2>1 DEF R
  <2>3. QED
    BY <2>1, <2>2
<1>4. QED
  BY <1>3

\* What holds of 0 and of n + 1 whenever it holds of n, up to a bound: stated of
\* the set of numbers of which it holds.
LEMMA UpTo ==
  ASSUME NEW last \in Nat, NEW S, 0 \in S,
         \A n \in 0..last : n < last /\ n \in S => n + 1 \in S
  PROVE  \A n \in 0..last : n \in S
<1> SUFFICES ASSUME NEW bad \in 0..last, bad \notin S PROVE FALSE
  OBVIOUS
<1> DEFINE T == {n \in 0..last : n \notin S}
<1>1. PICK m \in T : \A n \in T : m <= n
  <2>1. T \in SUBSET Nat /\ T # {}
    OBVIOUS
  <2>2. QED
    BY <2>1, LeastOf
<1>2. m \in 0..last /\ m # 0 /\ m \notin S
  OBVIOUS
<1>3. m - 1 \in 0..last /\ m - 1 < last /\ m - 1 \in S /\ (m - 1) + 1 = m
  BY <1>1, <1>2
<1>4. QED
  BY <1>2, <1>3

-----------------------------------------------------------------------------
\* The sums of a list.
Adds(f, list, m) ==
  /\ f \in [0..m -> Nat] /\ f[0] = 0
  /\ \A n \in 1..m : f[n] = f[n - 1] + SizeOf[list[n]]

LEMMA SomethingAdds ==
  ASSUME NEW list \in Seq(Payloads)
  PROVE  \A m \in 0..Len(list) : \E f : Adds(f, list, m)
<1> DEFINE S == {m \in 0..Len(list) : \E f : Adds(f, list, m)}
<1>1. Len(list) \in Nat /\ \A n \in 1..Len(list) : SizeOf[list[n]] \in Nat
  BY CacheNumbers
<1>2. 0 \in S
  <2>1. Adds([n \in 0..0 |-> 0], list, 0)
    BY DEF Adds
  <2>2. QED
    BY <1>1, <2>1
<1>3. ASSUME NEW n \in 0..Len(list), n < Len(list), n \in S
      PROVE  n + 1 \in S
  <2>1. PICK f : Adds(f, list, n)
    BY <1>3
  <2>2. PICK size \in Nat : size = SizeOf[list[n + 1]]
    BY <1>1, <1>3
  <2>3. PICK g : g = [k \in 0..(n + 1) |-> IF k = n + 1 THEN f[n] + size ELSE f[k]]
    OBVIOUS
  <2>4. g \in [0..(n + 1) -> Nat] /\ g[0] = 0
    BY <1>1, <2>1, <2>2, <2>3 DEF Adds
  <2>5. ASSUME NEW k \in 1..(n + 1) PROVE g[k] = g[k - 1] + SizeOf[list[k]]
    <3>1. CASE k = n + 1
      <4>1. g[k] = f[n] + size /\ g[k - 1] = f[n]
        BY <1>1, <2>3, <3>1
      <4>2. QED
        BY <2>2, <3>1, <4>1
    <3>2. CASE k # n + 1
      <4>1. k \in 1..n /\ k - 1 \in 0..n /\ k - 1 # n + 1 /\ k - 1 \in 0..(n + 1) /\ k \in 0..(n + 1)
        BY <1>1, <3>2
      <4>2. g[k] = f[k] /\ g[k - 1] = f[k - 1]
        BY <2>3, <3>2, <4>1
      <4>3. QED
        BY <2>1, <4>1, <4>2 DEF Adds
    <3>3. QED
      BY <3>1, <3>2
  <2>6. Adds(g, list, n + 1)
    BY <2>4, <2>5 DEF Adds
  <2>7. QED
    BY <1>1, <1>3, <2>6
<1> HIDE DEF S
<1>4. \A m \in 0..Len(list) : m \in S
  BY <1>1, <1>2, <1>3, UpTo
<1>5. QED
  BY <1>4 DEF S

LEMMA SumsAdd ==
  ASSUME NEW list \in Seq(Payloads)
  PROVE  Adds(Sums(list), list, Len(list))
<1>1. PICK f : Adds(f, list, Len(list))
  BY SomethingAdds
<1>2. f = [n \in 0..Len(list) |-> IF n = 0 THEN 0 ELSE f[n - 1] + SizeOf[list[n]]]
  BY <1>1 DEF Adds
<1>3. Sums(list) = CHOOSE g : g = [n \in 0..Len(list) |-> IF n = 0 THEN 0 ELSE g[n - 1] + SizeOf[list[n]]]
  BY DEF Sums
<1>4. PICK h : h = Sums(list)
  OBVIOUS
<1>5. h = [n \in 0..Len(list) |-> IF n = 0 THEN 0 ELSE h[n - 1] + SizeOf[list[n]]]
  BY <1>2, <1>3, <1>4
<1>6. Len(list) \in Nat
  OBVIOUS
<1>7. h[0] = 0 /\ \A n \in 1..Len(list) : h[n] = h[n - 1] + SizeOf[list[n]]
  <2>1. h[0] = 0
    BY <1>5, <1>6
  <2>2. ASSUME NEW n \in 1..Len(list) PROVE h[n] = h[n - 1] + SizeOf[list[n]]
    BY <1>5, <1>6
  <2>3. QED
    BY <2>1, <2>2
<1>8. \A n \in 0..Len(list) : h[n] \in Nat
  <2> DEFINE S == {n \in 0..Len(list) : h[n] \in Nat}
  <2>1. 0 \in S
    BY <1>6, <1>7
  <2>2. ASSUME NEW n \in 0..Len(list), n < Len(list), n \in S PROVE n + 1 \in S
    <3>1. n + 1 \in 1..Len(list) /\ (n + 1) - 1 = n
      BY <1>6, <2>2
    <3>2. h[n + 1] = h[n] + SizeOf[list[n + 1]]
      BY <1>7, <3>1
    <3>3. SizeOf[list[n + 1]] \in Nat
      BY <3>1, CacheNumbers
    <3>4. QED
      BY <1>6, <2>2, <3>1, <3>2, <3>3
  <2> HIDE DEF S
  <2>3. \A n \in 0..Len(list) : n \in S
    BY <1>6, <2>1, <2>2, UpTo
  <2>4. QED
    BY <2>3 DEF S
<1>9. h \in [0..Len(list) -> Nat]
  BY <1>5, <1>8
<1>a. QED
  BY <1>4, <1>7, <1>9 DEF Adds

\* The same payloads in the same order weigh the same, wherever they stand.
Alike(a, from, b, onto, size) == \A n \in 1..size : b[onto + n] = a[from + n]

LEMMA SameStretch ==
  ASSUME NEW a \in Seq(Payloads), NEW b \in Seq(Payloads), NEW size \in Nat,
         NEW i \in Nat, NEW iEnd \in 0..Len(a), iEnd = i + size,
         NEW j \in Nat, NEW jEnd \in 0..Len(b), jEnd = j + size,
         Alike(a, i, b, j, size)
  PROVE  Sums(b)[jEnd] - Sums(b)[j] = Sums(a)[iEnd] - Sums(a)[i]
<1>1. PICK f : f = Sums(a)
  OBVIOUS
<1>2. PICK g : g = Sums(b)
  OBVIOUS
<1>3. Adds(f, a, Len(a)) /\ Adds(g, b, Len(b)) /\ Len(a) \in Nat /\ Len(b) \in Nat
  BY <1>1, <1>2, SumsAdd
<1> DEFINE S == {n \in 0..size : g[j + n] - g[j] = f[i + n] - f[i]}
<1>4. 0 \in S
  <2>1. i \in 0..Len(a) /\ j \in 0..Len(b)
    BY <1>3
  <2>2. g[j] \in Nat /\ f[i] \in Nat
    BY <1>3, <2>1 DEF Adds
  <2>3. QED
    BY <2>2
<1>5. ASSUME NEW n \in 0..size, n < size, n \in S PROVE n + 1 \in S
  <2>1. PICK y \in Nat : y = j + n + 1
    OBVIOUS
  <2>2. PICK x \in Nat : x = i + n + 1
    OBVIOUS
  <2>3. /\ y \in 1..Len(b) /\ y - 1 = j + n /\ y - 1 \in 0..Len(b) /\ j \in 0..Len(b)
        /\ x \in 1..Len(a) /\ x - 1 = i + n /\ x - 1 \in 0..Len(a) /\ i \in 0..Len(a)
        /\ y = j + (n + 1) /\ x = i + (n + 1) /\ n + 1 \in 1..size /\ n + 1 \in 0..size
    BY <1>3, <1>5, <2>1, <2>2
  <2>4. g[y] = g[y - 1] + SizeOf[b[y]] /\ f[x] = f[x - 1] + SizeOf[a[x]] /\ b[y] = a[x]
    BY <1>3, <2>3 DEF Adds, Alike
  <2>5. g[y - 1] \in Nat /\ f[x - 1] \in Nat /\ g[j] \in Nat /\ f[i] \in Nat
    BY <1>3, <2>3 DEF Adds
  <2>6. PICK w \in Nat : w = SizeOf[a[x]] /\ w = SizeOf[b[y]]
    <3>1. a[x] \in Payloads
      BY <1>3, <2>3
    <3>2. QED
      BY <2>4, <3>1, CacheNumbers
  <2>7. g[y - 1] - g[j] = f[x - 1] - f[i]
    BY <1>5, <2>3
  <2>8. g[y] = g[y - 1] + w /\ f[x] = f[x - 1] + w
    BY <2>4, <2>6
  <2>9. g[y] - g[j] = f[x] - f[i]
    <3>1. PICK c \in Nat, d \in Nat : c = g[y - 1] /\ d = f[x - 1]
      BY <2>5
    <3>2. PICK k \in Nat, l \in Nat : k = g[j] /\ l = f[i]
      BY <2>5
    <3>3. c - k = d - l /\ g[y] = c + w /\ f[x] = d + w
      BY <2>7, <2>8, <3>1, <3>2
    <3>4. (c + w) - k = (d + w) - l
      BY <3>3
    <3>5. QED
      BY <3>2, <3>3, <3>4
  <2>a. QED
    BY <2>3, <2>9
<1> HIDE DEF S
<1>6. size \in S
  <2>1. \A n \in 0..size : n \in S
    BY <1>4, <1>5, UpTo
  <2>2. QED
    BY <2>1
<1>7. QED
  BY <1>1, <1>2, <1>6 DEF S

LEMMA SumsAreNumbers ==
  ASSUME NEW list \in Seq(Payloads), NEW n \in 0..Len(list)
  PROVE  Sums(list)[n] \in Nat /\ Sums(list)[0] = 0
<1>1. PICK f : f = Sums(list)
  OBVIOUS
<1>2. f \in [0..Len(list) -> Nat] /\ f[0] = 0
  BY <1>1, SumsAdd DEF Adds
<1>3. QED
  BY <1>1, <1>2

\* A payload put last adds its size.
LEMMA TotalOfAppended ==
  ASSUME NEW list \in Seq(Payloads), NEW p \in Payloads
  PROVE  Total(Append(list, p)) = Total(list) + SizeOf[p]
<1>1. PICK b : b = Append(list, p)
  OBVIOUS
<1>2. /\ b \in Seq(Payloads) /\ Len(b) = Len(list) + 1 /\ b[Len(list) + 1] = p
      /\ \A i \in 1..Len(list) : b[i] = list[i]
  BY <1>1, AppendProperties
<1>3. Len(list) \in Nat
  OBVIOUS
<1>4. Sums(b)[Len(list)] - Sums(b)[0] = Sums(list)[Len(list)] - Sums(list)[0]
  <2>1. Alike(list, 0, b, 0, Len(list))
    BY <1>2, <1>3 DEF Alike
  <2>2. Len(list) \in 0..Len(list) /\ Len(list) \in 0..Len(b) /\ Len(list) = 0 + Len(list)
    BY <1>2, <1>3
  <2>3. QED
    BY <1>2, <1>3, <2>1, <2>2, SameStretch
<1>5. Sums(b)[Len(list) + 1] = Sums(b)[Len(list)] + SizeOf[p]
  <2>1. PICK g : g = Sums(b)
    OBVIOUS
  <2>2. Adds(g, b, Len(b))
    BY <1>2, <2>1, SumsAdd
  <2>3. Len(list) + 1 \in 1..Len(b) /\ (Len(list) + 1) - 1 = Len(list)
    BY <1>2, <1>3
  <2>4. QED
    BY <1>2, <2>1, <2>2, <2>3 DEF Adds
<1>6. /\ Sums(b)[0] = 0 /\ Sums(list)[0] = 0
      /\ Sums(b)[Len(list)] \in Nat /\ Sums(list)[Len(list)] \in Nat
  <2>1. 0 \in 0..Len(b) /\ Len(list) \in 0..Len(b) /\ Len(list) \in 0..Len(list)
    BY <1>2, <1>3
  <2>2. QED
    BY <1>2, <2>1, SumsAreNumbers
<1>7. Sums(b)[Len(list)] = Sums(list)[Len(list)]
  BY <1>4, <1>6
<1>8. QED
  BY <1>1, <1>2, <1>5, <1>7 DEF Total

\* What is dropped in front takes its sum along.
LEMMA TotalOfRest ==
  ASSUME NEW list \in Seq(Payloads), NEW n \in 0..Len(list)
  PROVE  /\ SubSeq(list, n + 1, Len(list)) \in Seq(Payloads)
         /\ Len(SubSeq(list, n + 1, Len(list))) = Len(list) - n
         /\ \A i \in 1..(Len(list) - n) : SubSeq(list, n + 1, Len(list))[i] = list[n + i]
         /\ Total(SubSeq(list, n + 1, Len(list))) = Total(list) - Sums(list)[n]
<1>1. PICK b : b = SubSeq(list, n + 1, Len(list))
  OBVIOUS
<1>2. Len(list) \in Nat /\ n \in Nat /\ n <= Len(list)
  OBVIOUS
<1>3. PICK rest \in Nat : rest = Len(list) - n
  BY <1>2
<1>4. b \in Seq(Payloads) /\ Len(b) = rest /\ \A i \in 1..rest : b[i] = list[n + i]
  <2>1. n + 1 \in Int /\ Len(list) \in Int /\ \A i \in (n + 1)..Len(list) : list[i] \in Payloads
    BY <1>2
  <2>2. /\ b \in Seq(Payloads)
        /\ Len(b) = IF n + 1 <= Len(list) THEN Len(list) - (n + 1) + 1 ELSE 0
        /\ \A i \in 1..(Len(list) - (n + 1) + 1) : b[i] = list[n + 1 + i - 1]
    BY <1>1, <2>1, SubSeqProperties
  <2>3. Len(list) - (n + 1) + 1 = rest /\ \A i \in 1..rest : n + 1 + i - 1 = n + i
    BY <1>2, <1>3
  <2>4. QED
    BY <1>2, <1>3, <2>2, <2>3
<1>5. Sums(b)[rest] - Sums(b)[0] = Sums(list)[Len(list)] - Sums(list)[n]
  <2>1. Alike(list, n, b, 0, rest)
    BY <1>2, <1>4 DEF Alike
  <2>2. /\ rest \in 0..Len(b) /\ rest = 0 + rest
        /\ Len(list) \in 0..Len(list) /\ Len(list) = n + rest
    BY <1>2, <1>3, <1>4
  <2>3. QED
    BY <1>2, <1>4, <2>1, <2>2, SameStretch
<1>6. rest = Len(b)
  BY <1>4
<1>7. Sums(b)[0] = 0 /\ Sums(b)[Len(b)] \in Nat /\ Sums(list)[n] \in Nat /\ Sums(list)[Len(list)] \in Nat
  <2>1. 0 \in 0..Len(b) /\ Len(b) \in 0..Len(b) /\ Len(list) \in 0..Len(list)
    BY <1>2, <1>4
  <2>2. QED
    BY <1>4, <2>1, SumsAreNumbers
<1>8. Sums(b)[Len(b)] = Sums(list)[Len(list)] - Sums(list)[n]
  BY <1>5, <1>6, <1>7
<1>9. QED
  BY <1>1, <1>3, <1>4, <1>8 DEF Total

\* Without one entry the total is less by its size, and nothing else changes.
LEMMA TotalOfRemoved ==
  ASSUME NEW list \in Seq(Payloads), NEW i \in 1..Len(list)
  PROVE  /\ RemoveAt(list, i) \in Seq(Payloads)
         /\ Len(RemoveAt(list, i)) = Len(list) - 1
         /\ \A k \in 1..(i - 1) : RemoveAt(list, i)[k] = list[k]
         /\ \A k \in i..(Len(list) - 1) : RemoveAt(list, i)[k] = list[k + 1]
         /\ Total(RemoveAt(list, i)) = Total(list) - SizeOf[list[i]]
<1>1. PICK b : b = RemoveAt(list, i)
  OBVIOUS
<1>2. PICK front : front = SubSeq(list, 1, i - 1)
  OBVIOUS
<1>3. PICK back : back = SubSeq(list, i + 1, Len(list))
  OBVIOUS
<1>4. PICK len \in Nat \ {0} : len = Len(list)
  OBVIOUS
<1>5. i \in 1..len
  BY <1>4
<1>6. front \in Seq(Payloads) /\ Len(front) = i - 1 /\ \A k \in 1..(i - 1) : front[k] = list[k]
  <2>1. 1 \in Int /\ i - 1 \in Int /\ \A k \in 1..(i - 1) : list[k] \in Payloads
    BY <1>4, <1>5
  <2>2. /\ front \in Seq(Payloads)
        /\ Len(front) = IF 1 <= i - 1 THEN (i - 1) - 1 + 1 ELSE 0
        /\ \A k \in 1..((i - 1) - 1 + 1) : front[k] = list[1 + k - 1]
    BY <1>2, <2>1, SubSeqProperties
  <2>3. QED
    BY <1>5, <2>2
<1>7. back \in Seq(Payloads) /\ Len(back) = len - i /\ \A k \in 1..(len - i) : back[k] = list[i + k]
  <2>1. i \in 0..Len(list)
    BY <1>4, <1>5
  <2>2. QED
    BY <1>3, <1>4, <2>1, TotalOfRest
<1>8. b = front \o back
  BY <1>1, <1>2, <1>3 DEF RemoveAt
<1>9. /\ b \in Seq(Payloads) /\ Len(b) = len - 1
      /\ \A k \in 1..(i - 1) : b[k] = list[k]
      /\ \A k \in i..(len - 1) : b[k] = list[k + 1]
  <2>1. /\ b \in Seq(Payloads) /\ Len(b) = Len(front) + Len(back)
        /\ \A k \in 1..(Len(front) + Len(back)) :
             b[k] = IF k <= Len(front) THEN front[k] ELSE back[k - Len(front)]
    BY <1>6, <1>7, <1>8, ConcatProperties
  <2>2. Len(b) = len - 1
    BY <1>4, <1>5, <1>6, <1>7, <2>1
  <2>3. ASSUME NEW k \in 1..(i - 1) PROVE b[k] = list[k]
    <3>1. k \in 1..(Len(front) + Len(back)) /\ k <= Len(front)
      BY <1>4, <1>5, <1>6, <1>7
    <3>2. QED
      BY <1>6, <2>1, <3>1
  <2>4. ASSUME NEW k \in i..(len - 1) PROVE b[k] = list[k + 1]
    <3>1. k \in 1..(Len(front) + Len(back)) /\ ~(k <= Len(front)) /\ k - Len(front) = k - (i - 1)
      BY <1>4, <1>5, <1>6, <1>7
    <3>2. k - (i - 1) \in 1..(len - i) /\ i + (k - (i - 1)) = k + 1
      BY <1>4, <1>5
    <3>3. QED
      BY <1>7, <2>1, <3>1, <3>2
  <2>5. QED
    BY <2>1, <2>2, <2>3, <2>4
<1>a. Sums(b)[i - 1] - Sums(b)[0] = Sums(list)[i - 1] - Sums(list)[0]
  <2>1. Alike(list, 0, b, 0, i - 1)
    BY <1>5, <1>9 DEF Alike
  <2>2. /\ i - 1 \in Nat /\ i - 1 = 0 + (i - 1) /\ i - 1 \in 0..Len(list) /\ i - 1 \in 0..Len(b)
    BY <1>4, <1>5, <1>9
  <2>3. QED
    BY <1>9, <2>1, <2>2, SameStretch
<1>b. Sums(b)[len - 1] - Sums(b)[i - 1] = Sums(list)[len] - Sums(list)[i]
  <2>1. Alike(list, i, b, i - 1, len - i)
    <3>1. ASSUME NEW k \in 1..(len - i) PROVE b[(i - 1) + k] = list[i + k]
      <4>1. (i - 1) + k \in i..(len - 1) /\ ((i - 1) + k) + 1 = i + k
        BY <1>4, <1>5
      <4>2. QED
        BY <1>9, <4>1
    <3>2. QED
      BY <3>1 DEF Alike
  <2>2. /\ i - 1 \in Nat /\ i \in Nat /\ len - i \in Nat
        /\ len - 1 \in 0..Len(b) /\ len - 1 = (i - 1) + (len - i)
        /\ len \in 0..Len(list) /\ len = i + (len - i)
    BY <1>4, <1>5, <1>9
  <2>3. QED
    BY <1>9, <2>1, <2>2, SameStretch
<1>c. Sums(list)[i] = Sums(list)[i - 1] + SizeOf[list[i]]
  <2>1. PICK f : f = Sums(list)
    OBVIOUS
  <2>2. Adds(f, list, Len(list))
    BY <2>1, SumsAdd
  <2>3. QED
    BY <2>1, <2>2 DEF Adds
<1>e. /\ Sums(b)[0] = 0 /\ Sums(list)[0] = 0 /\ Sums(b)[i - 1] \in Nat /\ Sums(b)[len - 1] \in Nat
      /\ Sums(list)[i - 1] \in Nat /\ Sums(list)[i] \in Nat /\ Sums(list)[len] \in Nat
  <2>1. /\ 0 \in 0..Len(b) /\ i - 1 \in 0..Len(b) /\ len - 1 \in 0..Len(b)
        /\ i - 1 \in 0..Len(list) /\ i \in 0..Len(list) /\ len \in 0..Len(list)
    BY <1>4, <1>5, <1>9
  <2>2. QED
    BY <1>9, <2>1, SumsAreNumbers
<1>f. PICK w \in Nat : w = SizeOf[list[i]]
  <2>1. list[i] \in Payloads
    OBVIOUS
  <2>2. QED
    BY <2>1, CacheNumbers
<1>g. Sums(b)[i - 1] = Sums(list)[i - 1]
  BY <1>a, <1>e
<1>h. Sums(list)[i] = Sums(list)[i - 1] + w
  BY <1>c, <1>f
<1>i. Sums(b)[len - 1] = Sums(list)[len] - w
  BY <1>5, <1>b, <1>e, <1>g, <1>h
<1>j. QED
  BY <1>1, <1>4, <1>9, <1>f, <1>i DEF Total

-----------------------------------------------------------------------------
CacheTyped ==
  /\ head \in Payloads \union {NoPayload}
  /\ cache \in Seq(Payloads)
  /\ bytes \in Int
  /\ reader \in [Readers ->
       [at : {"idle", "look", "decode", "store", "served"},
        wants : Payloads \union {NoPayload}, got : Payloads \union {NoPayload}]]

\* Whoever is on the way to the cache wants a payload.
CacheSafe ==
  /\ CacheTyped
  /\ \A r \in Readers : reader[r].at \in {"look", "decode", "store"} => reader[r].wants \in Payloads
  /\ AccountIsTrue

LEMMA InjectiveOf ==
  ASSUME NEW list \in Seq(Payloads)
  PROVE  IsInjective(list) <=> \A i, k \in 1..Len(list) : list[i] = list[k] => i = k
  BY DEF IsInjective

\* A list without p, its total, and what it holds.
TakenOut(list, p, total) ==
  /\ list \in Seq(Payloads) /\ IsInjective(list)
  /\ \A i \in 1..Len(list) : list[i] # p
  /\ Total(list) = total

LEMMA TakenOutOf ==
  ASSUME CacheTyped, AccountIsTrue, NEW p \in Payloads
  PROVE  /\ TakenOut(Without(p), p, Uncharged(p))
         /\ Uncharged(p) \in Int
         /\ Contains(cache, p) => Len(Without(p)) + 1 = Len(cache)
         /\ Contains(cache, p) => Uncharged(p) = bytes - SizeOf[p]
<1>1. cache \in Seq(Payloads) /\ bytes \in Int /\ IsInjective(cache) /\ bytes = Total(cache)
      /\ SizeOf[p] \in Nat
  BY CacheNumbers DEF CacheTyped, AccountIsTrue
<1>2. CASE Contains(cache, p)
  <2>1. PICK i : i = CHOOSE k \in DOMAIN cache : cache[k] = p
    OBVIOUS
  <2>2. DOMAIN cache = 1..Len(cache) /\ \E k \in DOMAIN cache : cache[k] = p
    BY <1>1, <1>2 DEF Contains
  <2>3. i \in 1..Len(cache) /\ cache[i] = p
    BY <2>1, <2>2
  <2>4. PICK list : list = Without(p)
    OBVIOUS
  <2>5. list = RemoveAt(cache, i)
    BY <1>2, <2>1, <2>4 DEF Without
  <2>6. PICK len \in Nat : len = Len(cache)
    BY <1>1
  <2>7. /\ list \in Seq(Payloads) /\ Len(list) = len - 1
        /\ \A k \in 1..(i - 1) : list[k] = cache[k]
        /\ \A k \in i..(len - 1) : list[k] = cache[k + 1]
        /\ Total(list) = Total(cache) - SizeOf[cache[i]]
    BY <1>1, <2>3, <2>5, <2>6, TotalOfRemoved
  <2>8. i \in 1..len
    BY <2>3, <2>6
  <2>9. ASSUME NEW k \in 1..(len - 1)
        PROVE  \/ k \in 1..(i - 1) /\ k \in 1..len /\ k # i /\ list[k] = cache[k]
               \/ k \in i..(len - 1) /\ k + 1 \in 1..len /\ k + 1 # i /\ list[k] = cache[k + 1]
    <3>1. CASE k < i
      <4>1. k \in 1..(i - 1) /\ k \in 1..len /\ k # i
        BY <2>8, <3>1
      <4>2. QED
        BY <2>7, <4>1
    <3>2. CASE ~(k < i)
      <4>1. k \in i..(len - 1) /\ k + 1 \in 1..len /\ k + 1 # i
        BY <2>8, <3>2
      <4>2. QED
        BY <2>7, <4>1
    <3>3. QED
      BY <3>1, <3>2
  <2>a. \A x, y \in 1..len : cache[x] = cache[y] => x = y
    BY <1>1, <2>6, InjectiveOf
  <2>b. \A k \in 1..(len - 1) : list[k] # p
    BY <2>3, <2>8, <2>9, <2>a
  <2>c. ASSUME NEW x \in 1..(len - 1), NEW y \in 1..(len - 1), list[x] = list[y]
        PROVE  x = y
    <3>1. PICK u \in 1..len : list[x] = cache[u] /\ ((u = x /\ x < i) \/ (u = x + 1 /\ x >= i))
      <4>1. CASE x \in 1..(i - 1) /\ x \in 1..len /\ list[x] = cache[x]
        <5>1. x < i
          BY <2>8, <4>1
        <5>2. QED
          BY <4>1, <5>1
      <4>2. CASE x \in i..(len - 1) /\ x + 1 \in 1..len /\ list[x] = cache[x + 1]
        <5>1. x >= i
          BY <2>8, <4>2
        <5>2. QED
          BY <4>2, <5>1
      <4>3. QED
        BY <2>9, <4>1, <4>2
    <3>2. PICK v \in 1..len : list[y] = cache[v] /\ ((v = y /\ y < i) \/ (v = y + 1 /\ y >= i))
      <4>1. CASE y \in 1..(i - 1) /\ y \in 1..len /\ list[y] = cache[y]
        <5>1. y < i
          BY <2>8, <4>1
        <5>2. QED
          BY <4>1, <5>1
      <4>2. CASE y \in i..(len - 1) /\ y + 1 \in 1..len /\ list[y] = cache[y + 1]
        <5>1. y >= i
          BY <2>8, <4>2
        <5>2. QED
          BY <4>2, <5>1
      <4>3. QED
        BY <2>9, <4>1, <4>2
    <3>3. u = v
      BY <2>a, <2>c, <3>1, <3>2
    <3>4. QED
      BY <2>8, <3>1, <3>2, <3>3
  <2>d. IsInjective(list)
    BY <2>6, <2>7, <2>c, InjectiveOf
  <2>e. Uncharged(p) = bytes - SizeOf[p]
    BY <1>2 DEF Uncharged
  <2>f. Total(list) = Uncharged(p)
    BY <1>1, <2>3, <2>7, <2>e
  <2>g. TakenOut(list, p, Uncharged(p))
    BY <2>6, <2>7, <2>b, <2>d, <2>f DEF TakenOut
  <2>h. Len(list) + 1 = Len(cache) /\ Uncharged(p) \in Int
    BY <1>1, <2>6, <2>7, <2>e
  <2>i. QED
    BY <2>4, <2>e, <2>g, <2>h
<1>3. CASE ~Contains(cache, p)
  <2>1. Without(p) = cache /\ Uncharged(p) = bytes
    BY <1>3 DEF Without, Uncharged
  <2>2. \A i \in 1..Len(cache) : cache[i] # p
    BY <1>1, <1>3 DEF Contains
  <2>3. QED
    BY <1>1, <1>3, <2>1, <2>2 DEF TakenOut
<1>4. QED
  BY <1>2, <1>3

Dropped(list, n, p) == Append(SubSeq(list, n + 1, Len(list)), p)

\* A payload put last into a list without it, once n of the first are dropped.
LEMMA PutLast ==
  ASSUME NEW p \in Payloads, NEW list, NEW total, TakenOut(list, p, total),
         NEW n \in 0..Len(list),
         NEW new, new = Dropped(list, n, p)
  PROVE  /\ new \in Seq(Payloads) /\ IsInjective(new)
         /\ Len(new) = Len(list) - n + 1
         /\ Total(new) = total - Sums(list)[n] + SizeOf[p]
<1>1. /\ list \in Seq(Payloads) /\ Total(list) = total
      /\ \A i \in 1..Len(list) : list[i] # p
      /\ \A i, k \in 1..Len(list) : list[i] = list[k] => i = k
  BY InjectiveOf DEF TakenOut
<1>2. PICK len \in Nat : len = Len(list)
  BY <1>1
<1>3. n \in 0..len
  BY <1>2
<1>4. PICK rest : rest = SubSeq(list, n + 1, Len(list))
  OBVIOUS
<1>5. /\ rest \in Seq(Payloads) /\ Len(rest) = len - n
      /\ \A i \in 1..(len - n) : rest[i] = list[n + i]
      /\ Total(rest) = total - Sums(list)[n]
  BY <1>1, <1>2, <1>4, TotalOfRest
<1>6. /\ new \in Seq(Payloads) /\ Len(new) = len - n + 1 /\ new[len - n + 1] = p
      /\ \A i \in 1..(len - n) : new[i] = rest[i]
  BY <1>4, <1>5, AppendProperties DEF Dropped
<1>7. Total(new) = total - Sums(list)[n] + SizeOf[p]
  BY <1>4, <1>5, TotalOfAppended DEF Dropped
<1>8. \A i \in 1..(len - n) : n + i \in 1..len /\ new[i] = list[n + i] /\ new[i] # p
  BY <1>1, <1>2, <1>3, <1>5, <1>6
<1>9. \A i, k \in 1..(len - n + 1) : new[i] = new[k] => i = k
  <2> SUFFICES ASSUME NEW i \in 1..(len - n + 1), NEW k \in 1..(len - n + 1), new[i] = new[k]
               PROVE  i = k
    OBVIOUS
  <2>1. i \in 1..(len - n) \/ i = len - n + 1
    BY <1>3
  <2>2. k \in 1..(len - n) \/ k = len - n + 1
    BY <1>3
  <2>3. CASE i \in 1..(len - n) /\ k \in 1..(len - n)
    <3>1. n + i \in 1..Len(list) /\ n + k \in 1..Len(list) /\ list[n + i] = list[n + k]
      BY <1>2, <1>8, <2>3
    <3>2. n + i = n + k
      BY <1>1, <3>1
    <3>3. QED
      BY <1>3, <2>3, <3>2
  <2>4. QED
    BY <1>6, <1>8, <2>1, <2>2, <2>3
<1>a. IsInjective(new)
  BY <1>6, <1>9, InjectiveOf
<1>b. QED
  BY <1>2, <1>6, <1>7, <1>a

-----------------------------------------------------------------------------
LEMMA CacheInitially == CacheInit => CacheSafe
<1> SUFFICES ASSUME CacheInit PROVE CacheSafe
  OBVIOUS
<1>1. head = NoPayload /\ cache = <<>> /\ bytes = 0 /\ reader = [r \in Readers |-> Resting]
  BY DEF CacheInit
<1>2. cache \in Seq(Payloads) /\ Len(cache) = 0
  BY <1>1
<1>3. Total(cache) = 0
  <2>1. 0 \in 0..Len(cache)
    BY <1>2
  <2>2. Sums(cache)[0] = 0
    BY <1>2, <2>1, SumsAreNumbers
  <2>3. QED
    BY <1>2, <2>2 DEF Total
<1>4. CacheTyped
  BY <1>1, <1>2 DEF CacheTyped, Resting
<1>5. AccountIsTrue
  <2>0. \A i, k \in 1..Len(cache) : cache[i] = cache[k] => i = k
    BY <1>2
  <2>1. IsInjective(cache)
    BY <1>2, <2>0, InjectiveOf
  <2>2. 0 <= MaxBytes /\ 0 <= MaxEntries
    BY CacheNumbers
  <2>3. QED
    BY <1>1, <1>2, <1>3, <2>1, <2>2 DEF AccountIsTrue
<1>6. QED
  BY <1>1, <1>4, <1>5 DEF CacheSafe, Resting

ReadersTyped ==
  reader \in [Readers ->
       [at : {"idle", "look", "decode", "store", "served"},
        wants : Payloads \union {NoPayload}, got : Payloads \union {NoPayload}]]
ReadersWant ==
  \A r \in Readers : reader[r].at \in {"look", "decode", "store"} => reader[r].wants \in Payloads

LEMMA ReaderSteps ==
  ASSUME ReadersTyped, ReadersWant, NEW r \in Readers, NEW next,
         next \in [at : {"idle", "look", "decode", "store", "served"},
                  wants : Payloads \union {NoPayload}, got : Payloads \union {NoPayload}],
         next.at \in {"look", "decode", "store"} => next.wants \in Payloads,
         reader' = [reader EXCEPT ![r] = next]
  PROVE  ReadersTyped' /\ ReadersWant'
<1>1. reader'[r] = next /\ \A q \in Readers : q # r => reader'[q] = reader[q]
  BY DEF ReadersTyped
<1>2. ReadersTyped'
  BY DEF ReadersTyped
<1>3. ReadersWant'
  BY <1>1 DEF ReadersWant
<1>4. QED
  BY <1>2, <1>3

LEMMA GoesAndServes ==
  ASSUME ReadersTyped, ReadersWant, NEW r \in Readers, NEW to \in {"decode", "store"},
         reader[r].at \in {"look", "decode"}, Goes(r, to)
  PROVE  ReadersTyped' /\ ReadersWant'
<1>1. PICK next : next = [reader[r] EXCEPT !.at = to]
  OBVIOUS
<1>2. /\ next \in [at : {"idle", "look", "decode", "store", "served"},
                  wants : Payloads \union {NoPayload}, got : Payloads \union {NoPayload}]
      /\ next.wants = reader[r].wants
  BY <1>1 DEF ReadersTyped
<1>3. reader[r].wants \in Payloads
  BY DEF ReadersWant
<1>4. reader' = [reader EXCEPT ![r] = next]
  BY <1>1 DEF Goes
<1>5. QED
  BY <1>2, <1>3, <1>4, ReaderSteps

LEMMA ServesSteps ==
  ASSUME ReadersTyped, ReadersWant, NEW r \in Readers, NEW p \in Payloads \union {NoPayload},
         Serves(r, p)
  PROVE  ReadersTyped' /\ ReadersWant'
<1>1. PICK next : next = [reader[r] EXCEPT !.at = "served", !.got = p]
  OBVIOUS
<1>2. /\ next \in [at : {"idle", "look", "decode", "store", "served"},
                  wants : Payloads \union {NoPayload}, got : Payloads \union {NoPayload}]
      /\ next.at = "served"
  BY <1>1 DEF ReadersTyped
<1>3. reader' = [reader EXCEPT ![r] = next]
  BY <1>1 DEF Serves, ReadersTyped
<1>4. QED
  BY <1>2, <1>3, ReaderSteps

LEMMA SafeParts ==
  CacheSafe <=> /\ head \in Payloads \union {NoPayload}
                /\ cache \in Seq(Payloads) /\ bytes \in Int
                /\ ReadersTyped /\ ReadersWant /\ AccountIsTrue
BY DEF CacheSafe, CacheTyped, ReadersTyped, ReadersWant

LEMMA SafePartsNext ==
  ASSUME head' \in Payloads \union {NoPayload}, cache' \in Seq(Payloads), bytes' \in Int,
         ReadersTyped', ReadersWant', AccountIsTrue'
  PROVE  CacheSafe'
BY DEF CacheSafe, CacheTyped, ReadersTyped, ReadersWant

\* What a step that leaves the cache alone leaves true.
LEMMA AccountKept ==
  ASSUME AccountIsTrue, UNCHANGED <<cache, bytes>>
  PROVE  AccountIsTrue'
BY DEF AccountIsTrue, Total, Sums, IsInjective

LEMMA AccountNext ==
  ASSUME NEW new, cache' = new, bytes' = Total(new), bytes' <= MaxBytes,
         Len(new) <= MaxEntries, IsInjective(new)
  PROVE  AccountIsTrue'
<1>1. Total(cache)' = Total(new)
  BY DEF Total, Sums
<1>2. IsInjective(cache)'
  BY DEF IsInjective
<1>3. QED
  BY <1>1, <1>2 DEF AccountIsTrue

LEMMA LookSteps ==
  ASSUME CacheSafe, NEW r \in Readers, Look(r)
  PROVE  CacheSafe'
<1>0. /\ head \in Payloads \union {NoPayload} /\ cache \in Seq(Payloads) /\ bytes \in Int
      /\ ReadersTyped /\ ReadersWant /\ AccountIsTrue /\ CacheTyped
  BY SafeParts DEF CacheSafe
<1>1. PICK p : p = reader[r].wants
  OBVIOUS
<1>2. p \in Payloads /\ SizeOf[p] \in Nat
  BY <1>0, <1>1, CacheNumbers DEF Look, ReadersWant
<1>3. CASE Contains(cache, p)
  <2>1. cache' = Append(Without(p), p) /\ Serves(r, p) /\ bytes' = bytes /\ head' = head
    BY <1>1, <1>3 DEF Look
  <2>2. PICK list : list = Without(p)
    OBVIOUS
  <2>3. /\ TakenOut(list, p, Uncharged(p)) /\ Uncharged(p) \in Int
        /\ Len(list) + 1 = Len(cache) /\ Uncharged(p) = bytes - SizeOf[p]
    BY <1>0, <1>2, <1>3, <2>2, TakenOutOf
  <2>z. PICK none \in Nat : none = 0
    OBVIOUS
  <2>4. list \in Seq(Payloads) /\ none \in 0..Len(list) /\ SubSeq(list, none + 1, Len(list)) = list
    <3>1. list \in Seq(Payloads) /\ none + 1 = 1
      BY <2>3, <2>z DEF TakenOut
    <3>2. QED
      BY <2>z, <3>1, SubSeqFull
  <2>5. PICK new : new = cache'
    OBVIOUS
  <2>6. new = Dropped(list, none, p)
    BY <2>1, <2>2, <2>4, <2>5 DEF Dropped
  <2>7. /\ new \in Seq(Payloads) /\ IsInjective(new) /\ Len(new) = Len(list) - none + 1
        /\ Total(new) = Uncharged(p) - Sums(list)[none] + SizeOf[p]
    BY <1>2, <2>3, <2>4, <2>6, PutLast
  <2>8. Sums(list)[none] = 0
    BY <2>z, <2>4, SumsAreNumbers
  <2>9. Total(new) = bytes /\ Len(new) = Len(cache)
    BY <1>0, <1>2, <2>z, <2>3, <2>4, <2>7, <2>8
  <2>a. AccountIsTrue'
    <3>1. bytes' = Total(new) /\ bytes' <= MaxBytes /\ Len(new) <= MaxEntries /\ IsInjective(new)
      BY <1>0, <2>1, <2>7, <2>9 DEF AccountIsTrue
    <3>2. QED
      BY <2>5, <3>1, AccountNext
  <2>b. ReadersTyped' /\ ReadersWant'
    BY <1>0, <1>2, <2>1, ServesSteps
  <2>c. QED
    BY <1>0, <2>1, <2>5, <2>7, <2>a, <2>b, SafePartsNext
<1>4. CASE ~Contains(cache, p)
  <2>1. UNCHANGED <<cache, bytes, head>> /\ Goes(r, "decode") /\ reader[r].at = "look"
    BY <1>1, <1>4 DEF Look
  <2>2. ReadersTyped' /\ ReadersWant'
    BY <1>0, <2>1, GoesAndServes
  <2>3. QED
    BY <1>0, <2>1, <2>2, AccountKept, SafePartsNext
<1>5. QED
  BY <1>3, <1>4

\* The least number of entries that make room.
LEMMA EvictedIsEnough ==
  ASSUME NEW list \in Seq(Payloads), NEW used \in Int, NEW size \in Nat
  PROVE  /\ Evicted(list, used, size) \in 0..Len(list)
         /\ \/ Evicted(list, used, size) = Len(list)
            \/ Fits(list, used, size, Evicted(list, used, size))
<1> DEFINE Enough(n) == n = Len(list) \/ Fits(list, used, size, n)
<1>1. PICK len \in Nat : len = Len(list)
  OBVIOUS
<1>2. PICK T : T = {n \in 0..len : Enough(n)}
  OBVIOUS
<1>3. T \in SUBSET Nat /\ T # {}
  BY <1>1, <1>2
<1>4. PICK m \in T : \A n \in T : m <= n
  BY <1>3, LeastOf
<1>5. m \in 0..Len(list) /\ Enough(m)
  BY <1>1, <1>2, <1>4
<1>6. \A k \in 0..(m - 1) : ~Fits(list, used, size, k)
  <2> SUFFICES ASSUME NEW k \in 0..(m - 1), Fits(list, used, size, k) PROVE FALSE
    OBVIOUS
  <2>1. k \in 0..len /\ ~(m <= k)
    BY <1>1, <1>5
  <2>2. k \in T
    BY <1>2, <2>1
  <2>3. QED
    BY <1>4, <2>1, <2>2
<1>7. QED
  BY <1>5, <1>6 DEF Evicted

LEMMA StoreSteps ==
  ASSUME CacheSafe, NEW r \in Readers, StorePayload(r)
  PROVE  CacheSafe'
<1>0. /\ head \in Payloads \union {NoPayload} /\ cache \in Seq(Payloads) /\ bytes \in Int
      /\ ReadersTyped /\ ReadersWant /\ AccountIsTrue /\ CacheTyped
  BY SafeParts DEF CacheSafe
<1>1. PICK p : p = reader[r].wants
  OBVIOUS
<1>2. p \in Payloads
  BY <1>0, <1>1 DEF StorePayload, ReadersWant
<1>3. PICK size \in Nat : size = SizeOf[p]
  BY <1>2, CacheNumbers
<1>4. PICK list : list = Without(p)
  OBVIOUS
<1>5. PICK used : used = Uncharged(p)
  OBVIOUS
<1>6. PICK n \in Nat : n = Evicted(list, used, size)
  <2>1. list \in Seq(Payloads) /\ used \in Int
    BY <1>0, <1>2, <1>4, <1>5, TakenOutOf DEF TakenOut
  <2>2. QED
    BY <2>1, EvictedIsEnough
<1>7. head' = head /\ Serves(r, p)
  BY <1>1 DEF StorePayload
<1>8. ReadersTyped' /\ ReadersWant'
  BY <1>0, <1>2, <1>7, ServesSteps
<1>9. CASE size > MaxBytes
  <2>1. UNCHANGED <<cache, bytes>>
    BY <1>1, <1>3, <1>9 DEF StorePayload
  <2>2. QED
    BY <1>0, <1>7, <1>8, <2>1, AccountKept, SafePartsNext
<1>a. CASE ~(size > MaxBytes)
  <2>1. /\ cache' = Append(SubSeq(list, n + 1, Len(list)), p)
        /\ bytes' = Left(list, used, n) + size
    BY <1>1, <1>3, <1>4, <1>5, <1>6, <1>a DEF StorePayload
  <2>2. TakenOut(list, p, used) /\ used \in Int
    BY <1>0, <1>2, <1>4, <1>5, TakenOutOf
  <2>3. list \in Seq(Payloads) /\ Total(list) = used /\ Len(list) \in Nat
    BY <2>2 DEF TakenOut
  <2>4. n \in 0..Len(list) /\ (n = Len(list) \/ Fits(list, used, size, n))
    BY <1>6, <2>2, <2>3, EvictedIsEnough
  <2>5. PICK gone \in Nat : gone = Sums(list)[n]
    BY <2>3, <2>4, SumsAreNumbers
  <2>6. PICK new : new = cache'
    OBVIOUS
  <2>z. new = Dropped(list, n, p)
    BY <2>1, <2>6 DEF Dropped
  <2>7. /\ new \in Seq(Payloads) /\ IsInjective(new)
        /\ Len(new) = Len(list) - n + 1
        /\ Total(new) = used - gone + size
    <3>1. /\ new \in Seq(Payloads) /\ IsInjective(new)
          /\ Len(new) = Len(list) - n + 1
          /\ Total(new) = used - Sums(list)[n] + SizeOf[p]
      <4>1. n \in 0..Len(list) /\ TakenOut(list, p, used)
        BY <2>2, <2>4
      <4>2. QED
        BY <1>2, <1>6, <2>2, <2>3, <2>z, <4>1, PutLast
    <3>2. QED
      BY <1>3, <2>5, <3>1
  <2>8. bytes' = used - gone + size
    BY <2>1, <2>5 DEF Left
  <2>9. bytes' <= MaxBytes /\ Len(new) <= MaxEntries
    <3>1. CASE n = Len(list)
      <4>1. gone = used
        BY <2>3, <2>5, <3>1 DEF Total
      <4>2. QED
        BY <1>a, <2>3, <2>7, <2>8, <3>1, <4>1, CacheNumbers
    <3>2. CASE Fits(list, used, size, n)
      <4>1. used - gone + size <= MaxBytes /\ Len(list) - n < MaxEntries
        BY <2>5, <3>2 DEF Fits, Left
      <4>2. QED
        BY <2>3, <2>4, <2>7, <2>8, <4>1, CacheNumbers
    <3>3. QED
      BY <2>4, <3>1, <3>2
  <2>a. AccountIsTrue'
    BY <2>6, <2>7, <2>8, <2>9, AccountNext
  <2>b. bytes' \in Int
    BY <2>2, <2>8
  <2>c. QED
    BY <1>0, <1>7, <1>8, <2>6, <2>7, <2>a, <2>b, SafePartsNext
<1>b. QED
  BY <1>9, <1>a

LEMMA OtherSteps ==
  ASSUME CacheSafe, NEW r \in Readers, ReadHead(r) \/ Decode(r) \/ Respond(r)
  PROVE  CacheSafe'
<1>0. /\ head \in Payloads \union {NoPayload} /\ cache \in Seq(Payloads) /\ bytes \in Int
      /\ ReadersTyped /\ ReadersWant /\ AccountIsTrue
  BY SafeParts
<1>1. UNCHANGED <<cache, bytes, head>>
  BY DEF ReadHead, Decode, Respond
<1>2. ASSUME ReadHead(r) PROVE ReadersTyped' /\ ReadersWant'
  <2>1. PICK next : next = [at |-> IF head = NoPayload THEN "served" ELSE "look",
                          wants |-> head, got |-> NoPayload]
    OBVIOUS
  <2>2. reader' = [reader EXCEPT ![r] = next]
    BY <1>2, <2>1 DEF ReadHead
  <2>3. /\ next \in [at : {"idle", "look", "decode", "store", "served"},
                    wants : Payloads \union {NoPayload}, got : Payloads \union {NoPayload}]
        /\ next.at \in {"look", "decode", "store"} => next.wants \in Payloads
    BY <1>0, <2>1
  <2>4. QED
    BY <1>0, <2>2, <2>3, ReaderSteps
<1>3. ASSUME Decode(r) PROVE ReadersTyped' /\ ReadersWant'
  <2>1. reader[r].at = "decode"
    BY <1>3 DEF Decode
  <2>2. CASE Serves(r, NoPayload)
    BY <1>0, <2>2, ServesSteps
  <2>3. CASE Goes(r, "store")
    BY <1>0, <2>1, <2>3, GoesAndServes
  <2>4. QED
    BY <1>3, <2>2, <2>3 DEF Decode
<1>4. ASSUME Respond(r) PROVE ReadersTyped' /\ ReadersWant'
  <2>1. PICK next : next = Resting
    OBVIOUS
  <2>2. reader' = [reader EXCEPT ![r] = next]
    BY <1>4, <2>1 DEF Respond
  <2>3. /\ next \in [at : {"idle", "look", "decode", "store", "served"},
                    wants : Payloads \union {NoPayload}, got : Payloads \union {NoPayload}]
        /\ next.at = "idle"
    BY <2>1 DEF Resting
  <2>4. QED
    BY <1>0, <2>2, <2>3, ReaderSteps
<1>5. ReadersTyped' /\ ReadersWant'
  BY <1>2, <1>3, <1>4
<1>6. QED
  BY <1>0, <1>1, <1>5, AccountKept, SafePartsNext

LEMMA CacheSteps == CacheSafe /\ [CacheNext]_cacheVars => CacheSafe'
<1> SUFFICES ASSUME CacheSafe, [CacheNext]_cacheVars PROVE CacheSafe'
  OBVIOUS
<1>0. /\ head \in Payloads \union {NoPayload} /\ cache \in Seq(Payloads) /\ bytes \in Int
      /\ ReadersTyped /\ ReadersWant /\ AccountIsTrue
  BY SafeParts
<1>1. CASE UNCHANGED cacheVars
  <2>1. UNCHANGED <<head, cache, bytes, reader>>
    BY <1>1 DEF cacheVars
  <2>2. ReadersTyped' /\ ReadersWant'
    BY <1>0, <2>1 DEF ReadersTyped, ReadersWant
  <2>3. QED
    BY <1>0, <2>1, <2>2, AccountKept, SafePartsNext
<1>2. CASE HeadMoves
  <2>1. UNCHANGED <<cache, bytes, reader>> /\ head' \in Payloads \union {NoPayload}
    BY <1>2 DEF HeadMoves
  <2>2. ReadersTyped' /\ ReadersWant'
    BY <1>0, <2>1 DEF ReadersTyped, ReadersWant
  <2>3. QED
    BY <1>0, <2>1, <2>2, AccountKept, SafePartsNext
<1>3. CASE \E r \in Readers : ReadHead(r) \/ Look(r) \/ Decode(r) \/ StorePayload(r) \/ Respond(r)
  BY <1>3, LookSteps, StoreSteps, OtherSteps
<1>4. QED
  BY <1>1, <1>2, <1>3 DEF CacheNext

-----------------------------------------------------------------------------
\* Every variable keeps its type, whatever the payloads and the limits.
THEOREM CacheTypes == CacheSpec => []CacheTypeOK
<1>1. CacheSafe => CacheTypeOK
  BY DEF CacheSafe, CacheTyped, CacheTypeOK
<1>2. QED
  BY <1>1, CacheInitially, CacheSteps, PTL DEF CacheSpec

\* For any number of readers, payloads, sizes and limits: the account of the
\* cache is the sum of what it holds, each payload once, within both limits.
THEOREM AccountStaysTrue == CacheSpec => []AccountIsTrue
<1>1. CacheSafe => AccountIsTrue
  BY DEF CacheSafe
<1>2. QED
  BY <1>1, CacheInitially, CacheSteps, PTL DEF CacheSpec

-----------------------------------------------------------------------------
(*****************************************************************************)
(* CapacityGate: for every set of measurements and every choice of its       *)
(* limits and ages.                                                          *)
(*****************************************************************************)

USE CapacityAssumption DEF CapacityAssumption

Decisions == [made : BOOLEAN, product : BOOLEAN, source : BOOLEAN, expansion : BOOLEAN]

\* There is no sample, or the one that the last sampling took.
SampleKept ==
  \/ sample = NoSample
  \/ /\ sample \in [at : 0..MaxClock, disk : Disk, size : Size,
                    memory : {"low", "high", "unknown"}]
     /\ attempt.ok /\ sample.at = attempt.at

\* The decision allows something only on that sample, below the limits.
DecisionFounded ==
  /\ decision.product =>
       /\ attempt.ok /\ sample # NoSample
       /\ sample.disk < ProductAt /\ sample.size < MaxSize
       /\ Production => attempt.referred
  /\ decision.source => decision.product /\ sample.disk < SourceAt

IInv == CapacityTypeOK /\ SampleKept /\ DecisionFounded

LEMMA AssessType ==
  ASSUME NEW now
  PROVE  /\ Assess(now) \in Decisions
         /\ Assess(now).product =>
              now.disk < ProductAt /\ now.size < MaxSize /\ (Production => References # {})
         /\ Assess(now).source =>
              /\ now.disk < SourceAt /\ now.size < MaxSize
              /\ Production => References # {}
              /\ now.memory # "high"
         /\ now.disk < ProductAt /\ Assess(now).source => Assess(now).product
  BY DEF Assess, Decisions

LEMMA PersistType ==
  ASSUME CapacityTypeOK, NEW now, now.at \in 0..MaxClock, now.size \in Size
  PROVE  Persist(now) \subseteq [at : 0..MaxClock, size : Size]
  BY DEF CapacityTypeOK, Persist

\* Before the first sample nothing is decided.
LEMMA InitiallyClosed == CapacityInit => IInv
  BY DEF CapacityInit, IInv, CapacityTypeOK, SampleKept, DecisionFounded,
         NoSample, NoDecision

\* A sampling that succeeds founds its decision on what it found.
LEMMA RefreshKeeps == IInv /\ RefreshCapacity => IInv'
<1> SUFFICES ASSUME IInv, NEW d \in Disk, NEW z \in Size,
                    stored' = Persist([at |-> clock, disk |-> d, size |-> z, memory |-> memory]),
                    sample' = [at |-> clock, disk |-> d, size |-> z, memory |-> memory],
                    decision' = Assess([at |-> clock, disk |-> d, size |-> z, memory |-> memory]),
                    attempt' = [at |-> clock, ok |-> TRUE, referred |-> References # {}],
                    UNCHANGED <<clock, memory>>
             PROVE  IInv'
  BY DEF RefreshCapacity
<1> DEFINE now == [at |-> clock, disk |-> d, size |-> z, memory |-> memory]
<1>1. now \in [at : 0..MaxClock, disk : Disk, size : Size, memory : {"low", "high", "unknown"}]
  BY DEF IInv, CapacityTypeOK
<1>2. CapacityTypeOK'
  <2>1. stored' \subseteq [at : 0..MaxClock, size : Size]
    BY <1>1, PersistType DEF IInv
  <2>2. decision' \in Decisions
    BY AssessType
  <2>3. attempt' \in [at : -1..MaxClock, ok : BOOLEAN, referred : BOOLEAN]
    BY DEF IInv, CapacityTypeOK
  <2>4. QED
    BY <2>1, <2>2, <2>3 DEF IInv, CapacityTypeOK, Decisions
<1>3. SampleKept'
  BY <1>1 DEF SampleKept
<1>4. DecisionFounded'
  <2>1. d \in 0..100 /\ z \in Nat /\ sample'.at # -1
    <3>1. d \in 0..100 /\ z \in Nat
      BY CapacityAssumption
    <3>2. clock \in 0..MaxClock
      BY DEF IInv, CapacityTypeOK
    <3>3. sample'.at = clock
      OBVIOUS
    <3>4. clock # -1
      BY <3>2
    <3>5. QED
      BY <3>1, <3>3, <3>4
  <2>2. sample' # NoSample
    BY <2>1 DEF NoSample
  <2>3. now.disk = d /\ now.size = z
    OBVIOUS
  <2>4. decision'.source => now.disk < ProductAt /\ now.disk < SourceAt
    BY AssessType, <2>1, <2>3
  <2>5. QED
    BY AssessType, <2>2, <2>4 DEF DecisionFounded
<1>5. QED
  BY <1>2, <1>3, <1>4 DEF IInv

\* A sampling that fails closes the gate.
LEMMA FailureCloses == IInv /\ RefreshFails => IInv'
<1> SUFFICES ASSUME IInv, RefreshFails PROVE IInv'
  OBVIOUS
<1>1. stored' \subseteq [at : 0..MaxClock, size : Size]
  <2>1. CASE UNCHANGED stored
    BY <2>1 DEF IInv, CapacityTypeOK
  <2>2. CASE \E z \in Size : stored' = Persist([at |-> clock, size |-> z])
    BY <2>2, PersistType DEF IInv, CapacityTypeOK
  <2>3. QED
    BY <2>1, <2>2 DEF RefreshFails
<1>2. /\ sample' = NoSample
      /\ decision' = [made |-> TRUE, product |-> FALSE, source |-> FALSE, expansion |-> TRUE]
      /\ attempt' = [at |-> clock, ok |-> FALSE, referred |-> FALSE]
      /\ UNCHANGED <<clock, memory>>
  BY DEF RefreshFails, Unavailable, NoDecision
<1>3. CapacityTypeOK'
  <2>1. clock' \in 0..MaxClock /\ memory' \in {"low", "high", "unknown"}
    BY <1>2 DEF IInv, CapacityTypeOK
  <2>2. attempt' \in [at : -1..MaxClock, ok : BOOLEAN, referred : BOOLEAN]
    BY <1>2 DEF IInv, CapacityTypeOK
  <2>3. decision' \in [made : BOOLEAN, product : BOOLEAN, source : BOOLEAN, expansion : BOOLEAN]
    BY <1>2
  <2>4. QED
    BY <1>1, <2>1, <2>2, <2>3 DEF CapacityTypeOK
<1>4. QED
  BY <1>2, <1>3 DEF IInv, SampleKept, DecisionFounded

LEMMA TimeKeeps == IInv /\ (CapacityTick \/ UNCHANGED capacityVars) => IInv'
<1>1. IInv /\ CapacityTick => CapacityTypeOK'
  BY DEF IInv, CapacityTypeOK, CapacityTick
<1>2. IInv /\ CapacityTick => SampleKept' /\ DecisionFounded'
  BY DEF IInv, SampleKept, DecisionFounded, CapacityTick
<1>3. IInv /\ UNCHANGED capacityVars => IInv'
  BY DEF IInv, CapacityTypeOK, SampleKept, DecisionFounded, capacityVars
<1>4. QED
  BY <1>1, <1>2, <1>3 DEF IInv

\* The gate and the readiness report rest on the very last sampling, for any
\* limits, ages and order of samplings, failures and questions.
THEOREM GateStaysClosed == CapacitySpec => []GateFailsClosed
<1>1. IInv /\ [CapacityNext]_capacityVars => IInv'
  BY RefreshKeeps, FailureCloses, TimeKeeps DEF CapacityNext
<1>2. IInv => GateFailsClosed
  <2> SUFFICES ASSUME IInv PROVE GateFailsClosed
    OBVIOUS
  <2>1. SourceOpen => ProductOpen /\ sample.disk < SourceAt
    BY DEF IInv, DecisionFounded, SourceOpen, ProductOpen, Open
  <2>2. ProductOpen => sample.at = attempt.at /\ memory # "high"
    BY DEF IInv, SampleKept, ProductOpen, Open
  <2>3. ProductOpen =>
          /\ attempt.ok /\ clock - sample.at <= MaxAge
          /\ sample.disk < ProductAt /\ sample.size < MaxSize
          /\ Production => attempt.referred
    BY DEF IInv, DecisionFounded, ProductOpen, Open
  <2>4. Production /\ Ready => attempt.ok
    BY DEF IInv, DecisionFounded, Ready
  <2>5. QED
    BY <2>1, <2>2, <2>3, <2>4 DEF GateFailsClosed, ExpansionOpen
<1>3. QED
  BY InitiallyClosed, <1>1, <1>2, PTL DEF CapacitySpec

\* Every variable of the gate keeps its type.
THEOREM CapacityTypes == CapacitySpec => []CapacityTypeOK
<1>1. IInv /\ [CapacityNext]_capacityVars => IInv'
  BY RefreshKeeps, FailureCloses, TimeKeeps DEF CapacityNext
<1>2. IInv => CapacityTypeOK
  BY DEF IInv
<1>3. QED
  BY InitiallyClosed, <1>1, <1>2, PTL DEF CapacitySpec

-----------------------------------------------------------------------------
(***************************************************************************)
(* The components of MCUpkeep side by side: what holds of each alone holds *)
(* where they share a behaviour.                                           *)
(***************************************************************************)

UpkeepFocus ==
  focus \in {"retention", "alert", "capacity", "fetch", "forecast",
             "catalog", "observation", "cache", "coverage"}

\* Every step is a step of one component, and leaves the others alone.
LEMMA FirstComponentsStep ==
  ASSUME [UpkeepNext]_<<first, second, focus>>
  PROVE  /\ [RetentionNext]_<<lettersVars, retentionVars>>
         /\ [AlertNext]_alertVars /\ [CapacityNext]_capacityVars /\ [FetchNext]_fetchVars
         /\ UNCHANGED focus
<1>1. CASE UpkeepNext
  BY <1>1 DEF UpkeepNext, RetentionStep, AlertStep, CapacityStep, FetchStep, ForecastStep,
    CatalogStep, ObservationStep, CacheStep, CoverageStep, first, retains
<1>2. CASE UNCHANGED <<first, second, focus>>
  BY <1>2 DEF first, retains
<1>3. QED
  BY <1>1, <1>2

LEMMA SecondComponentsStep ==
  ASSUME [UpkeepNext]_<<first, second, focus>>
  PROVE  /\ [ForecastNext]_forecastVars /\ [CatalogNext]_catalogVars
         /\ [ObservationNext]_observationVars /\ [CacheNext]_cacheVars
         /\ [CoverageNext]_coverageVars
<1>1. CASE UpkeepNext
  BY <1>1 DEF UpkeepNext, RetentionStep, AlertStep, CapacityStep, FetchStep, ForecastStep,
    CatalogStep, ObservationStep, CacheStep, CoverageStep, second
<1>2. CASE UNCHANGED <<first, second, focus>>
  BY <1>2 DEF second
<1>3. QED
  BY <1>1, <1>2

LEMMA UpkeepComponents ==
  UpkeepSpec =>
    /\ RetentionSpec /\ AlertSpec /\ CapacitySpec /\ FetchSpec
    /\ ForecastSpec /\ CatalogSpec /\ ObservationSpec /\ CacheSpec /\ CoverageSpec
    /\ []UpkeepFocus
<1>1. UpkeepInit =>
        /\ RetentionInit /\ AlertInit /\ CapacityInit /\ FetchInit
        /\ ForecastInit /\ CatalogInit /\ ObservationInit /\ CacheInit /\ CoverageInit
        /\ UpkeepFocus
  BY DEF UpkeepInit, UpkeepFocus
<1>2. [UpkeepNext]_<<first, second, focus>> =>
        /\ [RetentionNext]_<<lettersVars, retentionVars>>
        /\ [AlertNext]_alertVars /\ [CapacityNext]_capacityVars /\ [FetchNext]_fetchVars
  BY FirstComponentsStep
<1>3. [UpkeepNext]_<<first, second, focus>> =>
        /\ [ForecastNext]_forecastVars /\ [CatalogNext]_catalogVars
        /\ [ObservationNext]_observationVars /\ [CacheNext]_cacheVars
        /\ [CoverageNext]_coverageVars
  BY SecondComponentsStep
<1>4. UpkeepFocus /\ [UpkeepNext]_<<first, second, focus>> => UpkeepFocus'
  BY FirstComponentsStep DEF UpkeepFocus
<1>5. QED
  BY <1>1, <1>2, <1>3, <1>4, PTL DEF UpkeepSpec, RetentionSpec, AlertSpec, CapacitySpec,
    FetchSpec, ForecastSpec, CatalogSpec, ObservationSpec, CacheSpec, CoverageSpec

\* Every variable of the nine components keeps its type, for any constants.
THEOREM UpkeepTypes == UpkeepSpec => []UpkeepTypeOK
<1>1. /\ UpkeepFocus
      /\ RetentionTypeOK /\ AlertTypeOK /\ CapacityTypeOK /\ FetchTypeOK
      /\ ForecastTypeOK /\ CatalogTypeOK /\ ObservationTypeOK /\ CacheTypeOK /\ CoverageTypeOK
      => UpkeepTypeOK
  BY DEF UpkeepFocus, UpkeepTypeOK
<1>2. QED
  BY <1>1, UpkeepComponents, TypeCorrect, AlertTypes, CapacityTypes, FetchTypes, ForecastTypes,
    CatalogTypes, ObservationTypes, CacheTypes, CoverageTypes, PTL

\* What the components promise alone, they promise side by side, with the
\* exceptions each of them names: bounded attempts and calls, sources that stay
\* traceable, a gate that fails closed, omissions that are told, festivals listed
\* on the days they were written for, relations that are read, totals of one run,
\* a cache whose account is true, and catalog rows that do not grow older.
THEOREM UpkeepIsSafe ==
  UpkeepSpec =>
    /\ [](AttemptsBounded /\ Traceable /\ CallsBounded /\ CurrentHasText)
    /\ [](GateFailsClosed /\ OmissionsAreTold /\ NewestDatesListed /\ RelationsAreRead)
    /\ [](TotalsAreOfOneRun /\ AccountIsTrue /\ SilenceIsExplained)
    /\ ResolvedIsMarked /\ NothingGoesBack
<1>1. RetentionSpec /\ AlertSpec => [](AttemptsBounded /\ Traceable /\ CallsBounded /\ CurrentHasText)
  BY AttemptsStayBounded, AlwaysTraceable, CallsStayBounded, CurrentKeepsText, PTL
<1>2. CapacitySpec /\ FetchSpec /\ ForecastSpec /\ CatalogSpec
        => [](GateFailsClosed /\ OmissionsAreTold /\ NewestDatesListed /\ RelationsAreRead)
  BY GateStaysClosed, OmissionsStayTold, NewestDatesStayListed, RelationsStayRead, PTL
<1>3. ObservationSpec /\ CacheSpec /\ CoverageSpec
        => [](TotalsAreOfOneRun /\ AccountIsTrue /\ SilenceIsExplained)
  BY TotalsStayOfOneRun, AccountStaysTrue, SilenceAlwaysExplained, PTL
<1>4. QED
  BY <1>1, <1>2, <1>3, UpkeepComponents, ResolvedWereMarked, NothingEverGoesBack, PTL

=============================================================================
