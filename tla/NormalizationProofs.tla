------------------------- MODULE NormalizationProofs -------------------------
(*****************************************************************************)
(* Proofs about what a normalization step writes: the festivals of an area,  *)
(* the content catalog, the totals of daily observations and the revisions   *)
(* of alerts, for every calendar, catalog, set of runs and set of batches.   *)
(*****************************************************************************)
EXTENDS FestivalSchedule, PlaceCatalog, ObservationRows, AlertRevisions,
        FiniteSetTheorems, TLAPS

-----------------------------------------------------------------------------
(*****************************************************************************)
(* FestivalSchedule: the newest dates of an event are the listed ones.       *)
(*****************************************************************************)

\* The greater of two numbers.
LEMMA MaxOfTwo ==
  ASSUME NEW a \in Nat, NEW b \in Nat
  PROVE  Max({a, b}) = IF b <= a THEN a ELSE b
<1> DEFINE m == IF b <= a THEN a ELSE b
<1>1. m \in {a, b} /\ \A y \in {a, b} : m >= y
  OBVIOUS
<1>2. \A x \in {a, b} : (\A y \in {a, b} : x >= y) => x = m
  OBVIOUS
<1> HIDE DEF m
<1>3. Max({a, b}) = m
  BY <1>1, <1>2 DEF Max
<1>4. QED
  BY <1>3 DEF m

\* The smaller of two numbers.
LEMMA MinOfTwo ==
  ASSUME NEW a \in Nat, NEW b \in Nat
  PROVE  Min({a, b}) = IF a <= b THEN a ELSE b
<1> DEFINE m == IF a <= b THEN a ELSE b
<1>1. m \in {a, b} /\ \A y \in {a, b} : m <= y
  OBVIOUS
<1>2. \A x \in {a, b} : (\A y \in {a, b} : x <= y) => x = m
  OBVIOUS
<1> HIDE DEF m
<1>3. Min({a, b}) = m
  BY <1>1, <1>2 DEF Min
<1>4. QED
  BY <1>3 DEF m

\* A matched area is one of those found.
LEMMA MatchedIsFound ==
  ASSUME NEW found \in SUBSET Areas
  PROVE  MatchArea(found) \in Areas \union {Nowhere}
<1> DEFINE children == {a \in found : ParentOf[a] # Nowhere}
           withParent == {a \in children : ParentOf[a] \in found}
           innermost == {a \in withParent : \A b \in withParent \ {a} : <<a, b>> \in Within}
           The(s) == CHOOSE a \in s : TRUE
<1>1. \A s \in SUBSET Areas : Cardinality(s) = 1 => The(s) \in Areas
  <2> SUFFICES ASSUME NEW s \in SUBSET Areas, Cardinality(s) = 1 PROVE The(s) \in Areas
    OBVIOUS
  <2>1. s # {}
    BY FS_EmptySet
  <2>2. QED
    BY <2>1
<1>2. children \in SUBSET Areas /\ withParent \in SUBSET Areas /\ innermost \in SUBSET Areas
  OBVIOUS
<1>3. MatchArea(found) =
        CASE Cardinality(children) = 1 -> The(children)
          [] Cardinality(children) > 1 /\ Cardinality(withParent) = 1 -> The(withParent)
          [] Cardinality(withParent) > 1 /\ Cardinality(innermost) = 1 -> The(innermost)
          [] children = {} /\ Cardinality(found) = 1 -> The(found)
          [] OTHER -> Nowhere
  BY DEF MatchArea
<1>4. /\ Cardinality(children) = 1 => The(children) \in Areas
      /\ Cardinality(withParent) = 1 => The(withParent) \in Areas
      /\ Cardinality(innermost) = 1 => The(innermost) \in Areas
      /\ Cardinality(found) = 1 => The(found) \in Areas
  BY <1>1, <1>2
<1> HIDE DEF children, withParent, innermost, The
<1>5. QED
  BY <1>3, <1>4

\* So is the area of a festival.
LEMMA AreaIsKnown ==
  ASSUME NEW e \in Events
  PROVE  AreaOf(e) \in Areas \union {Nowhere}
<1> DEFINE road == AddressOf[e].road
           lot == AddressOf[e].lot
           venue == AddressOf[e].venue
           resolved == {MatchArea(road), MatchArea(lot)} \ {Nowhere}
<1>1. road \in SUBSET Areas /\ lot \in SUBSET Areas /\ venue \in SUBSET Areas
  BY ForecastAssumption
<1>2. /\ MatchArea(road) \in Areas \union {Nowhere} /\ MatchArea(lot) \in Areas \union {Nowhere}
      /\ MatchArea(venue) \in Areas \union {Nowhere}
      /\ MatchArea(road \union lot) \in Areas \union {Nowhere}
  BY <1>1, MatchedIsFound
<1>3. Cardinality(resolved) = 1 => (CHOOSE a \in resolved : TRUE) \in Areas
  <2>1. Cardinality(resolved) = 1 => resolved # {}
    BY FS_EmptySet
  <2>2. resolved \subseteq Areas
    BY <1>2
  <2>3. QED
    BY <2>1, <2>2
<1>4. AreaOf(e) = FestivalArea(road, lot, venue)
  BY DEF AreaOf
<1> HIDE DEF road, lot, venue
<1>5. QED
  BY <1>2, <1>3, <1>4 DEF FestivalArea

\* The row of every day that the newest record of an event was written for is as
\* new as that record, and lists the event with the end it was cut to.
ListedUpTo(e) ==
  \A d \in Max({announced[e].first, today})..announced[e].upto :
    /\ announced[e].at <= listed[AreaOf(e)][d].at
    /\ \E i \in listed[AreaOf(e)][d].items : i.event = e /\ i.last = announced[e].upto
ScheduleSafe ==
  /\ ForecastTypeOK
  /\ \A e \in Events : announced[e].at # Never => AreaOf(e) \in Areas /\ ListedUpTo(e)
  /\ valued = latestValue

LEMMA ScheduleInitially == ForecastInit => ScheduleSafe
  BY ForecastAssumption DEF ForecastInit, ScheduleSafe, ForecastTypeOK, NoRow, Never

FestivalRows == [at : 0..ForecastTimes, items : SUBSET ItemType]

\* What clearing a row and listing an event in it do.
LEMMA ClearedRow ==
  ASSUME NEW r \in FestivalRows, NEW e \in Events, NEW at \in 1..ForecastTimes
  PROVE  /\ Replaced(r, e, at) \in FestivalRows
         /\ r.at <= Replaced(r, e, at).at
         /\ \A i \in r.items : i.event # e \/ at < r.at => i \in Replaced(r, e, at).items
<1> DEFINE others == {i \in r.items : i.event # e}
<1>1. Replaced(r, e, at) =
        IF at < r.at \/ others = r.items THEN r ELSE [at |-> at, items |-> others]
  BY DEF Replaced
<1>2. ForecastTimes \in Nat /\ r.at \in 0..ForecastTimes /\ r.items \in SUBSET ItemType
  BY ForecastAssumption DEF FestivalRows
<1>3. others \in SUBSET ItemType /\ \A i \in r.items : i.event # e => i \in others
  BY <1>2
<1> HIDE DEF others
<1>4. CASE at < r.at \/ others = r.items
  BY <1>1, <1>2, <1>4
<1>5. CASE ~(at < r.at \/ others = r.items)
  <2>1. Replaced(r, e, at) = [at |-> at, items |-> others] /\ r.at <= at /\ ~(at < r.at)
    BY <1>1, <1>2, <1>5
  <2>2. QED
    BY <1>2, <1>3, <2>1 DEF FestivalRows
<1>6. QED
  BY <1>4, <1>5

LEMMA UpsertedRow ==
  ASSUME NEW r \in FestivalRows, NEW item \in ItemType, NEW at \in 1..ForecastTimes
  PROVE  /\ Upserted(r, item, at) \in FestivalRows
         /\ r.at <= Upserted(r, item, at).at /\ at <= Upserted(r, item, at).at
         /\ r.items \subseteq Upserted(r, item, at).items
         /\ item \in Upserted(r, item, at).items
<1>1. ForecastTimes \in Nat /\ r.at \in 0..ForecastTimes /\ r.items \in SUBSET ItemType
  BY ForecastAssumption DEF FestivalRows
<1>2. Max({r.at, at}) = IF at <= r.at THEN r.at ELSE at
  BY <1>1, MaxOfTwo
<1>3. QED
  BY <1>1, <1>2 DEF Upserted, FestivalRows

\* The row of a day that a record of an event is normalized for: of
\* "named", the days of the record, or not.
RowFor(r, e, item, at, d, named) ==
  IF d \in named THEN Upserted(Replaced(r, e, at), item, at) ELSE Replaced(r, e, at)
LEMMA RowOfFestival ==
  ASSUME NEW r \in FestivalRows, NEW e \in Events, NEW item \in ItemType,
         NEW at \in 1..ForecastTimes, NEW d, NEW named
  PROVE  /\ RowFor(r, e, item, at, d, named) \in FestivalRows
         /\ r.at <= RowFor(r, e, item, at, d, named).at
         /\ \A i \in r.items :
              i.event # e \/ at < r.at => i \in RowFor(r, e, item, at, d, named).items
         /\ d \in named => /\ at <= RowFor(r, e, item, at, d, named).at
                            /\ item \in RowFor(r, e, item, at, d, named).items
<1> DEFINE cleared == Replaced(r, e, at)
<1>1. /\ cleared \in FestivalRows /\ r.at <= cleared.at
      /\ \A i \in r.items : i.event # e \/ at < r.at => i \in cleared.items
  BY ClearedRow
<1> HIDE DEF cleared
<1>2. /\ Upserted(cleared, item, at) \in FestivalRows
      /\ cleared.at <= Upserted(cleared, item, at).at /\ at <= Upserted(cleared, item, at).at
      /\ cleared.items \subseteq Upserted(cleared, item, at).items
      /\ item \in Upserted(cleared, item, at).items
  BY <1>1, UpsertedRow
<1>3. r.at \in Nat /\ cleared.at \in Nat /\ Upserted(cleared, item, at).at \in Nat
  BY <1>1, <1>2, ForecastAssumption DEF FestivalRows
<1>4. RowFor(r, e, item, at, d, named) = IF d \in named THEN Upserted(cleared, item, at) ELSE cleared
  BY DEF RowFor, cleared
<1>5. QED
  BY <1>1, <1>2, <1>3, <1>4

LEMMA FestivalKeepsSchedule ==
  ASSUME ScheduleSafe, NEW e \in Events, FestivalRow(e)
  PROVE  ScheduleSafe'
<1>1. PICK at \in 1..ForecastTimes, first \in 1..Days, last \in 1..Days :
    /\ first <= last /\ today <= last /\ first < today + WindowDays /\ AreaOf(e) # Nowhere
    /\ listed' = [listed EXCEPT ![AreaOf(e)] = [d \in 1..Days |->
         IF d \in Max({first, today})..Min({last, today + WindowDays - 1})
         THEN Upserted(Replaced(listed[AreaOf(e)][d], e, at),
                       Item(e, Max({first, today}), Min({last, today + WindowDays - 1})), at)
         ELSE Replaced(listed[AreaOf(e)][d], e, at)]]
    /\ announced' = IF at < announced[e].at THEN announced
         ELSE [announced EXCEPT ![e] = [at |-> at, first |-> first, last |-> last,
                                        upto |-> Min({last, today + WindowDays - 1})]]
    /\ UNCHANGED <<today, valued, latestValue>>
  <2>1. listed \in [Areas -> [1..Days -> [at : 0..ForecastTimes, items : SUBSET ItemType]]]
    BY DEF ScheduleSafe, ForecastTypeOK
  <2>2. AreaOf(e) # Nowhere => AreaOf(e) \in Areas
    BY AreaIsKnown
  <2>3. QED
    BY <2>1, <2>2 DEF FestivalRow
<1> DEFINE area == AreaOf(e)
           from == Max({first, today})
           to == Min({last, today + WindowDays - 1})
           item == Item(e, from, to)
           dates == from..to
<1>2. area \in Areas
  BY <1>1, AreaIsKnown
<1>3. /\ ForecastTypeOK /\ today \in 1..Days /\ Days \in Nat
      /\ listed \in [Areas -> [1..Days -> FestivalRows]]
  BY ForecastAssumption DEF ScheduleSafe, ForecastTypeOK, FestivalRows
<1>4. from \in 1..Days /\ to \in 1..Days
  <2>1. WindowDays \in Nat \ {0} /\ today + WindowDays - 1 \in Nat
    BY <1>3, ForecastAssumption
  <2>2. to = IF last <= today + WindowDays - 1 THEN last ELSE today + WindowDays - 1
    BY <1>3, <2>1, MinOfTwo
  <2>3. to \in 1..Days
    BY <1>3, <2>1, <2>2
  <2>4. QED
    BY <1>3, <2>3, MaxOfTwo
<1>a. item \in ItemType /\ item.event = e /\ item.last = to
  BY <1>4 DEF Item, ItemType
<1> HIDE DEF area, from, to, item, dates
<1>b. listed' = [listed EXCEPT ![area] = [d \in 1..Days |->
                  RowFor(listed[area][d], e, item, at, d, dates)]]
  BY <1>1 DEF RowFor, area, from, to, item, dates
<1>c. ASSUME NEW a \in Areas, NEW d \in 1..Days
      PROVE  /\ listed'[a][d] \in FestivalRows
             /\ listed[a][d].at <= listed'[a][d].at
             /\ \A i \in listed[a][d].items :
                  i.event # e \/ a # area \/ at < listed[a][d].at => i \in listed'[a][d].items
             /\ a = area /\ d \in dates => at <= listed'[a][d].at /\ item \in listed'[a][d].items
  <2>1. listed[a][d] \in FestivalRows
    BY <1>3
  <2>2. CASE a = area
    <3>1. listed'[a][d] = RowFor(listed[a][d], e, item, at, d, dates)
      BY <1>2, <1>3, <1>b, <2>2
    <3>2. QED
      BY <1>a, <2>1, <2>2, <3>1, RowOfFestival
  <2>3. CASE a # area
    <3>1. listed'[a][d] = listed[a][d] /\ listed[a][d].at \in Nat
      BY <1>2, <1>3, <1>b, <2>1, <2>3, ForecastAssumption DEF FestivalRows
    <3>2. QED
      BY <2>1, <2>3, <3>1
  <2>4. QED
    BY <2>2, <2>3
<1>d. listed' \in [Areas -> [1..Days -> FestivalRows]]
  BY <1>2, <1>3, <1>b, <1>c
<1>5. /\ today \in 1..Days /\ Days \in Nat /\ ForecastTimes \in Nat
      /\ announced \in [Events -> [at : 0..ForecastTimes, first : 1..Days, last : 1..Days,
                                 upto : 1..Days]]
      /\ listed \in [Areas -> [1..Days -> [at : 0..ForecastTimes, items : SUBSET ItemType]]]
  BY <1>3, ForecastAssumption DEF ForecastTypeOK
<1>e. announced' = IF at < announced[e].at THEN announced
        ELSE [announced EXCEPT ![e] = [at |-> at, first |-> first, last |-> last, upto |-> to]]
  BY <1>1 DEF to
<1>6. announced' \in [Events -> [at : 0..ForecastTimes, first : 1..Days, last : 1..Days,
                                 upto : 1..Days]]
  BY <1>4, <1>5, <1>e
<1>7. ForecastTypeOK'
  BY <1>1, <1>3, <1>d, <1>6 DEF ForecastTypeOK, FestivalRows
<1>8. ASSUME NEW o \in Events, announced'[o].at # Never
      PROVE  AreaOf(o) \in Areas /\ ListedUpTo(o)'
  <2>1. CASE o = e /\ ~(at < announced[e].at)
    <3>1. announced'[o] = [at |-> at, first |-> first, last |-> last, upto |-> to]
          /\ today' = today
      BY <1>1, <1>5, <1>e, <2>1
    <3>2. ASSUME NEW d \in Max({first, today})..to
          PROVE  /\ at <= listed'[AreaOf(e)][d].at
                 /\ \E i \in listed'[AreaOf(e)][d].items : i.event = e /\ i.last = to
      <4>1. d \in 1..Days
        <5>1. Max({first, today}) = IF today <= first THEN first ELSE today
          BY <1>5, MaxOfTwo
        <5>2. QED
          BY <1>4, <1>5, <5>1
      <4>2. QED
        BY <1>2, <1>a, <1>c, <3>2, <4>1 DEF area, from, dates
    <3>3. /\ announced'[o].at = at /\ announced'[o].first = first /\ announced'[o].upto = to
          /\ today' = today /\ o = e
      BY <2>1, <3>1
    <3>4. ListedUpTo(e)'
      BY <3>2, <3>3 DEF ListedUpTo
    <3>5. AreaOf(e) \in Areas
      BY <1>2 DEF area
    <3>6. QED
      BY <3>3, <3>4, <3>5
  <2>2. CASE o # e \/ at < announced[e].at
    <3>1. announced'[o] = announced[o] /\ today' = today /\ announced[o].at \in 0..ForecastTimes
      BY <1>1, <1>5, <1>e, <2>2
    <3>2. AreaOf(o) \in Areas /\ ListedUpTo(o)
      BY <1>8, <3>1 DEF ScheduleSafe
    <3>3. ASSUME NEW d \in Max({announced[o].first, today})..announced[o].upto
          PROVE  /\ announced[o].at <= listed'[AreaOf(o)][d].at
                 /\ \E i \in listed'[AreaOf(o)][d].items : i.event = o /\ i.last = announced[o].upto
      <4>1. d \in 1..Days
        <5>1. announced[o].first \in 1..Days /\ announced[o].upto \in 1..Days
          BY <1>5
        <5>2. Max({announced[o].first, today}) \in 1..Days
          <6>1. Max({announced[o].first, today}) = IF today <= announced[o].first
                                                    THEN announced[o].first ELSE today
            BY <1>5, <5>1, MaxOfTwo
          <6>2. QED
            BY <1>5, <5>1, <6>1
        <5>3. QED
          BY <1>5, <5>1, <5>2
      <4>2. PICK i \in listed[AreaOf(o)][d].items : i.event = o /\ i.last = announced[o].upto
        BY <3>2 DEF ListedUpTo
      <4>3. announced[o].at <= listed[AreaOf(o)][d].at
        BY <3>2 DEF ListedUpTo
      <4>4. /\ listed[AreaOf(o)][d].at \in 0..ForecastTimes
            /\ listed'[AreaOf(o)][d].at \in 0..ForecastTimes
        BY <1>d, <1>5, <3>2, <4>1 DEF FestivalRows
      <4>5. listed[AreaOf(o)][d].at <= listed'[AreaOf(o)][d].at
        BY <1>c, <3>2, <4>1
      <4>6. i.event # e \/ at < listed[AreaOf(o)][d].at
        <5>1. CASE o # e
          BY <4>2, <5>1
        <5>2. CASE o = e
          BY <1>5, <2>2, <4>3, <4>4, <5>2, <3>1
        <5>3. QED
          BY <5>1, <5>2
      <4>7. i \in listed'[AreaOf(o)][d].items
        BY <1>c, <3>2, <4>1, <4>2, <4>6
      <4>8. announced[o].at <= listed'[AreaOf(o)][d].at
        <5>1. \A x, y, z \in 0..ForecastTimes : x <= y /\ y <= z => x <= z
          BY ForecastAssumption
        <5>2. QED
          BY <3>1, <4>3, <4>4, <4>5, <5>1
      <4>9. QED
        BY <4>2, <4>7, <4>8
    <3>4. QED
      BY <3>1, <3>2, <3>3 DEF ListedUpTo
  <2>3. QED
    BY <2>1, <2>2
<1>9. QED
  BY <1>1, <1>7, <1>8 DEF ScheduleSafe

LEMMA ScheduleKept == ScheduleSafe /\ [ForecastNext]_forecastVars => ScheduleSafe'
<1> SUFFICES ASSUME ScheduleSafe, [ForecastNext]_forecastVars PROVE ScheduleSafe'
  OBVIOUS
<1>1. CASE \E e \in Events : FestivalRow(e)
  BY <1>1, FestivalKeepsSchedule
<1>2. CASE \E d \in 1..Days : ValueRow(d)
  <2>1. PICK d \in 1..Days : ValueRow(d)
    BY <1>2
  <2>2. PICK at \in 1..ForecastTimes :
          /\ valued' = [valued EXCEPT ![d] = IF at < valued[d] THEN valued[d] ELSE at]
          /\ latestValue' = [latestValue EXCEPT ![d] = Max({latestValue[d], at})]
          /\ UNCHANGED <<today, listed, announced>>
    BY <2>1 DEF ValueRow, ScheduleSafe, ForecastTypeOK
  <2>3. /\ latestValue \in [1..Days -> 0..ForecastTimes] /\ valued = latestValue
        /\ latestValue[d] \in 0..ForecastTimes /\ ForecastTimes \in Nat
    BY ForecastAssumption DEF ScheduleSafe, ForecastTypeOK
  <2>4. Max({latestValue[d], at}) = IF at <= latestValue[d] THEN latestValue[d] ELSE at
    BY <2>3, MaxOfTwo
  <2>5. Max({latestValue[d], at}) = IF at < valued[d] THEN valued[d] ELSE at
    BY <2>3, <2>4
  <2>6. Max({latestValue[d], at}) \in 0..ForecastTimes
    BY <2>3, <2>4
  <2>7. valued' = latestValue' /\ latestValue' \in [1..Days -> 0..ForecastTimes]
    BY <2>2, <2>3, <2>5, <2>6
  <2>8. ForecastTypeOK'
    BY <2>2, <2>7 DEF ScheduleSafe, ForecastTypeOK
  <2>9. \A e \in Events : ListedUpTo(e) => ListedUpTo(e)'
    BY <2>2 DEF ListedUpTo
  <2>10. QED
    BY <2>2, <2>7, <2>8, <2>9 DEF ScheduleSafe
<1>3. CASE Tomorrow
  <2>1. /\ today' = today + 1 /\ today < Days
        /\ UNCHANGED <<listed, valued, announced, latestValue>>
    BY <1>3 DEF Tomorrow
  <2>2. today \in 1..Days /\ Days \in Nat
        /\ announced \in [Events -> [at : 0..ForecastTimes, first : 1..Days, last : 1..Days,
                                 upto : 1..Days]]
    BY ForecastAssumption DEF ScheduleSafe, ForecastTypeOK
  <2>3. ForecastTypeOK'
    BY <2>1, <2>2 DEF ScheduleSafe, ForecastTypeOK
  <2>4. ASSUME NEW e \in Events, ListedUpTo(e) PROVE ListedUpTo(e)'
    <3>1. announced[e].first \in 1..Days
      BY <2>2
    <3>2. /\ Max({announced[e].first, today}) \in Nat /\ Max({announced[e].first, today'}) \in Nat
          /\ Max({announced[e].first, today}) <= Max({announced[e].first, today'})
      BY <2>1, <2>2, <3>1, MaxOfTwo
    <3>3. announced[e].upto \in Nat
      BY <2>2
    <3>4. ASSUME NEW d \in Max({announced[e].first, today'})..announced[e].upto
          PROVE  /\ announced[e].at <= listed[AreaOf(e)][d].at
                 /\ \E i \in listed[AreaOf(e)][d].items : i.event = e /\ i.last = announced[e].upto
      <4>1. d \in Max({announced[e].first, today})..announced[e].upto
        BY <3>2, <3>3, <3>4
      <4>2. QED
        BY <2>4, <4>1 DEF ListedUpTo
    <3>5. announced' = announced /\ listed' = listed
      BY <2>1
    <3>6. QED
      BY <3>4, <3>5 DEF ListedUpTo
  <2>5. QED
    BY <2>1, <2>3, <2>4 DEF ScheduleSafe
<1>4. CASE UNCHANGED forecastVars
  <2>1. UNCHANGED <<today, listed, valued, announced, latestValue>>
    BY <1>4 DEF forecastVars
  <2>2. ForecastTypeOK'
    BY <2>1 DEF ScheduleSafe, ForecastTypeOK
  <2>3. \A e \in Events : ListedUpTo(e) => ListedUpTo(e)'
    BY <2>1 DEF ListedUpTo
  <2>4. QED
    BY <2>1, <2>2, <2>3 DEF ScheduleSafe
<1>5. QED
  BY <1>1, <1>2, <1>3, <1>4 DEF ForecastNext

\* Every variable of the festivals and values keeps its type.
THEOREM ForecastTypes == ForecastSpec => []ForecastTypeOK
<1>1. ScheduleSafe => ForecastTypeOK
  BY DEF ScheduleSafe
<1>2. QED
  BY <1>1, ScheduleInitially, ScheduleKept, PTL DEF ForecastSpec

\* For any areas, addresses, days, length of the window and order of records:
\* every day, from today on, that the newest record of a festival in the window
\* was written for lists it with the end it was cut to, and every single value
\* is the newest.  A record beyond the window and the days cut off are not
\* claimed.
THEOREM NewestDatesStayListed == ForecastSpec => []NewestDatesListed
<1>1. ScheduleSafe => NewestDatesListed
  BY DEF ScheduleSafe, ListedUpTo, NewestDatesListed
<1>2. QED
  BY <1>1, ScheduleInitially, ScheduleKept, PTL DEF ForecastSpec

-----------------------------------------------------------------------------
(*****************************************************************************)
(* PlaceCatalog: relations and texts, for any catalog and any names.         *)
(*****************************************************************************)

TablesType ==
  [place : [Places -> PlaceType], text : [Places -> [Langs -> TextType]],
   maps : [Sources -> [Codes -> Places \union {Nothing}]],
   order : Seq(Sources \X Codes), remembered : [Sources -> [Codes -> Places \union {Nothing}]],
   strayed : SUBSET (Sources \X Codes)]
ServedIn(tb) == {c \in ContentIds : tb.place[c].st = "active" /\ tb.place[c].canon = Nothing}

\* The identity leads to a TourAPI place that a row or the crosswalk named.
Named(tb, s, c) == tb.maps[s][c] \in ContentIds /\ <<s, c>> \notin tb.strayed

\* What the tables and the relation rows hold between any two rows: an identity
\* leads to its own place or to a served one, and so do the memory of it and a
\* relation row; the place a relation names was written; and it is retired in
\* favour of a served place once another one was named for the identity.  No row
\* is older than its evidence.
Sound(tb, rels) ==
  /\ tb \in TablesType
  /\ rels \subseteq [source : Sources, code : Codes, place : Places]
  /\ \A c \in ContentIds : tb.place[c].canon = Nothing
  /\ \A c \in Codes :
       /\ tb.place[c].canon \in ServedIn(tb) \union {Nothing}
       /\ tb.place[c].st = "none" => tb.place[c].seen = 0
  /\ \A s \in Sources, c \in Codes :
       /\ tb.maps[s][c] \in ServedIn(tb) \union {c, Nothing}
       /\ tb.remembered[s][c] \in ServedIn(tb) \union {c, Nothing}
  /\ \A r \in rels :
       /\ r.place \in ServedIn(tb) \union {r.code}
       /\ r.place = r.code =>
            /\ tb.place[r.code].st # "none"
            /\ Named(tb, r.source, r.code) => tb.place[r.code].canon # Nothing
  /\ \A p \in Places : tb.place[p].at <= tb.place[p].seen
  /\ \A c \in ContentIds, l \in Langs : tb.text[c][l].at <= tb.text[c][l].seen

\* What no row takes back: served places stay served, and nothing goes back.
Onward(old, new) ==
  /\ ServedIn(old) \subseteq ServedIn(new)
  /\ \A p \in Places : old.place[p].at <= new.place[p].at
  /\ \A c \in ContentIds, l \in Langs :
       /\ old.text[c][l].at <= new.text[c][l].at
       /\ old.text[c][l].told # 0 => new.text[c][l].told # 0

CatalogSafe ==
  /\ Sound(Tables, relations)
  /\ known \in [Langs -> SUBSET ContentIds]
  /\ scan \in [on : BOOLEAN, attach : SUBSET [source : Sources, code : Codes, twin : ServedIn(Tables)]]

-----------------------------------------------------------------------------
(* The operators. *)

LEMMA LaterOfTwo ==
  ASSUME NEW a \in Nat, NEW b \in Nat
  PROVE  Max({a, b}) = IF b <= a THEN a ELSE b
<1> DEFINE m == IF b <= a THEN a ELSE b
<1>1. m \in {a, b} /\ \A y \in {a, b} : m >= y
  OBVIOUS
<1>2. \A x \in {a, b} : (\A y \in {a, b} : x >= y) => x = m
  OBVIOUS
<1> HIDE DEF m
<1>3. Max({a, b}) = m
  BY <1>1, <1>2 DEF Max
<1>4. QED
  BY <1>3 DEF m

\* A matched place is served.
LEMMA MatchIsServed ==
  ASSUME known \in [Langs -> SUBSET ContentIds], NEW title, NEW spot,
         Match(title, spot) # Nothing
  PROVE  Match(title, spot) \in ServedIn(Tables)
<1> DEFINE named == {c \in known[Korean] :
        /\ IsServed(c)
        /\ text[c][Korean].data # Nothing
        /\ NameOf[text[c][Korean].data] = NameOf[title]
        /\ <<spot, place[c].data>> \in Near}
           here == {c \in named : <<spot, place[c].data>> \in SameArea}
           left == IF Cardinality(named) > 1 /\ here # {} THEN here ELSE named
<1>1. Match(title, spot) = IF Cardinality(left) = 1 THEN CHOOSE c \in left : TRUE ELSE Nothing
  BY DEF Match
<1>2. left \subseteq ServedIn(Tables)
  BY CatalogAssumption DEF ServedIn, Tables, IsServed
<1> HIDE DEF named, here, left
<1>3. Cardinality(left) = 1
  BY <1>1
<1>4. left # {}
  BY <1>3, FS_EmptySet
<1>5. QED
  BY <1>1, <1>2, <1>3, <1>4

\* A record is written unless the row has newer evidence; the evidence only grows.
LEMMA PlaceRowSteps ==
  ASSUME NEW was \in PlaceType, NEW d \in Data, NEW t \in 1..Times
  PROVE  /\ PlaceRow(was, d, t) \in PlaceType
         /\ PlaceRow(was, d, t).canon = was.canon
         /\ PlaceRow(was, d, t).st \in {was.st, "active"}
         /\ was.seen = 0 => PlaceRow(was, d, t).st = "active"
         /\ PlaceRow(was, d, t).seen # 0
         /\ was.at <= was.seen =>
              /\ was.at <= PlaceRow(was, d, t).at
              /\ PlaceRow(was, d, t).at <= PlaceRow(was, d, t).seen
<1>0. Times \in Nat /\ was.at \in 0..Times /\ was.seen \in 0..Times
  BY CatalogAssumption DEF PlaceType
<1>1. Max({was.seen, t}) = IF t <= was.seen THEN was.seen ELSE t
  BY <1>0, LaterOfTwo
<1>2. CASE was.seen <= t
  <2>1. PlaceRow(was, d, t) =
          [st |-> "active", canon |-> was.canon, data |-> d, at |-> t, seen |-> Max({was.seen, t})]
    <3> PICK new : new = [was EXCEPT !.st = "active", !.data = d, !.at = t]
      OBVIOUS
    <3>1. new = [st |-> "active", canon |-> was.canon, data |-> d, at |-> t, seen |-> was.seen]
      BY DEF PlaceType
    <3>2. PlaceRow(was, d, t) =
            Evidence([st |-> "active", canon |-> was.canon, data |-> d, at |-> t, seen |-> was.seen], t)
      BY <1>2, <3>1 DEF PlaceRow, Accepts
    <3>3. QED
      BY <3>2 DEF Evidence
  <2>2. QED
    BY <1>0, <1>1, <1>2, <2>1 DEF PlaceType
<1>3. CASE ~(was.seen <= t)
  <2>1. PlaceRow(was, d, t) = was
    BY <1>0, <1>1, <1>3 DEF PlaceRow, Evidence, Accepts, PlaceType
  <2>2. QED
    BY <1>0, <1>3, <2>1 DEF PlaceType
<1>4. QED
  BY <1>2, <1>3

LEMMA TextRowSteps ==
  ASSUME NEW was \in TextType, NEW d \in Data, NEW t \in 1..Times
  PROVE  /\ TextRow(was, d, t) \in TextType
         /\ TextRow(was, d, t).told = was.told
         /\ was.at <= was.seen =>
              /\ was.at <= TextRow(was, d, t).at
              /\ TextRow(was, d, t).at <= TextRow(was, d, t).seen
<1>0. Times \in Nat /\ was.at \in 0..Times /\ was.seen \in 0..Times
  BY CatalogAssumption DEF TextType
<1>1. Max({was.seen, t}) = IF t <= was.seen THEN was.seen ELSE t
  BY <1>0, LaterOfTwo
<1>2. CASE was.seen <= t
  <2>1. TextRow(was, d, t) = [data |-> d, at |-> t, seen |-> Max({was.seen, t}), told |-> was.told]
    <3> PICK new : new = [was EXCEPT !.data = d, !.at = t]
      OBVIOUS
    <3>1. new = [data |-> d, at |-> t, seen |-> was.seen, told |-> was.told]
      BY DEF TextType
    <3>2. TextRow(was, d, t) = Evidence([data |-> d, at |-> t, seen |-> was.seen, told |-> was.told], t)
      BY <1>2, <3>1 DEF TextRow, Accepts
    <3>3. QED
      BY <3>2 DEF Evidence
  <2>2. QED
    BY <1>0, <1>1, <1>2, <2>1 DEF TextType
<1>3. CASE ~(was.seen <= t)
  <2>1. TextRow(was, d, t) = was
    BY <1>0, <1>1, <1>3 DEF TextRow, Evidence, Accepts, TextType
  <2>2. QED
    BY <1>0, <1>3, <2>1 DEF TextType
<1>4. QED
  BY <1>2, <1>3

\* Only a place that stands for itself is retired.
LEMMA RetiredSteps ==
  ASSUME NEW was \in PlaceType, NEW p \in ContentIds
  PROVE  /\ Retired(was, p) \in PlaceType
         /\ Retired(was, p).at = was.at /\ Retired(was, p).seen = was.seen
         /\ Retired(was, p).st = "none" <=> was.st = "none"
         /\ Retired(was, p).canon \in {was.canon, p}
         /\ was.canon # Nothing => Retired(was, p).canon = was.canon
         /\ was.st # "none" => Retired(was, p).canon # Nothing
<1>0. p # Nothing
  BY CatalogAssumption
<1>1. CASE was.st # "none" /\ was.canon = Nothing
  <2>1. Retired(was, p) = [st |-> "merged", canon |-> p, data |-> was.data, at |-> was.at, seen |-> was.seen]
    BY <1>1 DEF Retired, PlaceType
  <2>2. QED
    BY <1>0, <1>1, <2>1 DEF PlaceType
<1>2. CASE ~(was.st # "none" /\ was.canon = Nothing)
  <2>1. Retired(was, p) = was
    BY <1>2 DEF Retired
  <2>2. QED
    BY <1>0, <1>2, <2>1
<1>3. QED
  BY <1>1, <1>2

LEMMA TablesOfFields ==
  ASSUME NEW pl, NEW tx, NEW mp, NEW od, NEW re, NEW sy
  PROVE  \A u : u = [place |-> pl, text |-> tx, maps |-> mp, order |-> od, remembered |-> re, strayed |-> sy] =>
           u.place = pl /\ u.text = tx /\ u.maps = mp /\ u.remembered = re /\ u.strayed = sy
  OBVIOUS

\* The tables, field by field, when an identity is attached and when its place
\* is written.
LEMMA MappedFields ==
  ASSUME NEW tb \in TablesType, NEW s \in Sources, NEW c \in Codes, NEW p \in Places
  PROVE  /\ Mapped(tb, s, c, p) \in TablesType
         /\ Mapped(tb, s, c, p).maps = [tb.maps EXCEPT ![s] = [tb.maps[s] EXCEPT ![c] = p]]
         /\ Mapped(tb, s, c, p).place = tb.place
         /\ Mapped(tb, s, c, p).text = tb.text
         /\ Mapped(tb, s, c, p).remembered = tb.remembered
         /\ Mapped(tb, s, c, p).strayed = tb.strayed
<1> DEFINE o == IF Listed(<<s, c>>, tb.order) THEN tb.order ELSE Append(tb.order, <<s, c>>)
           m == [tb.maps EXCEPT ![s] = [tb.maps[s] EXCEPT ![c] = p]]
<1>0. tb.order \in Seq(Sources \X Codes) /\ tb.maps \in [Sources -> [Codes -> Places \union {Nothing}]]
  BY DEF TablesType
<1>1. o \in Seq(Sources \X Codes)
  BY <1>0
<1>2. m \in [Sources -> [Codes -> Places \union {Nothing}]]
  BY <1>0
<1>3. Mapped(tb, s, c, p) = [tb EXCEPT !.maps = m, !.order = o]
  BY DEF Mapped
<1> HIDE DEF m, o
<1>4. Mapped(tb, s, c, p) =
        [place |-> tb.place, text |-> tb.text, maps |-> m, order |-> o,
         remembered |-> tb.remembered, strayed |-> tb.strayed]
  BY <1>3 DEF TablesType
<1>5. QED
  BY <1>1, <1>2, <1>4 DEF TablesType, m

LEMMA AttachFields ==
  ASSUME NEW tb \in TablesType, NEW s \in Sources, NEW c \in Codes, NEW p \in ContentIds
  PROVE  /\ AttachAlias(tb, s, c, p) \in TablesType
         /\ AttachAlias(tb, s, c, p).maps = [tb.maps EXCEPT ![s] = [tb.maps[s] EXCEPT ![c] = p]]
         /\ AttachAlias(tb, s, c, p).place = [tb.place EXCEPT ![c] = Retired(tb.place[c], p)]
         /\ AttachAlias(tb, s, c, p).text = tb.text
         /\ AttachAlias(tb, s, c, p).remembered = [tb.remembered EXCEPT ![s] = [tb.remembered[s] EXCEPT ![c] = p]]
         /\ AttachAlias(tb, s, c, p).strayed = tb.strayed \ {<<s, c>>}
<1> DEFINE mapped == Mapped(tb, s, c, p)
           pl == [tb.place EXCEPT ![c] = Retired(tb.place[c], p)]
           re == [tb.remembered EXCEPT ![s] = [tb.remembered[s] EXCEPT ![c] = p]]
           sy == tb.strayed \ {<<s, c>>}
<1>1. /\ mapped \in TablesType
      /\ mapped.maps = [tb.maps EXCEPT ![s] = [tb.maps[s] EXCEPT ![c] = p]]
      /\ mapped.place = tb.place /\ mapped.text = tb.text
      /\ mapped.remembered = tb.remembered /\ mapped.strayed = tb.strayed
  BY MappedFields DEF Places
<1>2. AttachAlias(tb, s, c, p) = [mapped EXCEPT !.place = pl, !.remembered = re, !.strayed = sy]
  BY <1>1 DEF AttachAlias
<1>3. pl \in [Places -> PlaceType] /\ sy \in SUBSET (Sources \X Codes)
      /\ re \in [Sources -> [Codes -> Places \union {Nothing}]]
  BY RetiredSteps DEF TablesType, Places
<1> HIDE DEF mapped, pl, re, sy
<1>4. AttachAlias(tb, s, c, p) =
        [place |-> pl, text |-> mapped.text, maps |-> mapped.maps, order |-> mapped.order,
         remembered |-> re, strayed |-> sy]
  BY <1>1, <1>2 DEF TablesType
<1>5. mapped.order \in Seq(Sources \X Codes) /\ mapped.text \in [Places -> [Langs -> TextType]]
      /\ mapped.maps \in [Sources -> [Codes -> Places \union {Nothing}]]
  BY <1>1 DEF TablesType
<1>6. QED
  BY <1>1, <1>3, <1>4, <1>5 DEF TablesType, pl, re, sy

WrittenTo(u, tb, s, c, p, pl, tx, sy) ==
  /\ u \in TablesType
  /\ u.remembered = [tb.remembered EXCEPT ![s] = [tb.remembered[s] EXCEPT ![c] = p]]
  /\ u.strayed = sy
  /\ u.maps = [tb.maps EXCEPT ![s] = [tb.maps[s] EXCEPT ![c] = p]]
  /\ u.place = [tb.place EXCEPT ![p] = pl]
  /\ u.text = [tb.text EXCEPT ![p] = [tb.text[p] EXCEPT ![Korean] = tx]]
AfterWrite(tb, s, c, p, pl, tx, sy) ==
  [Mapped(tb, s, c, p) EXCEPT !.place[p] = pl, !.text[p][Korean] = tx, !.remembered[s][c] = p, !.strayed = sy]
LEMMA WrittenFields ==
  ASSUME NEW tb \in TablesType, NEW s \in Sources, NEW c \in Codes, NEW p \in Places,
         NEW pl \in PlaceType, NEW tx \in TextType, NEW sy \in SUBSET (Sources \X Codes), NEW u
  PROVE  u = AfterWrite(tb, s, c, p, pl, tx, sy) => WrittenTo(u, tb, s, c, p, pl, tx, sy)
<1> DEFINE mapped == Mapped(tb, s, c, p)
           rows == [tb.place EXCEPT ![p] = pl]
           texts == [tb.text EXCEPT ![p] = [tb.text[p] EXCEPT ![Korean] = tx]]
           re == [tb.remembered EXCEPT ![s] = [tb.remembered[s] EXCEPT ![c] = p]]
<1>1. /\ mapped \in TablesType
      /\ mapped.maps = [tb.maps EXCEPT ![s] = [tb.maps[s] EXCEPT ![c] = p]]
      /\ mapped.place = tb.place /\ mapped.text = tb.text /\ mapped.remembered = tb.remembered
  BY MappedFields
<1>2. AfterWrite(tb, s, c, p, pl, tx, sy) =
        [mapped EXCEPT !.place = rows, !.text = texts, !.remembered = re, !.strayed = sy]
  BY <1>1 DEF AfterWrite
<1>3. rows \in [Places -> PlaceType] /\ texts \in [Places -> [Langs -> TextType]]
      /\ re \in [Sources -> [Codes -> Places \union {Nothing}]]
  BY DEF TablesType
<1>4. ASSUME u = [mapped EXCEPT !.place = rows, !.text = texts, !.remembered = re, !.strayed = sy]
      PROVE  u = [place |-> rows, text |-> texts, maps |-> mapped.maps, order |-> mapped.order,
                  remembered |-> re, strayed |-> sy]
  <2> HIDE DEF mapped, rows, texts, re
  <2>1. QED
    BY <1>1, <1>4 DEF TablesType
<1>5. mapped.order \in Seq(Sources \X Codes)
      /\ mapped.maps \in [Sources -> [Codes -> Places \union {Nothing}]]
  BY <1>1 DEF TablesType
<1>6. ASSUME u = [place |-> rows, text |-> texts, maps |-> mapped.maps, order |-> mapped.order,
                  remembered |-> re, strayed |-> sy]
      PROVE  /\ u \in TablesType /\ u.place = rows /\ u.text = texts /\ u.maps = mapped.maps
             /\ u.remembered = re /\ u.strayed = sy
  <2> HIDE DEF mapped, rows, texts, re
  <2>1. u.place = rows /\ u.text = texts /\ u.maps = mapped.maps /\ u.remembered = re /\ u.strayed = sy
    BY <1>6, TablesOfFields
  <2>2. u \in TablesType
    BY <1>3, <1>5, <1>6 DEF TablesType
  <2>3. QED
    BY <2>1, <2>2
<1>7. QED
  BY <1>1, <1>2, <1>4, <1>6 DEF WrittenTo

-----------------------------------------------------------------------------
(* Steps of the tables. *)

\* What every change of the tables is like: a place is retired at most once, in
\* favour of a served place and only for a code, and it never loses its row; an
\* identity is led to its own place or to a served one; and if that one is named
\* for it, a place that its code has minted is retired.
GoodStep(old, new) ==
  /\ \A c \in ContentIds :
       /\ new.place[c].canon = old.place[c].canon
       /\ old.place[c].st = "active" => new.place[c].st = "active"
  /\ \A c \in Codes :
       /\ new.place[c].canon = old.place[c].canon
            \/ (old.place[c].canon = Nothing /\ new.place[c].canon \in ServedIn(old))
       /\ old.place[c].st # "none" => new.place[c].st # "none"
       /\ new.place[c].st = "none" => new.place[c].seen = 0
  /\ \A s \in Sources, c \in Codes :
       /\ new.maps[s][c] \in ServedIn(old) \union {old.maps[s][c], c}
       /\ new.remembered[s][c] \in ServedIn(old) \union {old.remembered[s][c], c, Nothing}
       /\ Named(new, s, c) =>
            \/ Named(old, s, c)
            \/ old.place[c].st # "none" => new.place[c].canon # Nothing
  /\ \A p \in Places :
       old.place[p].at <= new.place[p].at /\ new.place[p].at <= new.place[p].seen
  /\ \A c \in ContentIds, l \in Langs :
       /\ old.text[c][l].at <= new.text[c][l].at /\ new.text[c][l].at <= new.text[c][l].seen
       /\ old.text[c][l].told # 0 => new.text[c][l].told # 0

LEMMA SoundAfterStep ==
  ASSUME NEW tb, NEW rels, Sound(tb, rels), NEW u \in TablesType, GoodStep(tb, u),
         NEW extra \in SUBSET [source : Sources, code : Codes, place : Places],
         \A r \in extra :
           /\ r.place \in ServedIn(u) \union {r.code}
           /\ r.place = r.code => u.place[r.code].st # "none" /\ ~Named(u, r.source, r.code)
  PROVE  Sound(u, rels \union extra) /\ Onward(tb, u)
<1>1. ServedIn(tb) \subseteq ServedIn(u)
  BY DEF GoodStep, ServedIn, Sound
<1>2. Onward(tb, u)
  BY <1>1 DEF GoodStep, Onward
<1>3. \A c \in ContentIds : u.place[c].canon = Nothing
  BY DEF Sound, GoodStep
<1>4. \A c \in Codes :
        /\ u.place[c].canon \in ServedIn(u) \union {Nothing}
        /\ u.place[c].st = "none" => u.place[c].seen = 0
        /\ tb.place[c].canon # Nothing => u.place[c].canon # Nothing
  BY <1>1 DEF Sound, GoodStep
<1>5. \A s \in Sources, c \in Codes :
        /\ u.maps[s][c] \in ServedIn(u) \union {c, Nothing}
        /\ u.remembered[s][c] \in ServedIn(u) \union {c, Nothing}
  BY <1>1 DEF Sound, GoodStep
<1>6. \A p \in Places : u.place[p].at <= u.place[p].seen
  BY DEF GoodStep
<1>7. \A c \in ContentIds, l \in Langs : u.text[c][l].at <= u.text[c][l].seen
  BY DEF GoodStep
<1>8. ASSUME NEW r \in rels
      PROVE  /\ r.place \in ServedIn(u) \union {r.code}
             /\ r.place = r.code =>
                  /\ u.place[r.code].st # "none"
                  /\ Named(u, r.source, r.code) => u.place[r.code].canon # Nothing
  <2>1. r.source \in Sources /\ r.code \in Codes
    BY DEF Sound
  <2>2. /\ r.place \in ServedIn(tb) \union {r.code}
        /\ r.place = r.code =>
             /\ tb.place[r.code].st # "none"
             /\ Named(tb, r.source, r.code) => tb.place[r.code].canon # Nothing
    BY DEF Sound
  <2>3. r.place = r.code => u.place[r.code].st # "none"
    BY <2>1, <2>2 DEF GoodStep
  <2>4. ASSUME r.place = r.code, Named(u, r.source, r.code)
        PROVE  u.place[r.code].canon # Nothing
    <3>1. CASE Named(tb, r.source, r.code)
      BY <1>4, <2>1, <2>2, <2>4, <3>1
    <3>2. CASE tb.place[r.code].st # "none" => u.place[r.code].canon # Nothing
      BY <2>2, <2>4, <3>2
    <3>3. QED
      BY <2>1, <2>4, <3>1, <3>2 DEF GoodStep
  <2>5. QED
    BY <1>1, <2>2, <2>3, <2>4
<1>9. rels \union extra \subseteq [source : Sources, code : Codes, place : Places]
  BY DEF Sound
<1>a. \A r \in rels \union extra :
        /\ r.place \in ServedIn(u) \union {r.code}
        /\ r.place = r.code =>
             /\ u.place[r.code].st # "none"
             /\ Named(u, r.source, r.code) => u.place[r.code].canon # Nothing
  BY <1>8
<1>b. QED
  BY <1>2, <1>3, <1>4, <1>5, <1>6, <1>7, <1>9, <1>a DEF Sound

\* Attaching an identity to a served place.
LEMMA AttachIsGood ==
  ASSUME NEW tb, NEW rels, Sound(tb, rels), NEW s \in Sources, NEW c \in Codes,
         NEW p \in ServedIn(tb)
  PROVE  /\ AttachAlias(tb, s, c, p) \in TablesType
         /\ GoodStep(tb, AttachAlias(tb, s, c, p))
         /\ AttachAlias(tb, s, c, p).maps[s][c] = p
<1> DEFINE u == AttachAlias(tb, s, c, p)
<1>0. p \in ContentIds /\ p \in Places /\ c \in Places /\ c \notin ContentIds /\ tb \in TablesType
  BY CatalogAssumption DEF ServedIn, Places, Sound
<1>1. /\ u \in TablesType
      /\ u.maps = [tb.maps EXCEPT ![s] = [tb.maps[s] EXCEPT ![c] = p]]
      /\ u.place = [tb.place EXCEPT ![c] = Retired(tb.place[c], p)]
      /\ u.text = tb.text
      /\ u.remembered = [tb.remembered EXCEPT ![s] = [tb.remembered[s] EXCEPT ![c] = p]]
      /\ u.strayed = tb.strayed \ {<<s, c>>}
  BY <1>0, AttachFields
<1> HIDE DEF u
<1>2. tb.place \in [Places -> PlaceType] /\ tb.maps \in [Sources -> [Codes -> Places \union {Nothing}]]
      /\ tb.remembered \in [Sources -> [Codes -> Places \union {Nothing}]]
      /\ tb.text \in [Places -> [Langs -> TextType]]
  BY <1>0 DEF TablesType
<1>3. u.place[c] = Retired(tb.place[c], p) /\ \A q \in Places \ {c} : u.place[q] = tb.place[q]
  BY <1>0, <1>1, <1>2
<1>4. /\ u.maps[s][c] = p
      /\ \A o \in Sources, k \in Codes : <<o, k>> # <<s, c>> => u.maps[o][k] = tb.maps[o][k]
  BY <1>0, <1>1, <1>2
<1>5. /\ u.place[c].at = tb.place[c].at /\ u.place[c].seen = tb.place[c].seen
      /\ u.place[c].st = "none" <=> tb.place[c].st = "none"
      /\ u.place[c].canon \in {tb.place[c].canon, p}
      /\ tb.place[c].canon # Nothing => u.place[c].canon = tb.place[c].canon
      /\ tb.place[c].st # "none" => u.place[c].canon # Nothing
  <2>1. tb.place[c] \in PlaceType
    BY <1>0, <1>2
  <2>2. QED
    BY <1>0, <1>3, <2>1, RetiredSteps
<1>6. \A q \in Places :
        /\ tb.place[q].at \in Nat /\ tb.place[q].at <= tb.place[q].seen
        /\ u.place[q].at = tb.place[q].at /\ u.place[q].seen = tb.place[q].seen
  <2>1. \A q \in Places : tb.place[q].at \in Nat /\ tb.place[q].at <= tb.place[q].seen
    BY <1>2, CatalogAssumption DEF Sound, PlaceType
  <2>2. QED
    BY <1>3, <1>5, <2>1
<1>7. \A q \in Places : tb.place[q].at <= u.place[q].at /\ u.place[q].at <= u.place[q].seen
  BY <1>6
<1>8. \A k \in ContentIds : k \in Places /\ k # c
  BY <1>0 DEF Places
<1>9. \A k \in ContentIds, l \in Langs :
        /\ tb.text[k][l].at <= u.text[k][l].at /\ u.text[k][l].at <= u.text[k][l].seen
        /\ tb.text[k][l].told # 0 => u.text[k][l].told # 0
  <2>1. \A k \in ContentIds, l \in Langs : tb.text[k][l].at \in Nat
    BY <1>2, <1>8, CatalogAssumption DEF TextType
  <2>2. QED
    BY <1>1, <2>1 DEF Sound
<1>a. \A k \in Codes :
       /\ u.place[k].canon = tb.place[k].canon
            \/ (tb.place[k].canon = Nothing /\ u.place[k].canon \in ServedIn(tb))
       /\ tb.place[k].st # "none" => u.place[k].st # "none"
       /\ u.place[k].st = "none" => u.place[k].seen = 0
  <2> SUFFICES ASSUME NEW k \in Codes
               PROVE  /\ u.place[k].canon = tb.place[k].canon
                           \/ (tb.place[k].canon = Nothing /\ u.place[k].canon \in ServedIn(tb))
                      /\ tb.place[k].st # "none" => u.place[k].st # "none"
                      /\ u.place[k].st = "none" => u.place[k].seen = 0
    OBVIOUS
  <2>1. tb.place[k].st = "none" => tb.place[k].seen = 0
    BY DEF Sound
  <2>2. CASE k = c
    <3>1. u.place[k].canon = tb.place[k].canon \/ (tb.place[k].canon = Nothing /\ u.place[k].canon = p)
      BY <1>5, <2>2
    <3>2. QED
      BY <1>5, <2>1, <2>2, <3>1
  <2>3. CASE k # c
    <3>1. u.place[k] = tb.place[k]
      BY <1>3, <2>3 DEF Places
    <3>2. QED
      BY <2>1, <3>1
  <2>4. QED
    BY <2>2, <2>3
<1>r. \A o \in Sources, k \in Codes :
        u.remembered[o][k] = IF <<o, k>> = <<s, c>> THEN p ELSE tb.remembered[o][k]
  BY <1>1, <1>2
<1>b. \A o \in Sources, k \in Codes :
       /\ u.maps[o][k] \in ServedIn(tb) \union {tb.maps[o][k], k}
       /\ u.remembered[o][k] \in ServedIn(tb) \union {tb.remembered[o][k], k, Nothing}
       /\ Named(u, o, k) =>
            \/ Named(tb, o, k)
            \/ tb.place[k].st # "none" => u.place[k].canon # Nothing
  <2> SUFFICES ASSUME NEW o \in Sources, NEW k \in Codes
               PROVE  /\ u.maps[o][k] \in ServedIn(tb) \union {tb.maps[o][k], k}
                      /\ u.remembered[o][k] \in ServedIn(tb) \union {tb.remembered[o][k], k, Nothing}
                      /\ Named(u, o, k) =>
                           \/ Named(tb, o, k)
                           \/ tb.place[k].st # "none" => u.place[k].canon # Nothing
    OBVIOUS
  <2>1. CASE <<o, k>> = <<s, c>>
    <3>1. o = s /\ k = c
      BY <2>1
    <3>2. QED
      BY <1>4, <1>5, <1>r, <2>1, <3>1
  <2>2. CASE <<o, k>> # <<s, c>>
    <3>1. u.maps[o][k] = tb.maps[o][k] /\ u.remembered[o][k] = tb.remembered[o][k]
          /\ (<<o, k>> \in u.strayed <=> <<o, k>> \in tb.strayed)
      BY <1>1, <1>4, <1>r, <2>2
    <3>2. QED
      BY <3>1 DEF Named
  <2>3. QED
    BY <2>1, <2>2
<1>c. \A k \in ContentIds :
       /\ u.place[k].canon = tb.place[k].canon
       /\ tb.place[k].st = "active" => u.place[k].st = "active"
  BY <1>3, <1>8
<1>d. QED
  BY <1>1, <1>4, <1>7, <1>9, <1>a, <1>b, <1>c DEF GoodStep, u

\* Writing a place: its own, or the served one where its identity stands.
LEMMA WriteIsGood ==
  ASSUME NEW tb, NEW rels, Sound(tb, rels), NEW s \in Sources, NEW c \in Codes,
         NEW p \in ServedIn(tb) \union {c}, NEW sy \in SUBSET (Sources \X Codes),
         sy = IF p \in ContentIds /\ tb.maps[s][c] \notin ContentIds
              THEN tb.strayed \union {<<s, c>>} ELSE tb.strayed,
         NEW d \in Data, NEW t \in 1..Times, NEW tx \in TextType,
         p \in ContentIds => tx = TextRow(tb.text[p][Korean], d, t),
         NEW u, WrittenTo(u, tb, s, c, p, PlaceRow(tb.place[p], d, t), tx, sy)
  PROVE  /\ GoodStep(tb, u) /\ u.maps[s][c] = p
         /\ u.place[p].st # "none"
<1>0. p \in Places /\ c \in Places /\ c \notin ContentIds /\ tb \in TablesType /\ Korean \in Langs
  BY CatalogAssumption DEF ServedIn, Places, Sound
<1>2. tb.place \in [Places -> PlaceType] /\ tb.maps \in [Sources -> [Codes -> Places \union {Nothing}]]
      /\ tb.remembered \in [Sources -> [Codes -> Places \union {Nothing}]]
      /\ tb.text \in [Places -> [Langs -> TextType]]
  BY <1>0 DEF TablesType
<1>w. /\ u \in TablesType
      /\ u.remembered = [tb.remembered EXCEPT ![s] = [tb.remembered[s] EXCEPT ![c] = p]]
      /\ u.strayed = sy
      /\ u.maps = [tb.maps EXCEPT ![s] = [tb.maps[s] EXCEPT ![c] = p]]
      /\ u.place = [tb.place EXCEPT ![p] = PlaceRow(tb.place[p], d, t)]
      /\ u.text = [tb.text EXCEPT ![p] = [tb.text[p] EXCEPT ![Korean] = tx]]
  BY DEF WrittenTo
<1>3. u.place[p] = PlaceRow(tb.place[p], d, t) /\ \A q \in Places \ {p} : u.place[q] = tb.place[q]
  BY <1>0, <1>2, <1>w
<1>4. /\ u.maps[s][c] = p
      /\ \A o \in Sources, k \in Codes : <<o, k>> # <<s, c>> => u.maps[o][k] = tb.maps[o][k]
  BY <1>0, <1>2, <1>w
<1>5. tb.place[p] \in PlaceType /\ tb.place[p].at <= tb.place[p].seen
  BY <1>0, <1>2 DEF Sound
<1>6. /\ u.place[p].canon = tb.place[p].canon
      /\ u.place[p].st \in {tb.place[p].st, "active"}
      /\ tb.place[p].seen = 0 => u.place[p].st = "active"
      /\ tb.place[p].at <= u.place[p].at
      /\ u.place[p].at <= u.place[p].seen
  BY <1>3, <1>5, PlaceRowSteps
<1>7. u.place[p].st # "none"
  BY <1>6 DEF Sound, ServedIn
<1>8. \A q \in Places : tb.place[q].at <= u.place[q].at /\ u.place[q].at <= u.place[q].seen
  <2>1. \A q \in Places : tb.place[q].at \in Nat /\ tb.place[q].at <= tb.place[q].seen
    BY <1>2, CatalogAssumption DEF Sound, PlaceType
  <2>2. QED
    BY <1>3, <1>6, <2>1
<1>9. ASSUME NEW k \in ContentIds, NEW l \in Langs
      PROVE  /\ tb.text[k][l].at <= u.text[k][l].at /\ u.text[k][l].at <= u.text[k][l].seen
             /\ tb.text[k][l].told # 0 => u.text[k][l].told # 0
  <2>0. k \in Places
    BY DEF Places
  <2>1. tb.text[k][l] \in TextType /\ tb.text[k][l].at <= tb.text[k][l].seen
    BY <1>2, <2>0 DEF Sound
  <2>2. CASE k = p /\ l = Korean
    <3>1. u.text[k][l] = TextRow(tb.text[k][l], d, t)
      BY <1>0, <1>2, <1>w, <2>0, <2>2
    <3>2. QED
      BY <2>1, <3>1, TextRowSteps
  <2>3. CASE ~(k = p /\ l = Korean)
    <3>1. u.text[k][l] = tb.text[k][l]
      BY <1>0, <1>2, <1>w, <2>0, <2>3
    <3>2. tb.text[k][l].at \in Nat
      BY <2>1, CatalogAssumption DEF TextType
    <3>3. QED
      BY <2>1, <3>1, <3>2
  <2>4. QED
    BY <2>2, <2>3
<1>a. \A k \in Codes :
       /\ u.place[k].canon = tb.place[k].canon
       /\ tb.place[k].st # "none" => u.place[k].st # "none"
       /\ u.place[k].st = "none" => u.place[k].seen = 0
  BY <1>3, <1>6, <1>7 DEF Sound, Places
<1>r. \A o \in Sources, k \in Codes :
        u.remembered[o][k] = IF <<o, k>> = <<s, c>> THEN p ELSE tb.remembered[o][k]
  BY <1>2, <1>w
<1>b. \A o \in Sources, k \in Codes :
       /\ u.maps[o][k] \in ServedIn(tb) \union {tb.maps[o][k], k}
       /\ u.remembered[o][k] \in ServedIn(tb) \union {tb.remembered[o][k], k, Nothing}
       /\ Named(u, o, k) => Named(tb, o, k)
  <2> SUFFICES ASSUME NEW o \in Sources, NEW k \in Codes
               PROVE  /\ u.maps[o][k] \in ServedIn(tb) \union {tb.maps[o][k], k}
                      /\ u.remembered[o][k] \in ServedIn(tb) \union {tb.remembered[o][k], k, Nothing}
                      /\ Named(u, o, k) => Named(tb, o, k)
    OBVIOUS
  <2>1. CASE <<o, k>> = <<s, c>>
    <3>1. o = s /\ k = c /\ u.maps[o][k] = p /\ u.remembered[o][k] = p
      BY <1>4, <1>r, <2>1
    <3>2. ASSUME Named(u, o, k) PROVE Named(tb, o, k)
      <4>1. p \in ContentIds /\ <<s, c>> \notin sy
        BY <1>w, <3>1, <3>2 DEF Named
      <4>2. tb.maps[s][c] \in ContentIds /\ sy = tb.strayed
        BY <4>1
      <4>3. QED
        BY <3>1, <4>1, <4>2 DEF Named
    <3>3. QED
      BY <3>1, <3>2
  <2>2. CASE <<o, k>> # <<s, c>>
    <3>1. u.maps[o][k] = tb.maps[o][k] /\ u.remembered[o][k] = tb.remembered[o][k]
          /\ (<<o, k>> \in u.strayed <=> <<o, k>> \in tb.strayed)
      BY <1>4, <1>r, <1>w, <2>2
    <3>2. QED
      BY <3>1 DEF Named
  <2>3. QED
    BY <2>1, <2>2
<1>c. \A k \in ContentIds :
       /\ u.place[k].canon = tb.place[k].canon
       /\ tb.place[k].st = "active" => u.place[k].st = "active"
  BY <1>3, <1>6 DEF Places
<1>d. GoodStep(tb, u)
  BY <1>8, <1>9, <1>a, <1>b, <1>c DEF GoodStep
<1>e. QED
  BY <1>4, <1>7, <1>d

\* A row of a TATS source: its place, its identity and the relation row that
\* names the place.
LEMMA UpsertIsSound ==
  ASSUME NEW tb, NEW rels, Sound(tb, rels), ServedIn(Tables) \subseteq ServedIn(tb),
         known \in [Langs -> SUBSET ContentIds],
         NEW s \in Sources, NEW c \in Codes, NEW d \in Data, NEW t \in 1..Times, NEW lost \in BOOLEAN
  PROVE  LET u == Upsert(tb, s, c, d, t, lost) IN
         /\ u \in TablesType
         /\ Sound(u, rels \union {[source |-> s, code |-> c, place |-> u.maps[s][c]]})
         /\ Onward(tb, u)
<1>u. PICK u : u = Upsert(tb, s, c, d, t, lost)
  OBVIOUS
<1>t. PICK twin : twin = Match(d, d)
  OBVIOUS
<1>r. PICK rel : rel = [source |-> s, code |-> c, place |-> u.maps[s][c]]
  OBVIOUS
<1>0. /\ tb \in TablesType /\ c \in Places /\ c \notin ContentIds /\ Korean \in Langs
      /\ c # Nothing
  BY CatalogAssumption DEF Places, Sound
<1> SUFFICES u \in TablesType /\ Sound(u, rels \union {rel}) /\ Onward(tb, u)
  BY <1>u, <1>r
<1>1. CASE twin # Nothing
  <2>1. twin \in ServedIn(tb)
    BY <1>1, <1>t, MatchIsServed
  <2>2. u = AttachAlias(tb, s, c, twin)
    BY <1>1, <1>t, <1>u DEF Upsert
  <2>3. u \in TablesType /\ GoodStep(tb, u) /\ u.maps[s][c] = twin
    BY <2>1, <2>2, AttachIsGood
  <2>4. rel = [source |-> s, code |-> c, place |-> twin] /\ twin \in ContentIds /\ twin \in Places
    BY <1>r, <2>1, <2>3 DEF ServedIn, Places
  <2>5. ServedIn(tb) \subseteq ServedIn(u)
    BY <2>3 DEF GoodStep, ServedIn
  <2>6. {rel} \in SUBSET [source : Sources, code : Codes, place : Places]
    BY <2>4
  <2>7. \A r \in {rel} : r.place = twin /\ r.code = c
    BY <2>4
  <2>8. \A r \in {rel} :
           /\ r.place \in ServedIn(u) \union {r.code}
           /\ r.place = r.code => u.place[r.code].st # "none" /\ ~Named(u, r.source, r.code)
    BY <1>0, <2>1, <2>4, <2>5, <2>7
  <2>9. QED
    BY <2>3, <2>6, <2>8, SoundAfterStep
<1>2. CASE twin = Nothing
  <2>p. PICK p : p = Standing(tb, s, c)
    OBVIOUS
  <2>q. PICK old : old = tb.text[p][Korean]
    OBVIOUS
  <2>r. PICK tx : tx = IF lost /\ p \in Codes /\ old.seen = 0
                       THEN [TextRow(old, d, t) EXCEPT !.seen = old.seen] ELSE TextRow(old, d, t)
    OBVIOUS
  <2>s. PICK sy : sy = IF p \in ContentIds /\ tb.maps[s][c] \notin ContentIds
                       THEN tb.strayed \union {<<s, c>>} ELSE tb.strayed
    OBVIOUS
  <2>t. PICK pl : pl = PlaceRow(tb.place[p], d, t)
    OBVIOUS
  <2>1. p \in ServedIn(tb) \union {c}
    BY <1>0, <2>p DEF Standing, Sound
  <2>2. p \in Places
    BY <1>0, <2>1 DEF ServedIn, Places
  <2>3. Mapped(tb, s, c, p).place = tb.place /\ Mapped(tb, s, c, p).text = tb.text
        /\ Mapped(tb, s, c, p).strayed = tb.strayed
    <3>1. tb \in TablesType
      BY <1>0
    <3>2. /\ Mapped(tb, s, c, p) \in TablesType
          /\ Mapped(tb, s, c, p).maps = [tb.maps EXCEPT ![s] = [tb.maps[s] EXCEPT ![c] = p]]
          /\ Mapped(tb, s, c, p).place = tb.place
          /\ Mapped(tb, s, c, p).text = tb.text
          /\ Mapped(tb, s, c, p).strayed = tb.strayed
      BY <2>2, <3>1, MappedFields
    <3>3. QED
      BY <3>2
  <2>4. u = AfterWrite(tb, s, c, p, pl, tx, sy)
    BY <1>2, <1>t, <1>u, <2>3, <2>p, <2>q, <2>r, <2>s, <2>t DEF Upsert, AfterWrite
  <2>5. tb.place[p] \in PlaceType /\ old \in TextType
    BY <1>0, <2>2, <2>q DEF TablesType
  <2>6. tx \in TextType /\ (p \in ContentIds => tx = TextRow(tb.text[p][Korean], d, t))
    <3>1. TextRow(old, d, t) \in TextType
      BY <2>5, TextRowSteps
    <3>2. \A was \in TextType : [was EXCEPT !.seen = old.seen] \in TextType
      BY <2>5 DEF TextType
    <3>3. p \in ContentIds => p \notin Codes
      BY CatalogAssumption
    <3>4. QED
      BY <2>q, <2>r, <3>1, <3>2, <3>3
  <2>7. sy \in SUBSET (Sources \X Codes)
    BY <1>0, <2>s DEF TablesType
  <2>8. pl \in PlaceType
    BY <2>5, <2>t, PlaceRowSteps
  <2>9. WrittenTo(u, tb, s, c, p, pl, tx, sy)
    BY <1>0, <2>2, <2>4, <2>6, <2>7, <2>8, WrittenFields
  <2>a. GoodStep(tb, u) /\ u.maps[s][c] = p /\ u.place[p].st # "none"
    <3>1. p \in ServedIn(tb) \union {c}
      BY <2>1
    <3>2. sy \in SUBSET (Sources \X Codes)
      BY <2>7
    <3>3. tx \in TextType
      BY <2>6
    <3>4. p \in ContentIds => tx = TextRow(tb.text[p][Korean], d, t)
      BY <2>6
    <3>5. WrittenTo(u, tb, s, c, p, PlaceRow(tb.place[p], d, t), tx, sy)
      BY <2>9, <2>t
    <3>9. QED
      BY <2>s, <3>1, <3>2, <3>3, <3>4, <3>5, WriteIsGood
  <2>u. u \in TablesType
    BY <2>9 DEF WrittenTo
  <2>b. rel = [source |-> s, code |-> c, place |-> p]
    BY <1>r, <2>a
  <2>c. ServedIn(tb) \subseteq ServedIn(u)
    BY <2>a DEF GoodStep, ServedIn
  <2>d. {rel} \in SUBSET [source : Sources, code : Codes, place : Places]
    BY <2>2, <2>b
  <2>e. \A r \in {rel} : r.place = p /\ r.code = c /\ r.source = s
    BY <2>b
  <2>f. \A r \in {rel} :
           /\ r.place \in ServedIn(u) \union {r.code}
           /\ r.place = r.code => u.place[r.code].st # "none" /\ ~Named(u, r.source, r.code)
    BY <1>0, <2>1, <2>a, <2>c, <2>e DEF Named
  <2>g. QED
    BY <2>a, <2>d, <2>f, <2>u, SoundAfterStep
<1>3. QED
  BY <1>1, <1>2

-----------------------------------------------------------------------------
(* The actions. *)

LEMMA TablesAfter ==
  ASSUME NEW u \in TablesType, Written(u)
  PROVE  Tables' = u
  BY DEF TablesType, Written, Tables

LEMMA PrimedSound ==
  /\ Sound(Tables, relations)' <=> Sound(Tables', relations')
  /\ ServedIn(Tables)' = ServedIn(Tables')
  BY DEF Sound, ServedIn

\* A step of the tables is one of the catalog.
LEMMA CatalogAfter ==
  ASSUME CatalogSafe, Sound(Tables', relations'), Onward(Tables, Tables'),
         known' \in [Langs -> SUBSET ContentIds],
         scan' = scan \/ scan' \in [on : BOOLEAN, attach :
           SUBSET [source : Sources, code : Codes, twin : ServedIn(Tables)]]
  PROVE  CatalogSafe'
<1>1. ServedIn(Tables) \subseteq ServedIn(Tables')
  BY DEF Onward
<1>2. scan' \in [on : BOOLEAN, attach : SUBSET [source : Sources, code : Codes, twin : ServedIn(Tables)]]
  BY DEF CatalogSafe
<1>3. \A a \in [source : Sources, code : Codes, twin : ServedIn(Tables)] :
        a \in [source : Sources, code : Codes, twin : ServedIn(Tables')]
  BY <1>1
<1>4. scan' \in [on : BOOLEAN, attach : SUBSET [source : Sources, code : Codes, twin : ServedIn(Tables')]]
  BY <1>2, <1>3
<1>5. QED
  BY <1>4, PrimedSound DEF CatalogSafe

LEMMA LostIsBoolean == ASSUME NEW c PROVE Losable(c) \subseteq BOOLEAN
  BY DEF Losable

\* One step after another.
LEMMA OnwardAgain ==
  ASSUME NEW a \in TablesType, NEW b \in TablesType, NEW c \in TablesType, Onward(a, b), Onward(b, c)
  PROVE  Onward(a, c)
<1>1. ASSUME NEW tb \in TablesType
      PROVE  /\ \A p \in Places : tb.place[p].at \in Nat
             /\ \A p \in Places, l \in Langs : tb.text[p][l].at \in Nat
  <2>1. tb.place \in [Places -> PlaceType] /\ tb.text \in [Places -> [Langs -> TextType]]
    BY DEF TablesType
  <2>2. \A x \in PlaceType : x.at \in Nat
    BY CatalogAssumption DEF PlaceType
  <2>3. \A x \in TextType : x.at \in Nat
    BY CatalogAssumption DEF TextType
  <2>4. QED
    BY <2>1, <2>2, <2>3
<1>2. \A p \in Places : a.place[p].at <= c.place[p].at
  BY <1>1 DEF Onward
<1>3. \A k \in ContentIds, l \in Langs : a.text[k][l].at <= c.text[k][l].at
  <2>1. \A k \in ContentIds : k \in Places
    BY DEF Places
  <2>2. QED
    BY <1>1, <2>1 DEF Onward
<1>4. \A k \in ContentIds, l \in Langs : a.text[k][l].told # 0 => c.text[k][l].told # 0
  BY DEF Onward
<1>5. QED
  BY <1>2, <1>3, <1>4 DEF Onward

LEMMA HubKeepsCatalog ==
  ASSUME CatalogSafe, NEW c \in Codes, HubRow(c)
  PROVE  CatalogSafe' /\ Onward(Tables, Tables')
<1>1. PICK d \in Data, t \in 1..Times, lost \in Losable(c) :
        /\ Written(Upsert(Tables, Hub, c, d, t, lost))
        /\ relations' = relations \union
             {[source |-> Hub, code |-> c, place |-> Upsert(Tables, Hub, c, d, t, lost).maps[Hub][c]]}
        /\ UNCHANGED <<known, scan>>
  BY DEF HubRow
<1>2. PICK u : u = Upsert(Tables, Hub, c, d, t, lost)
  OBVIOUS
<1>3. /\ Sound(Tables, relations) /\ known \in [Langs -> SUBSET ContentIds]
      /\ Hub \in Sources /\ lost \in BOOLEAN
  BY LostIsBoolean DEF CatalogSafe, Sources
<1>4. /\ u \in TablesType /\ Onward(Tables, u)
      /\ Sound(u, relations \union {[source |-> Hub, code |-> c, place |-> u.maps[Hub][c]]})
  BY <1>2, <1>3, UpsertIsSound
<1>5. Tables' = u
  BY <1>1, <1>2, <1>4, TablesAfter
<1>6. Sound(Tables', relations') /\ Onward(Tables, Tables')
  BY <1>1, <1>2, <1>4, <1>5
<1>7. QED
  BY <1>1, <1>3, <1>6, CatalogAfter

LEMMA RelatedKeepsCatalog ==
  ASSUME CatalogSafe, NEW c \in Codes, NEW e \in Codes, RelatedRow(c, e)
  PROVE  CatalogSafe' /\ Onward(Tables, Tables')
<1>1. PICK d \in Data, de \in Data, t \in 1..Times, lost \in Losable(c) \union Losable(e) :
        LET one == Upsert(Tables, Related, c, d, t, lost)
            tb == Upsert(one, Related, e, de, t, lost)
        IN
        /\ Written(tb)
        /\ relations' = relations \union
             {[source |-> Related, code |-> c, place |-> one.maps[Related][c]],
              [source |-> Related, code |-> e, place |-> tb.maps[Related][e]]}
        /\ UNCHANGED <<known, scan>>
  BY DEF RelatedRow
<1>2. PICK one : one = Upsert(Tables, Related, c, d, t, lost)
  OBVIOUS
<1>3. PICK u : u = Upsert(one, Related, e, de, t, lost)
  OBVIOUS
<1>4. /\ Written(u) /\ UNCHANGED <<known, scan>>
      /\ relations' = relations \union
             {[source |-> Related, code |-> c, place |-> one.maps[Related][c]],
              [source |-> Related, code |-> e, place |-> u.maps[Related][e]]}
  BY <1>1, <1>2, <1>3
<1>5. /\ Sound(Tables, relations) /\ known \in [Langs -> SUBSET ContentIds]
      /\ Related \in Sources /\ lost \in BOOLEAN
  BY LostIsBoolean DEF CatalogSafe, Sources
<1>6. PICK rels : rels = relations \union {[source |-> Related, code |-> c, place |-> one.maps[Related][c]]}
  OBVIOUS
<1>7. one \in TablesType /\ Onward(Tables, one) /\ Sound(one, rels)
  BY <1>2, <1>5, <1>6, UpsertIsSound
<1>8. ServedIn(Tables) \subseteq ServedIn(one)
  BY <1>7 DEF Onward
<1>9. /\ u \in TablesType /\ Onward(one, u)
      /\ Sound(u, rels \union {[source |-> Related, code |-> e, place |-> u.maps[Related][e]]})
  BY <1>3, <1>5, <1>7, <1>8, UpsertIsSound
<1>a. Onward(Tables, u)
  BY <1>5, <1>7, <1>9, OnwardAgain DEF Sound
<1>b. Tables' = u
  BY <1>4, <1>9, TablesAfter
<1>c. relations' = rels \union {[source |-> Related, code |-> e, place |-> u.maps[Related][e]]}
  BY <1>4, <1>6
<1>d. Sound(Tables', relations') /\ Onward(Tables, Tables')
  BY <1>9, <1>a, <1>b, <1>c
<1>e. QED
  BY <1>4, <1>5, <1>d, CatalogAfter

\* A row of a TourAPI source or a detail: it touches one content and its text.
ContentStep(tb, u, c, l, pl, tx) ==
  /\ u \in TablesType
  /\ u.place = [tb.place EXCEPT ![c] = pl]
  /\ u.text = [tb.text EXCEPT ![c] = [tb.text[c] EXCEPT ![l] = tx]]
  /\ u.maps = tb.maps /\ u.remembered = tb.remembered /\ u.strayed = tb.strayed
LEMMA ContentStepIsGood ==
  ASSUME NEW tb, NEW rels, Sound(tb, rels), NEW c \in ContentIds, NEW l \in Langs,
         NEW pl \in PlaceType, NEW tx \in TextType, NEW u, ContentStep(tb, u, c, l, pl, tx),
         pl.canon = tb.place[c].canon, tb.place[c].st = "active" => pl.st = "active",
         tb.place[c].at <= pl.at, pl.at <= pl.seen,
         tb.text[c][l].at <= tx.at, tx.at <= tx.seen, tb.text[c][l].told # 0 => tx.told # 0
  PROVE  GoodStep(tb, u)
<1>0. c \in Places /\ c \notin Codes /\ tb \in TablesType
  BY CatalogAssumption DEF Places, Sound
<1>1. tb.place \in [Places -> PlaceType] /\ tb.text \in [Places -> [Langs -> TextType]]
  BY <1>0 DEF TablesType
<1>2. /\ u.place = [tb.place EXCEPT ![c] = pl]
      /\ u.text = [tb.text EXCEPT ![c] = [tb.text[c] EXCEPT ![l] = tx]]
      /\ u.maps = tb.maps /\ u.remembered = tb.remembered /\ u.strayed = tb.strayed
  BY DEF ContentStep
<1>3. u.place[c] = pl /\ \A p \in Places \ {c} : u.place[p] = tb.place[p]
  BY <1>0, <1>1, <1>2
<1>4. \A p \in Places : tb.place[p].at \in Nat /\ tb.place[p].at <= tb.place[p].seen
  BY <1>1, CatalogAssumption DEF Sound, PlaceType
<1>5. \A p \in Places : tb.place[p].at <= u.place[p].at /\ u.place[p].at <= u.place[p].seen
  BY <1>3, <1>4
<1>6. ASSUME NEW k \in ContentIds, NEW m \in Langs
      PROVE  /\ tb.text[k][m].at <= u.text[k][m].at /\ u.text[k][m].at <= u.text[k][m].seen
             /\ tb.text[k][m].told # 0 => u.text[k][m].told # 0
  <2>0. k \in Places
    BY DEF Places
  <2>1. tb.text[k][m] \in TextType /\ tb.text[k][m].at <= tb.text[k][m].seen
    BY <1>1, <2>0 DEF Sound
  <2>2. CASE k = c /\ m = l
    <3>1. u.text[k][m] = tx
      BY <1>0, <1>1, <1>2, <2>0, <2>2
    <3>2. QED
      BY <2>2, <3>1
  <2>3. CASE ~(k = c /\ m = l)
    <3>1. u.text[k][m] = tb.text[k][m]
      BY <1>0, <1>1, <1>2, <2>0, <2>3
    <3>2. tb.text[k][m].at \in Nat
      BY <2>1, CatalogAssumption DEF TextType
    <3>3. QED
      BY <2>1, <3>1, <3>2
  <2>4. QED
    BY <2>2, <2>3
<1>7. \A k \in Codes : u.place[k] = tb.place[k]
  BY <1>0, <1>3 DEF Places
<1>8. \A k \in ContentIds :
        /\ u.place[k].canon = tb.place[k].canon
        /\ tb.place[k].st = "active" => u.place[k].st = "active"
  BY <1>3 DEF Places
<1>9. \A k \in Codes :
       /\ u.place[k].canon = tb.place[k].canon
       /\ tb.place[k].st # "none" => u.place[k].st # "none"
       /\ u.place[k].st = "none" => u.place[k].seen = 0
  BY <1>7 DEF Sound
<1>a. QED
  BY <1>2, <1>5, <1>6, <1>8, <1>9 DEF GoodStep, Named

\* Such a step keeps the catalog.
LEMMA ContentKeepsCatalog ==
  ASSUME CatalogSafe, NEW u \in TablesType, GoodStep(Tables, u), Tables' = u,
         relations' = relations, scan' = scan, known' \in [Langs -> SUBSET ContentIds]
  PROVE  CatalogSafe' /\ Onward(Tables, Tables')
<1>1. Sound(Tables, relations)
  BY DEF CatalogSafe
<1>2. Sound(u, relations \union {}) /\ Onward(Tables, u)
  <2>1. {} \in SUBSET [source : Sources, code : Codes, place : Places]
    OBVIOUS
  <2>2. \A r \in {} :
           /\ r.place \in ServedIn(u) \union {r.code}
           /\ r.place = r.code => u.place[r.code].st # "none" /\ ~Named(u, r.source, r.code)
    OBVIOUS
  <2>3. QED
    BY <1>1, <2>1, <2>2, SoundAfterStep
<1>3. Sound(Tables', relations') /\ Onward(Tables, Tables')
  BY <1>2
<1>4. QED
  BY <1>3, CatalogAfter

LEMMA TablesTyped ==
  ASSUME CatalogSafe
  PROVE  /\ Tables \in TablesType
         /\ Tables.place = place /\ Tables.text = text /\ Tables.maps = maps
      /\ Tables.remembered = remembered /\ Tables.strayed = strayed
         /\ place \in [Places -> PlaceType] /\ text \in [Places -> [Langs -> TextType]]
         /\ maps \in [Sources -> [Codes -> Places \union {Nothing}]]
         /\ order \in Seq(Sources \X Codes) /\ strayed \in SUBSET (Sources \X Codes)
      /\ remembered \in [Sources -> [Codes -> Places \union {Nothing}]]
<1>1. Tables \in TablesType
  BY DEF CatalogSafe, Sound
<1>2. QED
  BY <1>1 DEF Tables, TablesType

LEMMA TourKeepsCatalog ==
  ASSUME CatalogSafe, NEW c \in ContentIds, NEW l \in Langs, TourRow(l, c)
  PROVE  CatalogSafe' /\ Onward(Tables, Tables')
<1>0. /\ Tables \in TablesType
      /\ Tables.place = place /\ Tables.text = text /\ Tables.maps = maps
      /\ Tables.remembered = remembered /\ Tables.strayed = strayed
      /\ place \in [Places -> PlaceType] /\ text \in [Places -> [Langs -> TextType]]
      /\ maps \in [Sources -> [Codes -> Places \union {Nothing}]]
      /\ order \in Seq(Sources \X Codes) /\ strayed \in SUBSET (Sources \X Codes)
      /\ remembered \in [Sources -> [Codes -> Places \union {Nothing}]]
      /\ Sound(Tables, relations) /\ c \in Places /\ known \in [Langs -> SUBSET ContentIds]
  BY TablesTyped DEF Places, CatalogSafe
<1>1. PICK d \in Data, t \in 1..Times :
        /\ place' = [place EXCEPT ![c] = PlaceRow(place[c], d, t)]
        /\ text' = [text EXCEPT ![c] = [text[c] EXCEPT ![l] = TextRow(text[c][l], d, t)]]
        /\ known' = [known EXCEPT ![l] = known[l] \union {c}]
        /\ UNCHANGED <<maps, order, relations, remembered, strayed, scan>>
  BY <1>0 DEF TourRow
<1>2. PICK pl : pl = PlaceRow(place[c], d, t)
  OBVIOUS
<1>3. PICK tx : tx = TextRow(text[c][l], d, t)
  OBVIOUS
<1>4. /\ place[c] \in PlaceType /\ place[c].at <= place[c].seen
      /\ text[c][l] \in TextType /\ text[c][l].at <= text[c][l].seen
  BY <1>0 DEF Sound
<1>5. /\ pl \in PlaceType /\ pl.canon = place[c].canon /\ pl.st \in {place[c].st, "active"}
      /\ place[c].at <= pl.at /\ pl.at <= pl.seen
  BY <1>2, <1>4, PlaceRowSteps
<1>6. /\ tx \in TextType /\ tx.told = text[c][l].told
      /\ text[c][l].at <= tx.at /\ tx.at <= tx.seen
  BY <1>3, <1>4, TextRowSteps
<1>7. /\ place' = [place EXCEPT ![c] = pl] /\ place' \in [Places -> PlaceType]
      /\ text' = [text EXCEPT ![c] = [text[c] EXCEPT ![l] = tx]]
      /\ text' \in [Places -> [Langs -> TextType]]
  BY <1>0, <1>1, <1>2, <1>3, <1>5, <1>6
<1>8. PICK u : u = Tables'
  OBVIOUS
<1>9. ContentStep(Tables, u, c, l, pl, tx)
  BY <1>0, <1>1, <1>7, <1>8 DEF ContentStep, TablesType, Tables
<1>a. /\ pl.canon = Tables.place[c].canon /\ (Tables.place[c].st = "active" => pl.st = "active")
      /\ Tables.place[c].at <= pl.at /\ Tables.text[c][l].at <= tx.at
      /\ (Tables.text[c][l].told # 0 => tx.told # 0)
  BY <1>0, <1>5, <1>6
<1>b. GoodStep(Tables, u)
  BY <1>0, <1>5, <1>6, <1>9, <1>a, ContentStepIsGood
<1>c. known' \in [Langs -> SUBSET ContentIds]
  BY <1>0, <1>1
<1>d. u \in TablesType
  BY <1>9 DEF ContentStep
<1>e. QED
  BY <1>1, <1>8, <1>b, <1>c, <1>d, ContentKeepsCatalog

LEMMA DetailKeepsCatalog ==
  ASSUME CatalogSafe, NEW c \in ContentIds, NEW l \in Langs, DetailRow(l, c)
  PROVE  CatalogSafe' /\ Onward(Tables, Tables')
<1>0. /\ Tables \in TablesType
      /\ Tables.place = place /\ Tables.text = text /\ Tables.maps = maps
      /\ Tables.remembered = remembered /\ Tables.strayed = strayed
      /\ place \in [Places -> PlaceType] /\ text \in [Places -> [Langs -> TextType]]
      /\ maps \in [Sources -> [Codes -> Places \union {Nothing}]]
      /\ order \in Seq(Sources \X Codes) /\ strayed \in SUBSET (Sources \X Codes)
      /\ remembered \in [Sources -> [Codes -> Places \union {Nothing}]]
      /\ Sound(Tables, relations) /\ c \in Places /\ known \in [Langs -> SUBSET ContentIds]
  BY TablesTyped DEF Places, CatalogSafe
<1>1. PICK t \in 1..Times :
        /\ text' = [text EXCEPT ![c] = [text[c] EXCEPT ![l] = Evidence([text[c][l] EXCEPT !.told = t], t)]]
        /\ place' = [place EXCEPT ![c] = Evidence(place[c], t)]
        /\ UNCHANGED <<known, maps, order, relations, remembered, strayed, scan>>
  BY <1>0 DEF DetailRow
<1>2. PICK pl : pl = Evidence(place[c], t)
  OBVIOUS
<1>3. PICK tx : tx = Evidence([text[c][l] EXCEPT !.told = t], t)
  OBVIOUS
<1>4. /\ place[c] \in PlaceType /\ place[c].at <= place[c].seen
      /\ text[c][l] \in TextType /\ text[c][l].at <= text[c][l].seen
  BY <1>0 DEF Sound
<1>p. Times \in Nat
  BY CatalogAssumption
<1>5. /\ pl \in PlaceType /\ pl.canon = place[c].canon /\ pl.st = place[c].st
      /\ place[c].at <= pl.at /\ pl.at <= pl.seen
  <2>1. Max({place[c].seen, t}) = IF t <= place[c].seen THEN place[c].seen ELSE t
    BY <1>4, <1>p, LaterOfTwo DEF PlaceType
  <2>2. pl = [place[c] EXCEPT !.seen = Max({place[c].seen, t})]
    BY <1>2 DEF Evidence
  <2>3. QED
    BY <1>4, <1>p, <2>1, <2>2 DEF PlaceType
<1>6. /\ tx \in TextType /\ tx.told # 0
      /\ text[c][l].at <= tx.at /\ tx.at <= tx.seen
  <2>1. PICK y : y = [text[c][l] EXCEPT !.told = t]
    OBVIOUS
  <2>2. y \in TextType /\ y.told = t /\ y.at = text[c][l].at /\ y.seen = text[c][l].seen
    BY <1>4, <2>1 DEF TextType
  <2>3. Max({y.seen, t}) = IF t <= y.seen THEN y.seen ELSE t
    BY <1>p, <2>2, LaterOfTwo DEF TextType
  <2>4. tx = [y EXCEPT !.seen = Max({y.seen, t})]
    BY <1>3, <2>1 DEF Evidence
  <2>5. QED
    BY <1>4, <1>p, <2>2, <2>3, <2>4 DEF TextType
<1>7. /\ place' = [place EXCEPT ![c] = pl] /\ place' \in [Places -> PlaceType]
      /\ text' = [text EXCEPT ![c] = [text[c] EXCEPT ![l] = tx]]
      /\ text' \in [Places -> [Langs -> TextType]]
  BY <1>0, <1>1, <1>2, <1>3, <1>5, <1>6
<1>8. PICK u : u = Tables'
  OBVIOUS
<1>9. ContentStep(Tables, u, c, l, pl, tx)
  BY <1>0, <1>1, <1>7, <1>8 DEF ContentStep, TablesType, Tables
<1>a. /\ pl.canon = Tables.place[c].canon /\ (Tables.place[c].st = "active" => pl.st = "active")
      /\ Tables.place[c].at <= pl.at /\ Tables.text[c][l].at <= tx.at
      /\ (Tables.text[c][l].told # 0 => tx.told # 0)
  BY <1>0, <1>5, <1>6
<1>b. GoodStep(Tables, u)
  BY <1>0, <1>5, <1>6, <1>9, <1>a, ContentStepIsGood
<1>d. u \in TablesType
  BY <1>9 DEF ContentStep
<1>e. QED
  BY <1>0, <1>1, <1>8, <1>b, <1>d, ContentKeepsCatalog

\* A step that leaves places, texts and identities alone, but not their memory.
LEMMA StillGood ==
  ASSUME NEW tb, NEW rels, Sound(tb, rels), NEW u \in TablesType,
         u.place = tb.place, u.text = tb.text, u.maps = tb.maps, u.strayed = tb.strayed,
         \A s \in Sources, c \in Codes :
           u.remembered[s][c] \in ServedIn(tb) \union {tb.remembered[s][c], c, Nothing}
  PROVE  GoodStep(tb, u)
<1>1. tb \in TablesType
  BY DEF Sound
<1>2. tb.place \in [Places -> PlaceType] /\ tb.text \in [Places -> [Langs -> TextType]]
  BY <1>1 DEF TablesType
<1>3. \A p \in Places : tb.place[p].at \in Nat
  BY <1>2, CatalogAssumption DEF PlaceType
<1>4. \A p \in Places : tb.place[p].at <= u.place[p].at /\ u.place[p].at <= u.place[p].seen
  BY <1>3 DEF Sound
<1>5. \A k \in ContentIds, l \in Langs : tb.text[k][l].at \in Nat
  <2>1. \A k \in ContentIds : k \in Places
    BY DEF Places
  <2>2. \A x \in TextType : x.at \in Nat
    BY CatalogAssumption DEF TextType
  <2>3. QED
    BY <1>2, <2>1, <2>2
<1>6. \A k \in ContentIds, l \in Langs :
        /\ tb.text[k][l].at <= u.text[k][l].at /\ u.text[k][l].at <= u.text[k][l].seen
        /\ tb.text[k][l].told # 0 => u.text[k][l].told # 0
  BY <1>5 DEF Sound
<1>7. \A k \in Codes : u.place[k].st = "none" => u.place[k].seen = 0
  BY DEF Sound
<1>8. QED
  BY <1>4, <1>6, <1>7 DEF GoodStep, Named

LEMMA SessionKeepsCatalog ==
  ASSUME CatalogSafe,
         (\E s \in Sources, c \in Codes : RefusedRow(s, c)) \/ NewSession \/ CrosswalkScan \/ UNCHANGED catalogVars
  PROVE  CatalogSafe' /\ Onward(Tables, Tables')
<1>0. /\ Tables \in TablesType
      /\ Tables.place = place /\ Tables.text = text /\ Tables.maps = maps
      /\ Tables.remembered = remembered /\ Tables.strayed = strayed
      /\ place \in [Places -> PlaceType] /\ text \in [Places -> [Langs -> TextType]]
      /\ maps \in [Sources -> [Codes -> Places \union {Nothing}]]
      /\ order \in Seq(Sources \X Codes) /\ strayed \in SUBSET (Sources \X Codes)
      /\ remembered \in [Sources -> [Codes -> Places \union {Nothing}]]
      /\ Sound(Tables, relations) /\ known \in [Langs -> SUBSET ContentIds]
  BY TablesTyped DEF CatalogSafe
<1>m. ASSUME NEW s \in Sources, NEW c \in Codes
      PROVE  c \in Places /\ remembered[s][c] \in Places \union {Nothing}
  BY <1>0 DEF Places
<1>1. /\ UNCHANGED <<place, text, known, maps, order, relations, strayed>>
      /\ remembered' \in [Sources -> [Codes -> Places \union {Nothing}]]
      /\ \A s \in Sources, c \in Codes :
           remembered'[s][c] \in ServedIn(Tables) \union {remembered[s][c], c, Nothing}
  <2>1. CASE \E s \in Sources, c \in Codes : RefusedRow(s, c)
    <3>1. PICK s \in Sources, c \in Codes : RefusedRow(s, c)
      BY <2>1
    <3>2. PICK d \in Data :
            /\ remembered' = [remembered EXCEPT ![s] = [remembered[s] EXCEPT ![c] =
                 IF Match(d, d) # Nothing THEN Match(d, d) ELSE Standing(Tables, s, c)]]
            /\ UNCHANGED <<place, text, known, maps, order, relations, strayed, scan>>
      BY <1>0, <3>1 DEF RefusedRow
    <3>3. PICK p : p = IF Match(d, d) # Nothing THEN Match(d, d) ELSE Standing(Tables, s, c)
      OBVIOUS
    <3>4. p \in ServedIn(Tables) \union {c}
      BY <1>0, <3>3, MatchIsServed DEF Standing, Sound
    <3>5. p \in Places
      BY <1>m, <3>4 DEF ServedIn, Places
    <3>6. QED
      BY <1>0, <3>2, <3>3, <3>4, <3>5
  <2>2. CASE NewSession
    BY <1>0, <2>2 DEF NewSession
  <2>3. CASE CrosswalkScan \/ UNCHANGED catalogVars
    BY <1>0, <2>3 DEF CrosswalkScan, catalogVars
  <2>4. QED
    BY <2>1, <2>2, <2>3
<1>2. PICK u : u = Tables'
  OBVIOUS
<1>3. u = [place |-> place, text |-> text, maps |-> maps, order |-> order,
           remembered |-> remembered', strayed |-> strayed]
  BY <1>1, <1>2 DEF Tables
<1>4. u \in TablesType /\ u.place = Tables.place /\ u.text = Tables.text /\ u.maps = Tables.maps
      /\ u.strayed = Tables.strayed /\ u.remembered = remembered'
  BY <1>0, <1>1, <1>3 DEF TablesType
<1>5. GoodStep(Tables, u)
  BY <1>0, <1>1, <1>4, StillGood
<1>6. Sound(u, relations \union {}) /\ Onward(Tables, u)
  <2>1. {} \in SUBSET [source : Sources, code : Codes, place : Places]
    OBVIOUS
  <2>2. \A r \in {} :
           /\ r.place \in ServedIn(u) \union {r.code}
           /\ r.place = r.code => u.place[r.code].st # "none" /\ ~Named(u, r.source, r.code)
    OBVIOUS
  <2>3. QED
    BY <1>0, <1>4, <1>5, <2>1, <2>2, SoundAfterStep
<1>7. Sound(Tables', relations') /\ Onward(Tables, Tables')
  BY <1>1, <1>2, <1>6
<1>8. scan' = scan \/ scan' \in [on : BOOLEAN, attach :
           SUBSET [source : Sources, code : Codes, twin : ServedIn(Tables)]]
  <2>1. CASE CrosswalkScan
    <3>1. \A i \in Candidates : i \in Sources \X Codes
      <4> DEFINE served == {i \in DOMAIN order : IsServed(maps[order[i][1]][order[i][2]])}
                 first == {j \in served : Cardinality({k \in served : k <= j}) <= Limit}
      <4>1. Candidates = {order[i] : i \in first}
        BY DEF Candidates
      <4>2. first \subseteq DOMAIN order
        OBVIOUS
      <4> HIDE DEF first
      <4>3. \A i \in DOMAIN order : order[i] \in Sources \X Codes
        BY <1>0
      <4>4. QED
        BY <4>1, <4>2, <4>3
    <3>2. ASSUME NEW i \in Candidates, Attachable(i[1], i[2])
          PROVE  Twin(i[2]) \in ServedIn(Tables)
      BY <1>0, <3>2, MatchIsServed DEF Attachable, Twin
    <3>3. {[source |-> i[1], code |-> i[2], twin |-> Twin(i[2])] :
             i \in {j \in Candidates : Attachable(j[1], j[2])}}
            \in SUBSET [source : Sources, code : Codes, twin : ServedIn(Tables)]
      BY <3>1, <3>2
    <3>4. QED
      BY <2>1, <3>3 DEF CrosswalkScan
  <2>2. QED
    BY <2>1 DEF RefusedRow, NewSession, catalogVars
<1>9. QED
  BY <1>0, <1>1, <1>7, <1>8, CatalogAfter

LEMMA CommitKeepsCatalog ==
  ASSUME CatalogSafe, CrosswalkCommit
  PROVE  CatalogSafe' /\ Onward(Tables, Tables')
<1>0. /\ Tables \in TablesType
      /\ Tables.place = place /\ Tables.text = text /\ Tables.maps = maps
      /\ Tables.remembered = remembered /\ Tables.strayed = strayed
      /\ place \in [Places -> PlaceType] /\ text \in [Places -> [Langs -> TextType]]
      /\ maps \in [Sources -> [Codes -> Places \union {Nothing}]]
      /\ order \in Seq(Sources \X Codes) /\ strayed \in SUBSET (Sources \X Codes)
      /\ remembered \in [Sources -> [Codes -> Places \union {Nothing}]]
      /\ Sound(Tables, relations) /\ known \in [Langs -> SUBSET ContentIds]
      /\ scan.attach \in SUBSET [source : Sources, code : Codes, twin : ServedIn(Tables)]
  BY TablesTyped DEF CatalogSafe
<1>1. PICK done \in SUBSET scan.attach :
        LET Of(c) == {a \in done : a.code = c}
            TwinOf(c) == (CHOOSE a \in Of(c) : TRUE).twin
        IN /\ maps' = [s \in Sources |-> [c \in Codes |->
                IF \E a \in Of(c) : a.source = s THEN TwinOf(c) ELSE maps[s][c]]]
           /\ place' = [p \in Places |-> IF Of(p) # {} THEN Retired(place[p], TwinOf(p)) ELSE place[p]]
           /\ strayed' = strayed \ {<<a.source, a.code>> : a \in done}
  BY DEF CrosswalkCommit
<1> DEFINE Of(c) == {a \in done : a.code = c}
           TwinOf(c) == (CHOOSE a \in Of(c) : TRUE).twin
<1>2. /\ maps' = [s \in Sources |-> [c \in Codes |->
                IF \E a \in Of(c) : a.source = s THEN TwinOf(c) ELSE maps[s][c]]]
      /\ place' = [p \in Places |-> IF Of(p) # {} THEN Retired(place[p], TwinOf(p)) ELSE place[p]]
      /\ strayed' = strayed \ {<<a.source, a.code>> : a \in done}
  BY <1>1
<1>3. ASSUME NEW c, Of(c) # {}
      PROVE  c \in Codes /\ TwinOf(c) \in ServedIn(Tables)
  <2>1. (CHOOSE a \in Of(c) : TRUE) \in Of(c)
    BY <1>3
  <2>2. \A a \in Of(c) : a \in [source : Sources, code : Codes, twin : ServedIn(Tables)] /\ a.code = c
    BY <1>0
  <2> HIDE DEF Of
  <2>3. QED
    BY <2>1, <2>2
<1>4. \A s, c : (\E a \in Of(c) : a.source = s) => Of(c) # {}
  OBVIOUS
<1>y. \A a \in done : a \in Of(a.code)
  OBVIOUS
<1> HIDE DEF Of, TwinOf
<1>5. \A s \in Sources, c \in Codes :
        \/ maps'[s][c] = maps[s][c]
        \/ Of(c) # {} /\ maps'[s][c] = TwinOf(c)
  BY <1>2, <1>4
<1>6. \A p \in Places : place'[p] = IF Of(p) # {} THEN Retired(place[p], TwinOf(p)) ELSE place[p]
  BY <1>2
<1>7. \A x \in ServedIn(Tables) : x \in ContentIds /\ x \in Places
  BY DEF ServedIn, Places
<1>8. maps' \in [Sources -> [Codes -> Places \union {Nothing}]]
  <2>1. ASSUME NEW s \in Sources, NEW c \in Codes
        PROVE  (IF \E a \in Of(c) : a.source = s THEN TwinOf(c) ELSE maps[s][c]) \in Places \union {Nothing}
    BY <1>0, <1>3, <1>4, <1>7
  <2>2. QED
    BY <1>2, <2>1
<1>9. ASSUME NEW p \in Places
      PROVE  /\ place'[p] \in PlaceType
             /\ place'[p].at = place[p].at /\ place'[p].seen = place[p].seen
             /\ place'[p].st = "none" <=> place[p].st = "none"
             /\ place'[p] # place[p] => p \in Codes
             /\ place'[p].canon \in ServedIn(Tables) \union {place[p].canon}
             /\ place[p].canon # Nothing => place'[p].canon = place[p].canon
             /\ Of(p) # {} /\ place[p].st # "none" => place'[p].canon # Nothing
  <2>1. place[p] \in PlaceType
    BY <1>0
  <2>2. CASE Of(p) # {}
    <3>1. PICK q : q = TwinOf(p)
      OBVIOUS
    <3>2. q \in ContentIds /\ q \in ServedIn(Tables) /\ p \in Codes
      BY <1>3, <1>7, <2>2, <3>1
    <3>3. place'[p] = Retired(place[p], q)
      BY <1>6, <2>2, <3>1
    <3>4. PICK was : was = place[p]
      OBVIOUS
    <3>5. /\ Retired(was, q) \in PlaceType
          /\ Retired(was, q).at = was.at /\ Retired(was, q).seen = was.seen
          /\ Retired(was, q).st = "none" <=> was.st = "none"
          /\ Retired(was, q).canon \in {was.canon, q}
          /\ was.canon # Nothing => Retired(was, q).canon = was.canon
          /\ was.st # "none" => Retired(was, q).canon # Nothing
      BY <2>1, <3>2, <3>4, RetiredSteps
    <3>6. QED
      BY <3>2, <3>3, <3>4, <3>5
  <2>3. CASE Of(p) = {}
    BY <1>6, <2>1, <2>3
  <2>4. QED
    BY <2>2, <2>3
<1>a. place' \in [Places -> PlaceType]
  BY <1>2, <1>6, <1>9
<1>b. UNCHANGED <<text, known, order, relations, remembered>> /\ scan' = Idle
  BY DEF CrosswalkCommit
<1>c. PICK u : u = Tables'
  OBVIOUS
<1>d. u = [place |-> place', text |-> text, maps |-> maps', order |-> order,
           remembered |-> remembered, strayed |-> strayed']
  BY <1>b, <1>c DEF Tables
<1>e. u \in TablesType /\ u.place = place' /\ u.text = text /\ u.maps = maps'
      /\ u.remembered = remembered /\ u.strayed = strayed'
  BY <1>0, <1>2, <1>8, <1>a, <1>d DEF TablesType
<1>f. GoodStep(Tables, u)
  <2>1. \A p \in Places : place[p].at <= u.place[p].at /\ u.place[p].at <= u.place[p].seen
    <3>1. \A p \in Places : place[p].at \in Nat /\ place[p].at <= place[p].seen
      BY <1>0, CatalogAssumption DEF Sound, PlaceType
    <3>2. QED
      BY <1>9, <1>e, <3>1
  <2>2. \A k \in ContentIds : k \in Places /\ k \notin Codes
    BY CatalogAssumption DEF Places
  <2>3. \A k \in ContentIds : u.place[k] = place[k]
    BY <1>9, <1>e, <2>2
  <2>4. ASSUME NEW k \in Codes
        PROVE  /\ \/ u.place[k].canon = place[k].canon
                  \/ (place[k].canon = Nothing /\ u.place[k].canon \in ServedIn(Tables))
               /\ place[k].st # "none" => u.place[k].st # "none"
               /\ u.place[k].st = "none" => u.place[k].seen = 0
    <3>1. k \in Places /\ (place[k].st = "none" => place[k].seen = 0)
      BY <1>0 DEF Places, Sound
    <3>2. QED
      BY <1>9, <1>e, <3>1
  <2>5. ASSUME NEW s \in Sources, NEW k \in Codes
        PROVE  /\ u.maps[s][k] \in ServedIn(Tables) \union {maps[s][k], k}
               /\ Named(u, s, k) =>
                    \/ Named(Tables, s, k)
                    \/ place[k].st # "none" => u.place[k].canon # Nothing
    <3>1. k \in Places
      BY DEF Places
    <3>2. CASE Of(k) # {}
      <4>1. place[k].st # "none" => u.place[k].canon # Nothing
        BY <1>9, <1>e, <3>1, <3>2
      <4>2. u.maps[s][k] \in ServedIn(Tables) \union {maps[s][k]}
        BY <1>3, <1>5, <1>e, <3>2
      <4>3. QED
        BY <4>1, <4>2
    <3>3. CASE Of(k) = {}
      <4>1. maps'[s][k] = maps[s][k]
        BY <1>5, <3>3
      <4>2. \A a \in done : <<a.source, a.code>> # <<s, k>>
        BY <1>y, <3>3
      <4>3. <<s, k>> \in strayed' <=> <<s, k>> \in strayed
        BY <1>2, <4>2
      <4>4. QED
        BY <1>0, <1>e, <4>1, <4>3 DEF Named
    <3>4. QED
      BY <3>2, <3>3
  <2>6. ASSUME NEW k \in ContentIds, NEW l \in Langs
        PROVE  /\ text[k][l].at <= u.text[k][l].at /\ u.text[k][l].at <= u.text[k][l].seen
               /\ text[k][l].told # 0 => u.text[k][l].told # 0
    <3>1. text[k][l] \in TextType /\ text[k][l].at <= text[k][l].seen
      BY <1>0, <2>2 DEF Sound
    <3>2. text[k][l].at \in Nat
      BY <3>1, CatalogAssumption DEF TextType
    <3>3. QED
      BY <1>e, <3>1, <3>2
  <2>7. QED
    BY <1>0, <1>e, <2>1, <2>3, <2>4, <2>5, <2>6 DEF GoodStep
<1>g. Sound(u, relations \union {}) /\ Onward(Tables, u)
  <2>1. {} \in SUBSET [source : Sources, code : Codes, place : Places]
    OBVIOUS
  <2>2. \A r \in {} :
           /\ r.place \in ServedIn(u) \union {r.code}
           /\ r.place = r.code => u.place[r.code].st # "none" /\ ~Named(u, r.source, r.code)
    OBVIOUS
  <2>3. QED
    BY <1>0, <1>e, <1>f, <2>1, <2>2, SoundAfterStep
<1>h. Sound(Tables', relations') /\ Onward(Tables, Tables')
  BY <1>b, <1>c, <1>g
<1>i. scan' \in [on : BOOLEAN, attach : SUBSET [source : Sources, code : Codes, twin : ServedIn(Tables)]]
  BY <1>b DEF Idle
<1>j. QED
  BY <1>0, <1>b, <1>h, <1>i, CatalogAfter

LEMMA CatalogInitially == CatalogInit => CatalogSafe
<1> SUFFICES ASSUME CatalogInit PROVE CatalogSafe
  OBVIOUS
<1>1. /\ place = [p \in Places |-> NoPlace]
      /\ text = [p \in Places |-> [l \in Langs |-> NoText]]
      /\ known = [l \in Langs |-> {}]
      /\ maps = [s \in Sources |-> [c \in Codes |-> Nothing]]
      /\ order = <<>> /\ relations = {} /\ strayed = {} /\ scan = Idle
      /\ remembered = [s \in Sources |-> [c \in Codes |-> Nothing]]
  BY DEF CatalogInit
<1>2. NoPlace \in PlaceType /\ NoText \in TextType
  BY CatalogAssumption DEF NoPlace, NoText, PlaceType, TextType
<1>3. Tables = [place |-> place, text |-> text, maps |-> maps, order |-> order,
             remembered |-> remembered, strayed |-> strayed]
  BY DEF Tables
<1>4. Tables \in TablesType /\ Tables.place = place /\ Tables.text = text /\ Tables.maps = maps
      /\ Tables.remembered = remembered /\ Tables.strayed = strayed
  BY <1>1, <1>2, <1>3 DEF TablesType
<1>5. /\ \A p \in Places : place[p] = NoPlace
      /\ \A p \in Places, l \in Langs : text[p][l] = NoText
      /\ \A s \in Sources, c \in Codes : maps[s][c] = Nothing /\ remembered[s][c] = Nothing
      /\ \A c \in Codes : c \in Places
      /\ \A c \in ContentIds : c \in Places
  BY <1>1 DEF Places
<1>6. Sound(Tables, relations)
  BY <1>1, <1>4, <1>5 DEF Sound, NoPlace, NoText
<1>7. QED
  BY <1>1, <1>6 DEF CatalogSafe, Idle

-----------------------------------------------------------------------------
LEMMA CatalogMoves ==
  ASSUME CatalogSafe, [CatalogNext]_catalogVars
  PROVE  CatalogSafe' /\ Onward(Tables, Tables')
<1>1. CASE \E c \in ContentIds, l \in Langs : TourRow(l, c) \/ DetailRow(l, c)
  BY <1>1, TourKeepsCatalog, DetailKeepsCatalog
<1>2. CASE \E c \in Codes : HubRow(c) \/ \E e \in Codes : RelatedRow(c, e)
  BY <1>2, HubKeepsCatalog, RelatedKeepsCatalog
<1>3. CASE (\E s \in Sources, c \in Codes : RefusedRow(s, c))
        \/ NewSession \/ CrosswalkScan \/ UNCHANGED catalogVars
  BY <1>3, SessionKeepsCatalog
<1>4. CASE CrosswalkCommit
  BY <1>4, CommitKeepsCatalog
<1>5. QED
  BY <1>1, <1>2, <1>3, <1>4 DEF CatalogNext

\* Every variable keeps its type, for any contents, codes and times.
THEOREM CatalogTypes == CatalogSpec => []CatalogTypeOK
<1>1. CatalogSafe => CatalogTypeOK
  <2> SUFFICES ASSUME CatalogSafe PROVE CatalogTypeOK
    OBVIOUS
  <2>1. /\ place \in [Places -> PlaceType] /\ text \in [Places -> [Langs -> TextType]]
        /\ maps \in [Sources -> [Codes -> Places \union {Nothing}]]
        /\ order \in Seq(Sources \X Codes) /\ strayed \in SUBSET (Sources \X Codes)
      /\ remembered \in [Sources -> [Codes -> Places \union {Nothing}]]
    BY TablesTyped
  <2>2. relations \subseteq [source : Sources, code : Codes, place : Places]
    BY DEF CatalogSafe, Sound
  <2>3. scan.attach \subseteq [source : Sources, code : Codes, twin : ContentIds]
    BY DEF CatalogSafe, ServedIn
  <2>4. QED
    BY <2>1, <2>2, <2>3 DEF CatalogTypeOK, CatalogSafe
<1>2. CatalogSafe /\ [CatalogNext]_catalogVars => CatalogSafe'
  BY CatalogMoves
<1>3. QED
  BY <1>1, <1>2, CatalogInitially, PTL DEF CatalogSpec

\* For any contents, codes, names and times: once an identity leads to a
\* TourAPI place that was named for it, the readers of that catalog see every
\* relation it ever had, whichever rows are refused.
THEOREM RelationsStayRead == CatalogSpec => []RelationsAreRead
<1>1. CatalogSafe => RelationsAreRead
  <2> SUFFICES ASSUME CatalogSafe, NEW r \in relations, maps[r.source][r.code] \in ContentIds,
                      <<r.source, r.code>> \notin strayed
               PROVE  \E c \in ContentIds : IsServed(c) /\ r.place \in AliasIds(c)
    BY DEF RelationsAreRead
  <2>1. /\ Tables.place = place /\ Tables.maps = maps /\ Tables.strayed = strayed
    BY TablesTyped
  <2>2. r.code \in Codes /\ r.code \in Places
    BY DEF CatalogSafe, Sound, Places
  <2>3. /\ r.place \in ServedIn(Tables) \union {r.code}
        /\ r.place = r.code => place[r.code].canon # Nothing
    BY <2>1 DEF CatalogSafe, Sound, Named
  <2>4. place[r.code].canon \in ServedIn(Tables) \union {Nothing}
    BY <2>1, <2>2 DEF CatalogSafe, Sound
  <2>5. \A c \in ServedIn(Tables) : c \in ContentIds /\ IsServed(c)
    BY <2>1 DEF ServedIn, IsServed
  <2>6. CASE r.place \in ServedIn(Tables)
    BY <2>5, <2>6 DEF AliasIds
  <2>7. CASE r.place = r.code
    BY <2>2, <2>3, <2>4, <2>5, <2>7 DEF AliasIds
  <2>8. QED
    BY <2>3, <2>6, <2>7
<1>2. CatalogSafe /\ [CatalogNext]_catalogVars => CatalogSafe'
  BY CatalogMoves
<1>3. QED
  BY <1>1, <1>2, CatalogInitially, PTL DEF CatalogSpec

\* For any contents, codes, names and times: no place data, title or address
\* gives way to an older record, and an overview only to another detail.
THEOREM NothingEverGoesBack == CatalogSpec => NothingGoesBack
<1>1. CatalogSafe /\ [CatalogNext]_catalogVars => CatalogSafe'
  BY CatalogMoves
<1>2. CatalogSafe /\ CatalogSafe' /\ [CatalogNext]_catalogVars =>
        [/\ \A p \in Places : place'[p].at >= place[p].at
         /\ \A c \in ContentIds, l \in Langs :
              /\ text'[c][l].at >= text[c][l].at
              /\ text[c][l].told # 0 => text'[c][l].told # 0]_catalogVars
  <2> SUFFICES ASSUME CatalogSafe, CatalogSafe', [CatalogNext]_catalogVars
               PROVE  /\ \A p \in Places : place'[p].at >= place[p].at
                      /\ \A c \in ContentIds, l \in Langs :
                           /\ text'[c][l].at >= text[c][l].at
                           /\ text[c][l].told # 0 => text'[c][l].told # 0
    OBVIOUS
  <2>1. Onward(Tables, Tables')
    BY CatalogMoves
  <2>2. Tables = [place |-> place, text |-> text, maps |-> maps, order |-> order,
             remembered |-> remembered, strayed |-> strayed]
    BY DEF Tables
  <2>3. Tables' = [place |-> place', text |-> text', maps |-> maps', order |-> order',
             remembered |-> remembered', strayed |-> strayed']
    BY DEF Tables
  <2>4. QED
    BY <2>1, <2>2, <2>3 DEF Onward
<1>3. QED
  BY <1>1, <1>2, CatalogInitially, PTL DEF CatalogSpec, NothingGoesBack

-----------------------------------------------------------------------------
(*****************************************************************************)
(* ObservationRows: totals, for any runs and any of their times.             *)
(*****************************************************************************)

\* Runs to come have no records.
RowsSafe ==
  /\ ObservationTypeOK
  /\ \A r \in 1..MaxRuns : r > runs => good[r] = {}
  /\ discipline = "visitors" /\ Accepted = {} => row.at = NoRun
  /\ TotalsAreOfOneRun

LEMMA RowsInitially == ObservationInit => RowsSafe
<1> SUFFICES ASSUME ObservationInit PROVE RowsSafe
  OBVIOUS
<1>1. /\ discipline \in Disciplines /\ runs = 0 /\ row = EmptyRow
      /\ kept = [r \in 1..MaxRuns |-> {}] /\ good = [r \in 1..MaxRuns |-> {}]
  BY DEF ObservationInit
<1>2. EmptyRow \in [at : 0..MaxRuns, from : [Parts -> 0..MaxRuns]]
  BY ObservationAssumption DEF EmptyRow, NoRun
<1>3. Accepted = {} /\ EmptyRow.at = NoRun
  BY <1>1 DEF Accepted, EmptyRow
<1>4. QED
  BY <1>1, <1>2, <1>3, ObservationAssumption DEF RowsSafe, ObservationTypeOK, TotalsAreOfOneRun, Accepted

\* The two times of a run order the runs.
LEMMA EarlierIsOrder ==
  /\ \A r, q \in 1..MaxRuns : Earlier(r, q) => ~Earlier(q, r)
  /\ \A r, q, o \in 1..MaxRuns : ~Earlier(r, q) /\ ~Earlier(q, o) => ~Earlier(r, o)
  /\ \A r : ~Earlier(r, NoRun)
  BY ObservationAssumption DEF Earlier, NoRun

\* What is written is a row.
LEMMA RowAfterType ==
  ASSUME ObservationTypeOK, NEW r \in 1..MaxRuns, NEW parts \in SUBSET Parts
  PROVE  RowAfter(r, parts) \in [at : 0..MaxRuns, from : [Parts -> 0..MaxRuns]]
<1>1. \A ps, old : old \in [Parts -> 0..MaxRuns] => Parted(r, ps, old) \in [Parts -> 0..MaxRuns]
  BY DEF Parted
<1>2. EmptyRow.from \in [Parts -> 0..MaxRuns]
  BY ObservationAssumption DEF EmptyRow, NoRun
<1>3. row \in [at : 0..MaxRuns, from : [Parts -> 0..MaxRuns]] /\ discipline \in Disciplines
  BY DEF ObservationTypeOK
<1>4. \A ps, old : old \in [Parts -> 0..MaxRuns] =>
        [at |-> r, from |-> Parted(r, ps, old)] \in [at : 0..MaxRuns, from : [Parts -> 0..MaxRuns]]
  BY <1>1
<1>5. row.from \in [Parts -> 0..MaxRuns]
  BY <1>3
<1>6. TotalWritten(r, parts) \in [at : 0..MaxRuns, from : [Parts -> 0..MaxRuns]]
  BY <1>2, <1>3, <1>4 DEF TotalWritten
<1>7. ShopWritten(r, parts) \in [at : 0..MaxRuns, from : [Parts -> 0..MaxRuns]]
  BY <1>2, <1>3, <1>4 DEF ShopWritten
<1>8. FactsMerged(r, parts) \in [at : 0..MaxRuns, from : [Parts -> 0..MaxRuns]]
  BY <1>4, <1>5 DEF FactsMerged
<1>9. GroupWritten(r, parts) \in [at : 0..MaxRuns, from : [Parts -> 0..MaxRuns]]
  BY <1>2, <1>4 DEF GroupWritten
<1>10. PlainWritten(r, parts) \in [at : 0..MaxRuns, from : [Parts -> 0..MaxRuns]]
  BY <1>4, <1>5 DEF PlainWritten
<1>11. QED
  BY <1>3, <1>6, <1>7, <1>8, <1>9, <1>10 DEF RowAfter, Disciplines

\* The row when run r has "fine" accepted parts from now on, of which the
\* normalizer writes "parts": all of them, and none only if there is nothing
\* new; for shops, those that are new.
LEMMA WritingKeepsTotals ==
  ASSUME RowsSafe, NEW r \in 1..MaxRuns, NEW fine \in SUBSET Parts, NEW parts \in SUBSET fine,
         good[r] \subseteq fine,
         good' = [good EXCEPT ![r] = fine], row' = RowAfter(r, parts), discipline' = discipline,
         parts = {} => fine = good[r],
         parts # {} /\ discipline # "shops" => parts = fine
  PROVE  (discipline = "visitors" /\ Accepted = {} => row.at = NoRun)' /\ TotalsAreOfOneRun'
<1>0. /\ good \in [1..MaxRuns -> SUBSET Parts] /\ row.from \in [Parts -> 0..MaxRuns]
      /\ row.at \in 0..MaxRuns
  BY DEF RowsSafe, ObservationTypeOK
<1>1. good'[r] = fine /\ \A q \in 1..MaxRuns \ {r} : good'[q] = good[q]
  BY <1>0
<1>2. CASE parts = {}
  <2>1. good' = good /\ row' = row
    BY <1>0, <1>2 DEF RowAfter
  <2>2. QED
    BY <2>1 DEF RowsSafe, TotalsAreOfOneRun, Accepted
<1>3. CASE parts # {} /\ discipline = "visitors"
  <2>1. Accepted' = Accepted \union {r} /\ r \in Accepted'
    BY <1>0, <1>1, <1>3 DEF Accepted
  <2>2. row' = TotalWritten(r, fine)
    BY <1>3 DEF RowAfter
  <2>3. CASE Earlier(r, row.at)
    <3>1. row' = row /\ row.at # NoRun
      BY <2>2, <2>3 DEF TotalWritten, Earlier
    <3>2. PICK q \in Accepted : /\ \A o \in Accepted : ~Earlier(q, o)
                                /\ row = [at |-> q, from |-> Parted(q, good[q], EmptyRow.from)]
      BY <1>3, <3>1 DEF RowsSafe, TotalsAreOfOneRun
    <3>3. row.at = q /\ q \in 1..MaxRuns
      BY <3>2 DEF Accepted
    <3>4. ~Earlier(q, r) /\ q # r
      BY <2>3, <3>3, EarlierIsOrder
    <3>5. q \in Accepted' /\ good'[q] = good[q] /\ \A o \in Accepted' : ~Earlier(q, o)
      BY <1>1, <2>1, <3>2, <3>3, <3>4
    <3>6. QED
      BY <1>3, <3>1, <3>2, <3>5 DEF TotalsAreOfOneRun
  <2>4. CASE ~Earlier(r, row.at)
    <3>1. row' = [at |-> r, from |-> Parted(r, good'[r], EmptyRow.from)]
      BY <1>1, <2>2, <2>4 DEF TotalWritten
    <3>2. \A o \in Accepted : ~Earlier(r, o)
      <4> SUFFICES ASSUME NEW o \in Accepted PROVE ~Earlier(r, o)
        OBVIOUS
      <4>1. PICK q \in Accepted : ~Earlier(q, o) /\ row.at = q
        BY <1>3 DEF RowsSafe, TotalsAreOfOneRun
      <4>2. QED
        BY <2>4, <4>1, EarlierIsOrder DEF Accepted
    <3>3. \A o \in Accepted' : ~Earlier(r, o)
      BY <2>1, <3>2, EarlierIsOrder
    <3>4. QED
      BY <1>3, <2>1, <3>1, <3>3 DEF TotalsAreOfOneRun
  <2>5. QED
    BY <2>3, <2>4
<1>4. CASE parts # {} /\ discipline = "merged"
  <2>1. row' = [at |-> r, from |-> Parted(r, fine, row.from)]
    BY <1>4 DEF RowAfter, FactsMerged
  <2>2. \A p \in Parts : row'.from[p] = IF p \in fine THEN r ELSE row.from[p]
    BY <2>1 DEF Parted
  <2>3. ASSUME NEW p \in Parts, NEW q \in 1..MaxRuns, p \in good'[q]
        PROVE  row'.from[p] # NoRun
    BY <1>1, <1>4, <2>2, <2>3 DEF RowsSafe, TotalsAreOfOneRun, NoRun
  <2>4. QED
    BY <1>4, <2>3 DEF TotalsAreOfOneRun
<1>5. CASE parts # {} /\ discipline = "shops"
  <2>1. Accepted' = Accepted \union {r}
    BY <1>0, <1>1, <1>5 DEF Accepted
  <2>2. row' = ShopWritten(r, parts)
    BY <1>5 DEF RowAfter
  <2>3. row'.at = IF row.at # NoRun /\ SourceTime[r] < SourceTime[row.at] THEN row.at ELSE r
    BY <2>2 DEF ShopWritten
  <2>4. \A q \in Accepted : row.at # NoRun /\ SourceTime[q] <= SourceTime[row.at]
    BY <1>5 DEF RowsSafe, TotalsAreOfOneRun
  <2>5. SourceTime \in [1..MaxRuns -> Nat] /\ Accepted \subseteq 1..MaxRuns
    BY ObservationAssumption DEF Accepted
  <2>6. \A q \in Accepted' : row'.at # NoRun /\ SourceTime[q] <= SourceTime[row'.at]
    <3>1. CASE row.at # NoRun /\ SourceTime[r] < SourceTime[row.at]
      <4>1. row'.at = row.at /\ SourceTime[r] \in Nat /\ SourceTime[row.at] \in Nat
        BY <1>0, <2>3, <2>5, <3>1 DEF NoRun
      <4>2. QED
        BY <2>1, <2>4, <3>1, <4>1
    <3>2. CASE row.at = NoRun
      BY <2>1, <2>3, <2>4, <2>5, <3>2 DEF NoRun
    <3>3. CASE row.at # NoRun /\ ~(SourceTime[r] < SourceTime[row.at])
      <4>1. row'.at = r /\ SourceTime[r] \in Nat /\ SourceTime[row.at] \in Nat /\ r # NoRun
        BY <1>0, <2>3, <2>5, <3>3 DEF NoRun
      <4>2. SourceTime[row.at] <= SourceTime[r]
        BY <3>3, <4>1
      <4>3. ASSUME NEW q \in Accepted PROVE SourceTime[q] <= SourceTime[r]
        BY <2>4, <2>5, <4>1, <4>2
      <4>4. QED
        BY <2>1, <4>1, <4>3
    <3>4. QED
      BY <3>1, <3>2, <3>3
  <2>7. QED
    BY <1>5, <2>6 DEF TotalsAreOfOneRun
<1>6. CASE discipline \notin {"visitors", "merged", "shops"}
  BY <1>6 DEF TotalsAreOfOneRun
<1>7. QED
  BY <1>2, <1>3, <1>4, <1>5, <1>6

LEMMA RunKeepsTotals == RowsSafe /\ Normalize => RowsSafe'
<1> SUFFICES ASSUME RowsSafe, Normalize PROVE RowsSafe'
  OBVIOUS
<1>0. PICK changed \in SUBSET Parts : \E fine \in SUBSET changed :
         /\ kept' = [kept EXCEPT ![runs + 1] = changed]
         /\ good' = [good EXCEPT ![runs + 1] = fine]
         /\ row' = RowAfter(runs + 1, fine)
  BY DEF Normalize
<1>1. PICK fine \in SUBSET changed :
         /\ kept' = [kept EXCEPT ![runs + 1] = changed]
         /\ good' = [good EXCEPT ![runs + 1] = fine]
         /\ row' = RowAfter(runs + 1, fine)
  BY <1>0
<1>2. runs < MaxRuns /\ runs' = runs + 1 /\ discipline' = discipline
  BY DEF Normalize
<1>3. runs + 1 \in 1..MaxRuns /\ runs \in 0..MaxRuns
  BY <1>2, ObservationAssumption DEF RowsSafe, ObservationTypeOK
<1>4. good[runs + 1] = {} /\ fine \in SUBSET Parts
  BY <1>3 DEF RowsSafe
<1>5. (discipline = "visitors" /\ Accepted = {} => row.at = NoRun)' /\ TotalsAreOfOneRun'
  BY <1>1, <1>2, <1>3, <1>4, WritingKeepsTotals
<1>6. ObservationTypeOK'
  BY <1>1, <1>2, <1>3, <1>4, RowAfterType DEF RowsSafe, ObservationTypeOK
<1>7. \A r \in 1..MaxRuns : r > runs' => good'[r] = {}
  BY <1>1, <1>2, <1>3 DEF RowsSafe, ObservationTypeOK
<1>8. QED
  BY <1>5, <1>6, <1>7 DEF RowsSafe

LEMMA ReplayKeepsTotals ==
  ASSUME RowsSafe, NEW r \in 1..runs, ReplayRun(r)
  PROVE  RowsSafe'
<1>0. runs \in 0..MaxRuns /\ r \in 1..MaxRuns /\ good \in [1..MaxRuns -> SUBSET Parts]
      /\ kept \in [1..MaxRuns -> SUBSET Parts]
  BY ObservationAssumption DEF RowsSafe, ObservationTypeOK
<1>p. PICK letters \in (SUBSET (kept[r] \ good[r])) \ {{}} : \E mended \in SUBSET letters :
         /\ good' = [good EXCEPT ![r] = good[r] \union mended]
         /\ row' = RowAfter(r, ReadAgain(r, letters, good'[r]))
         /\ UNCHANGED <<discipline, runs, kept>>
  BY <1>0 DEF ReplayRun
<1>1. PICK mended \in SUBSET letters :
         /\ good' = [good EXCEPT ![r] = good[r] \union mended]
         /\ row' = RowAfter(r, ReadAgain(r, letters, good'[r]))
         /\ UNCHANGED <<discipline, runs, kept>>
  BY <1>p
<1> DEFINE fine == good[r] \union mended
           parts == ReadAgain(r, letters, fine)
<1>2. good'[r] = fine /\ letters \intersect fine = mended /\ fine \in SUBSET Parts
  BY <1>0, <1>1
<1>3. /\ parts \in SUBSET fine
      /\ parts = {} => fine = good[r]
      /\ parts # {} /\ discipline # "shops" => parts = fine
  BY <1>2 DEF ReadAgain
<1>4. good' = [good EXCEPT ![r] = fine] /\ row' = RowAfter(r, parts) /\ discipline' = discipline
  BY <1>1, <1>2
<1> HIDE DEF fine, parts
<1>5. good[r] \subseteq fine
  BY DEF fine
<1>6. (discipline = "visitors" /\ Accepted = {} => row.at = NoRun)' /\ TotalsAreOfOneRun'
  BY <1>0, <1>2, <1>3, <1>4, <1>5, WritingKeepsTotals
<1>7. ObservationTypeOK'
  <2>1. good' \in [1..MaxRuns -> SUBSET Parts]
    BY <1>0, <1>2, <1>4
  <2>2. row' \in [at : 0..MaxRuns, from : [Parts -> 0..MaxRuns]]
    <3>1. parts \in SUBSET Parts
      BY <1>2, <1>3
    <3>2. QED
      BY <1>0, <1>4, <3>1, RowAfterType DEF RowsSafe
  <2>3. QED
    BY <1>1, <2>1, <2>2 DEF RowsSafe, ObservationTypeOK
<1>8. \A q \in 1..MaxRuns : q > runs' => good'[q] = {}
  BY <1>0, <1>1, <1>4 DEF RowsSafe
<1>9. QED
  BY <1>6, <1>7, <1>8 DEF RowsSafe

LEMMA RowsKept == RowsSafe /\ [ObservationNext]_observationVars => RowsSafe'
<1> SUFFICES ASSUME RowsSafe, [ObservationNext]_observationVars PROVE RowsSafe'
  OBVIOUS
<1>1. CASE UNCHANGED observationVars
  BY <1>1 DEF RowsSafe, ObservationTypeOK, TotalsAreOfOneRun, Accepted, observationVars
<1>2. QED
  BY <1>1, RunKeepsTotals, ReplayKeepsTotals DEF ObservationNext

\* Every variable of the observations keeps its type.
THEOREM ObservationTypes == ObservationSpec => []ObservationTypeOK
<1>1. RowsSafe => ObservationTypeOK
  BY DEF RowsSafe
<1>2. QED
  BY <1>1, RowsInitially, RowsKept, PTL DEF ObservationSpec

\* For any runs, times and replays: a visitor total adds up all that the newest
\* run with a part of it has, and nothing of another run (not the parts that run
\* did not store or had refused); no airport fact is lost, no shop goes back.
THEOREM TotalsStayOfOneRun == ObservationSpec => []TotalsAreOfOneRun
<1>1. RowsSafe => TotalsAreOfOneRun
  BY DEF RowsSafe
<1>2. QED
  BY <1>1, RowsInitially, RowsKept, PTL DEF ObservationSpec

-----------------------------------------------------------------------------
(*****************************************************************************)
(* AlertRevisions: the revisions of an alert document and their enrichment,  *)
(* for every set of contents, every finite set of overlapping batches and    *)
(* every number of attempts.                                                 *)
(*****************************************************************************)

LEMMA Bounds == MaxTries \in Nat \ {0} /\ MaxNumber \in Nat /\ IsFiniteSet(Enrichers)
  BY AlertAssumption DEF AlertAssumption

USE Bounds

RevisionRow == [number : 0..MaxNumber, tries : 0..MaxTries, due : BOOLEAN,
                done : BOOLEAN, settled : BOOLEAN]
EnricherRecord == [at : {"idle", "reserve", "call", "store"}, text : Contents \union {"none"},
                   tries : 0..MaxTries, held : BOOLEAN]

\* The batches whose call for the row of c is still to come.
Calling(c) ==
  {w \in Enrichers : enricher[w].at = "call" /\ enricher[w].held /\ enricher[w].text = c}

\* A batch holds a row that exists; when it listed it, an attempt was left.
RowsHeld ==
  \A w \in Enrichers :
    /\ enricher[w].held => enricher[w].text \in Contents /\ Exists(enricher[w].text)
    /\ enricher[w].at = "reserve" => enricher[w].tries < MaxTries

\* Every call that was made, or is to come, has been counted as an attempt.
CallsCounted ==
  \A c \in Contents : calls[c] + Cardinality(Calling(c)) <= revision[c].tries

AlertSafe == AlertTypeOK /\ RowsHeld /\ CallsCounted /\ CurrentHasText

-----------------------------------------------------------------------------
LEMMA CallingFinite ==
  /\ \A c : IsFiniteSet(Calling(c)) /\ Cardinality(Calling(c)) \in Nat
  /\ \A c : IsFiniteSet(Calling(c)') /\ Cardinality(Calling(c)') \in Nat
  BY FS_Subset, FS_CardinalityType DEF Calling

LEMMA Types ==
  ASSUME AlertTypeOK
  PROVE  /\ \A c \in Contents : revision[c] \in RevisionRow /\ calls[c] \in Nat
         /\ \A w \in Enrichers : enricher[w] \in EnricherRecord
  BY DEF AlertTypeOK, RevisionRow, EnricherRecord

\* Fewer calls to come, and none more made, keep the count.
LEMMA FewerCalls ==
  ASSUME AlertTypeOK, CallsCounted, UNCHANGED calls,
         \A c \in Contents : revision'[c].tries = revision[c].tries,
         \A c \in Contents : Calling(c)' \subseteq Calling(c)
  PROVE  CallsCounted'
<1>1. ASSUME NEW c \in Contents
      PROVE  Cardinality(Calling(c)') <= Cardinality(Calling(c))
  BY <1>1, CallingFinite, FS_Subset
<1>2. \A c \in Contents : revision[c].tries \in Nat /\ calls[c] \in Nat
  BY Types DEF RevisionRow
<1>3. QED
  BY <1>1, <1>2, CallingFinite DEF CallsCounted

\* The rows of the revisions stay, and a batch takes a step that calls nothing.
LEMMA BatchStep ==
  ASSUME AlertSafe, UNCHANGED <<document, revision, calls>>,
         NEW w \in Enrichers, NEW e \in EnricherRecord, enricher' = [enricher EXCEPT ![w] = e],
         e.held => e.text \in Contents /\ Exists(e.text),
         e.at = "reserve" => e.tries < MaxTries, e.at # "call"
  PROVE  AlertSafe'
<1> USE DEF AlertSafe
<1>1. enricher \in [Enrichers -> EnricherRecord]
  BY DEF AlertTypeOK, EnricherRecord
<1>2. enricher' \in [Enrichers -> EnricherRecord]
  BY <1>1
<1>3. AlertTypeOK'
  BY <1>2 DEF AlertTypeOK, EnricherRecord
<1>4. \A x \in Enrichers : enricher'[x] = IF x = w THEN e ELSE enricher[x]
  BY <1>1
<1>5. RowsHeld'
  BY <1>4 DEF RowsHeld, Exists
<1>6. \A c \in Contents : Calling(c)' \subseteq Calling(c)
  BY <1>4 DEF Calling
<1>7. CallsCounted'
  BY <1>6, FewerCalls
<1>8. CurrentHasText'
  BY DEF CurrentHasText, Current, Exists
<1>9. QED
  BY <1>3, <1>5, <1>7, <1>8

LEMMA IdleType == IdleEnricher \in EnricherRecord /\ ~IdleEnricher.held /\ IdleEnricher.at = "idle"
  BY DEF IdleEnricher, EnricherRecord

LEMMA NewRow ==
  /\ NoRevision \in RevisionRow /\ NoRevision.tries = 0 /\ NoRevision.number = 0
  /\ \A n \in 0..MaxNumber :
       /\ [NoRevision EXCEPT !.number = n, !.due = TRUE] \in RevisionRow
       /\ [NoRevision EXCEPT !.number = n, !.due = TRUE].number = n
       /\ [NoRevision EXCEPT !.number = n, !.due = TRUE].tries = 0
<1>1. NoRevision \in RevisionRow /\ NoRevision.tries = 0 /\ NoRevision.number = 0
  <2>1. 0 \in 0..MaxNumber /\ 0 \in 0..MaxTries
    OBVIOUS
  <2>2. QED
    BY <2>1 DEF NoRevision, RevisionRow
<1>2. ASSUME NEW n \in 0..MaxNumber
      PROVE  /\ [NoRevision EXCEPT !.number = n, !.due = TRUE] \in RevisionRow
             /\ [NoRevision EXCEPT !.number = n, !.due = TRUE].number = n
             /\ [NoRevision EXCEPT !.number = n, !.due = TRUE].tries = 0
  BY <1>1 DEF RevisionRow
<1>3. QED
  BY <1>1, <1>2

LEMMA AlertInitially == AlertInit => AlertSafe
<1> SUFFICES ASSUME AlertInit PROVE AlertSafe
  OBVIOUS
<1> USE DEF AlertInit
<1>1. AlertTypeOK
  BY NewRow, IdleType DEF AlertTypeOK, RevisionRow, EnricherRecord
<1>2. RowsHeld /\ CurrentHasText
  BY IdleType DEF RowsHeld, CurrentHasText
<1>3. CallsCounted
  <2>1. \A c : Calling(c) = {}
    BY IdleType DEF Calling
  <2>2. ASSUME NEW c \in Contents
        PROVE  calls[c] + Cardinality(Calling(c)) <= revision[c].tries
    <3>1. Cardinality(Calling(c)) = 0
      BY <2>1, FS_EmptySet
    <3>2. calls[c] = 0 /\ revision[c].tries = 0
      BY NewRow
    <3>3. QED
      BY <3>1, <3>2
  <2>3. QED
    BY <2>2 DEF CallsCounted
<1>4. QED
  BY <1>1, <1>2, <1>3 DEF AlertSafe

-----------------------------------------------------------------------------
(* The normalizer. *)

\* Nobody holds a row that does not exist, so the row of new text owes no call.
LEMMA NormalizeSafe ==
  ASSUME AlertSafe, NEW c \in Contents, NormalizeAlert(c)
  PROVE  AlertSafe'
<1> USE DEF AlertSafe
<1> DEFINE number == IF Exists(c) THEN revision[c].number ELSE document.cur + 1
<1>1. /\ number <= MaxNumber /\ document' = [cur |-> number, listed |-> TRUE]
      /\ enricher' = enricher
      /\ IF Exists(c) THEN UNCHANGED <<revision, calls>>
         ELSE /\ revision' = [revision EXCEPT ![c] =
                   [NoRevision EXCEPT !.number = number, !.due = TRUE]]
              /\ calls' = [calls EXCEPT ![c] = 0]
  BY DEF NormalizeAlert
<1>2. /\ document.cur \in 0..MaxNumber /\ revision \in [Contents -> RevisionRow]
      /\ calls \in [Contents -> Nat]
  BY DEF AlertTypeOK, RevisionRow
<1>3. number \in 0..MaxNumber /\ number # 0
  BY <1>1, <1>2 DEF Exists, RevisionRow
<1> HIDE DEF number
<1>4. CASE Exists(c)
  <2>1. UNCHANGED <<revision, calls, enricher>>
    BY <1>1, <1>4
  <2>2. AlertTypeOK'
    BY <1>1, <1>3, <2>1 DEF AlertTypeOK
  <2>3. RowsHeld' /\ CallsCounted'
    BY <2>1 DEF RowsHeld, CallsCounted, Calling, Exists
  <2>4. revision'[c].number = document'.cur /\ revision'[c].number # 0
    BY <1>1, <1>3, <1>4, <2>1 DEF number
  <2>5. CurrentHasText'
    BY <2>4 DEF CurrentHasText, Current, Exists
  <2>6. QED
    BY <2>2, <2>3, <2>5
<1>5. CASE ~Exists(c)
  <2> DEFINE new == [NoRevision EXCEPT !.number = number, !.due = TRUE]
  <2>1. new \in RevisionRow /\ new.number = number /\ new.tries = 0
    BY <1>3, NewRow
  <2> HIDE DEF new
  <2>2. revision' = [revision EXCEPT ![c] = new] /\ calls' = [calls EXCEPT ![c] = 0]
    BY <1>1, <1>5 DEF new
  <2>3. revision' \in [Contents -> RevisionRow] /\ calls' \in [Contents -> Nat]
    BY <1>2, <2>1, <2>2
  <2>4. AlertTypeOK'
    BY <1>1, <1>3, <2>3 DEF AlertTypeOK, RevisionRow
  <2>5. \A d \in Contents : /\ revision'[d] = IF d = c THEN new ELSE revision[d]
                            /\ calls'[d] = IF d = c THEN 0 ELSE calls[d]
    BY <1>2, <2>2
  <2>6. RowsHeld'
    BY <1>1, <1>3, <2>1, <2>5 DEF RowsHeld, Exists
  <2>7. CallsCounted'
    <3>1. \A d : Calling(d)' = Calling(d)
      BY <1>1 DEF Calling
    <3>2. Calling(c) = {}
      BY <1>5 DEF Calling, RowsHeld
    <3>3. Cardinality(Calling(c)') = 0
      BY <3>1, <3>2, FS_EmptySet
    <3>4. QED
      BY <2>1, <2>5, <3>1, <3>3 DEF CallsCounted
  <2>8. CurrentHasText'
    BY <1>1, <1>3, <2>1, <2>5 DEF CurrentHasText, Current, Exists
  <2>9. QED
    BY <2>4, <2>6, <2>7, <2>8
<1>6. QED
  BY <1>4, <1>5

-----------------------------------------------------------------------------
(* The enrichment. *)

LEMMA ListSafe ==
  ASSUME AlertSafe, NEW w \in Enrichers, NEW c \in Contents, ListRevision(w, c)
  PROVE  AlertSafe'
<1> DEFINE e == [at |-> "reserve", text |-> c, tries |-> revision[c].tries, held |-> TRUE]
<1>1. revision[c].tries < MaxTries /\ Exists(c) /\ revision[c] \in RevisionRow
  BY Types DEF ListRevision, Current, AlertSafe
<1>2. e \in EnricherRecord
  BY <1>1 DEF EnricherRecord, RevisionRow
<1>3. QED
  BY <1>1, <1>2, BatchStep DEF ListRevision

\* The attempt is counted while the row is as it was listed: an attempt was left.
LEMMA ReserveSafe ==
  ASSUME AlertSafe, NEW w \in Enrichers, Reserve(w)
  PROVE  AlertSafe'
<1> USE DEF AlertSafe
<1> DEFINE e == enricher[w]
<1>1. /\ e \in EnricherRecord /\ e.at = "reserve"
      /\ UNCHANGED <<document, calls>>
  BY Types DEF Reserve
<1>2. CASE ~Unchanged(e)
  <2>1. revision' = revision /\ enricher' = [enricher EXCEPT ![w] = IdleEnricher]
    BY <1>2 DEF Reserve
  <2>2. QED
    BY <1>1, <2>1, IdleType, BatchStep
<1>3. CASE Unchanged(e)
  <2> PICK c \in Contents : c = e.text
    BY <1>3 DEF Unchanged, RowsHeld
  <2>1. /\ revision' = [revision EXCEPT ![c].tries = @ + 1, ![c].due = FALSE]
        /\ enricher' = [enricher EXCEPT ![w] = [e EXCEPT !.at = "call"]]
    BY <1>3 DEF Reserve
  <2>2. /\ e.held /\ c \in Contents /\ revision[c].tries = e.tries /\ e.tries < MaxTries
        /\ revision[c] \in RevisionRow
    BY <1>1, <1>3, Types DEF Unchanged, RowsHeld
  <2>3. /\ revision \in [Contents -> RevisionRow] /\ enricher \in [Enrichers -> EnricherRecord]
    BY DEF AlertTypeOK, RevisionRow, EnricherRecord
  <2> DEFINE counted == [revision[c] EXCEPT !.tries = revision[c].tries + 1, !.due = FALSE]
             f == [e EXCEPT !.at = "call"]
  <2>4. revision' = [revision EXCEPT ![c] = counted]
    BY <2>1, <2>2, <2>3
  <2>5. counted \in RevisionRow /\ counted.tries = revision[c].tries + 1
        /\ counted.number = revision[c].number
    <3>1. revision[c].tries + 1 \in 0..MaxTries
      BY <1>1, <2>2 DEF EnricherRecord
    <3>2. QED
      BY <2>2, <3>1 DEF RevisionRow
  <2>6. f \in EnricherRecord /\ f.at = "call" /\ f.held /\ f.text = c
    BY <1>1, <2>2 DEF EnricherRecord
  <2> HIDE DEF counted, f
  <2>7. revision' \in [Contents -> RevisionRow] /\ enricher' \in [Enrichers -> EnricherRecord]
    BY <2>1, <2>3, <2>4, <2>5, <2>6 DEF f
  <2>8. AlertTypeOK'
    BY <1>1, <2>7 DEF AlertTypeOK, RevisionRow, EnricherRecord
  <2>9. /\ \A d \in Contents : revision'[d] = IF d = c THEN counted ELSE revision[d]
        /\ \A x \in Enrichers : enricher'[x] = IF x = w THEN f ELSE enricher[x]
    BY <2>1, <2>3, <2>4 DEF f
  <2>10. \A d \in Contents : revision'[d].number = revision[d].number
    BY <2>5, <2>9
  <2>11. RowsHeld'
    <3>1. \A d \in Contents : Exists(d) <=> Exists(d)'
      BY <2>10 DEF Exists
    <3>2. QED
      BY <2>2, <2>6, <2>9, <3>1 DEF RowsHeld
  <2>12. CallsCounted'
    <3>1. Calling(c)' = Calling(c) \union {w} /\ w \notin Calling(c)
      BY <1>1, <2>6, <2>9 DEF Calling
    <3>2. Cardinality(Calling(c)') = Cardinality(Calling(c)) + 1
      BY <3>1, CallingFinite, FS_AddElement
    <3>3. \A d \in Contents \ {c} : Calling(d)' = Calling(d)
      BY <1>1, <2>6, <2>9 DEF Calling
    <3>4. ASSUME NEW d \in Contents
          PROVE  calls'[d] + Cardinality(Calling(d)') <= revision'[d].tries
      <4>1. /\ calls[d] + Cardinality(Calling(d)) <= revision[d].tries /\ calls'[d] = calls[d]
            /\ calls[d] \in Nat /\ revision[d].tries \in Nat /\ Cardinality(Calling(d)) \in Nat
        BY <1>1, CallingFinite, Types DEF CallsCounted, RevisionRow
      <4>2. CASE d = c
        <5>1. revision'[d].tries = revision[d].tries + 1
          BY <2>5, <2>9, <4>2
        <5>2. Cardinality(Calling(d)') = Cardinality(Calling(d)) + 1
          BY <3>2, <4>2
        <5>3. QED
          BY <4>1, <5>1, <5>2
      <4>3. CASE d # c
        BY <2>9, <3>3, <4>1, <4>3
      <4>4. QED
        BY <4>2, <4>3
    <3>5. QED
      BY <3>4 DEF CallsCounted
  <2>13. CurrentHasText'
    BY <1>1, <2>10 DEF CurrentHasText, Current, Exists
  <2>14. QED
    BY <2>8, <2>11, <2>12, <2>13
<1>4. QED
  BY <1>2, <1>3

\* A call that was to come has been made.
LEMMA CallSafe ==
  ASSUME AlertSafe, NEW w \in Enrichers, CallModel(w)
  PROVE  AlertSafe'
<1> USE DEF AlertSafe
<1> DEFINE e == enricher[w]
<1>1. PICK f \in {[e EXCEPT !.at = "store", !.tries = 0], IdleEnricher} :
        enricher' = [enricher EXCEPT ![w] = f]
  BY DEF CallModel
<1>2. /\ e \in EnricherRecord /\ e.at = "call" /\ UNCHANGED <<document, revision>>
      /\ calls' = IF e.held THEN [calls EXCEPT ![e.text] = @ + 1] ELSE calls
      /\ enricher \in [Enrichers -> EnricherRecord] /\ calls \in [Contents -> Nat]
  BY Types DEF CallModel, AlertTypeOK, EnricherRecord
<1>3. /\ f \in EnricherRecord /\ f.at \notin {"call", "reserve"}
      /\ f.held => e.held /\ f.text = e.text
  <2>1. CASE f = [e EXCEPT !.at = "store", !.tries = 0]
    <3>1. 0 \in 0..MaxTries
      OBVIOUS
    <3>2. f \in EnricherRecord
      BY <1>2, <2>1, <3>1 DEF EnricherRecord
    <3>3. f.at = "store" /\ f.held = e.held /\ f.text = e.text
      BY <1>2, <2>1 DEF EnricherRecord
    <3>4. QED
      BY <3>2, <3>3
  <2>2. CASE f = IdleEnricher
    BY <2>2, IdleType
  <2>3. QED
    BY <1>1, <2>1, <2>2
<1>4. CASE ~e.held
  BY <1>1, <1>2, <1>3, <1>4, BatchStep
<1>5. CASE e.held
  <2>1. PICK c \in Contents :
          c = e.text /\ Exists(c) /\ calls' = [calls EXCEPT ![c] = calls[c] + 1]
    BY <1>2, <1>5 DEF RowsHeld
  <2>2. enricher' \in [Enrichers -> EnricherRecord] /\ calls' \in [Contents -> Nat]
    BY <1>1, <1>2, <1>3, <2>1
  <2>3. AlertTypeOK'
    BY <1>2, <2>2 DEF AlertTypeOK, EnricherRecord
  <2>4. /\ \A x \in Enrichers : enricher'[x] = IF x = w THEN f ELSE enricher[x]
        /\ \A d \in Contents : calls'[d] = IF d = c THEN calls[c] + 1 ELSE calls[d]
    BY <1>1, <1>2, <2>1
  <2>5. RowsHeld'
    BY <1>2, <1>3, <2>1, <2>4 DEF RowsHeld, Exists
  <2>6. CallsCounted'
    <3>1. Calling(c)' = Calling(c) \ {w} /\ w \in Calling(c)
      BY <1>2, <1>3, <1>5, <2>1, <2>4 DEF Calling
    <3>2. Cardinality(Calling(c)') = Cardinality(Calling(c)) - 1
      BY <3>1, CallingFinite, FS_RemoveElement
    <3>3. \A d \in Contents \ {c} : Calling(d)' = Calling(d)
      BY <1>2, <1>3, <2>1, <2>4 DEF Calling
    <3>4. ASSUME NEW d \in Contents
          PROVE  calls'[d] + Cardinality(Calling(d)') <= revision'[d].tries
      <4>1. /\ calls[d] + Cardinality(Calling(d)) <= revision[d].tries
            /\ revision'[d] = revision[d]
            /\ calls[d] \in Nat /\ revision[d].tries \in Nat /\ Cardinality(Calling(d)) \in Nat
        BY <1>2, CallingFinite, Types DEF CallsCounted, RevisionRow
      <4>2. CASE d = c
        <5>1. calls'[d] = calls[d] + 1
          BY <2>4, <4>2
        <5>2. Cardinality(Calling(d)') = Cardinality(Calling(d)) - 1
          BY <3>2, <4>2
        <5>3. QED
          BY <4>1, <5>1, <5>2
      <4>3. CASE d # c
        BY <2>4, <3>3, <4>1, <4>3
      <4>4. QED
        BY <4>2, <4>3
    <3>5. QED
      BY <3>4 DEF CallsCounted
  <2>7. CurrentHasText'
    BY <1>2 DEF CurrentHasText, Current, Exists
  <2>8. QED
    BY <2>3, <2>5, <2>6, <2>7
<1>6. QED
  BY <1>4, <1>5

LEMMA StoreSafe ==
  ASSUME AlertSafe, NEW w \in Enrichers, StoreTranslation(w)
  PROVE  AlertSafe'
<1> USE DEF AlertSafe
<1> DEFINE c == enricher[w].text
<1>1. /\ UNCHANGED <<document, calls>> /\ enricher' = [enricher EXCEPT ![w] = IdleEnricher]
      /\ \/ revision' = revision
         \/ /\ enricher[w].held
            /\ revision' = [revision EXCEPT ![c].done = TRUE, ![c].due = FALSE]
  BY DEF StoreTranslation
<1>2. CASE revision' = revision
  BY <1>1, <1>2, IdleType, BatchStep
<1>3. CASE enricher[w].held /\ revision' = [revision EXCEPT ![c].done = TRUE, ![c].due = FALSE]
  <2>1. /\ c \in Contents /\ enricher \in [Enrichers -> EnricherRecord]
        /\ revision \in [Contents -> RevisionRow]
    BY <1>3 DEF RowsHeld, AlertTypeOK, RevisionRow, EnricherRecord
  <2>2. revision' = [revision EXCEPT ![c] = [revision[c] EXCEPT !.done = TRUE, !.due = FALSE]]
    BY <1>3, <2>1
  <2>3. [revision[c] EXCEPT !.done = TRUE, !.due = FALSE] \in RevisionRow
    BY <2>1 DEF RevisionRow
  <2>4. /\ revision' \in [Contents -> RevisionRow]
        /\ \A d \in Contents : /\ revision'[d].tries = revision[d].tries
                               /\ revision'[d].number = revision[d].number
    BY <2>1, <2>2, <2>3 DEF RevisionRow
  <2>5. /\ enricher' \in [Enrichers -> EnricherRecord]
        /\ \A x \in Enrichers : enricher'[x] = IF x = w THEN IdleEnricher ELSE enricher[x]
    BY <1>1, <2>1, IdleType
  <2>6. AlertTypeOK'
    BY <1>1, <2>4, <2>5 DEF AlertTypeOK, RevisionRow, EnricherRecord
  <2>7. RowsHeld'
    <3>1. \A d \in Contents : Exists(d) <=> Exists(d)'
      BY <2>4 DEF Exists
    <3>2. QED
      BY <2>5, <3>1, IdleType DEF RowsHeld
  <2>8. \A d \in Contents : Calling(d)' \subseteq Calling(d)
    BY <2>5, IdleType DEF Calling
  <2>9. CallsCounted'
    BY <1>1, <2>4, <2>8, FewerCalls
  <2>10. CurrentHasText'
    BY <1>1, <2>4 DEF CurrentHasText, Current, Exists
  <2>11. QED
    BY <2>6, <2>7, <2>9, <2>10
<1>4. QED
  BY <1>1, <1>2, <1>3

LEMMA DiesSafe ==
  ASSUME AlertSafe, NEW w \in Enrichers, EnricherDies(w)
  PROVE  AlertSafe'
  BY IdleType, BatchStep DEF EnricherDies

LEMMA TimeSafe ==
  ASSUME AlertSafe, NEW c \in Contents, AlertTime(c)
  PROVE  AlertSafe'
<1> USE DEF AlertSafe
<1>1. UNCHANGED <<document, enricher, calls>>
      /\ \/ revision' = [revision EXCEPT ![c].due = TRUE]
         \/ revision' = [revision EXCEPT ![c].settled = TRUE]
  BY DEF AlertTime
<1>2. revision \in [Contents -> RevisionRow]
  BY DEF AlertTypeOK, RevisionRow
<1>3. /\ revision' \in [Contents -> RevisionRow]
      /\ \A d \in Contents : /\ revision'[d].tries = revision[d].tries
                             /\ revision'[d].number = revision[d].number
  <2>1. CASE revision' = [revision EXCEPT ![c].due = TRUE]
    BY <1>2, <2>1 DEF RevisionRow
  <2>2. CASE revision' = [revision EXCEPT ![c].settled = TRUE]
    BY <1>2, <2>2 DEF RevisionRow
  <2>3. QED
    BY <1>1, <2>1, <2>2
<1>4. AlertTypeOK'
  BY <1>1, <1>3 DEF AlertTypeOK, RevisionRow
<1>5. \A d \in Contents : Exists(d) <=> Exists(d)'
  BY <1>3 DEF Exists
<1>6. RowsHeld'
  BY <1>1, <1>5 DEF RowsHeld
<1>7. \A d \in Contents : Calling(d)' \subseteq Calling(d)
  BY <1>1 DEF Calling
<1>8. CallsCounted'
  BY <1>1, <1>3, <1>7, FewerCalls
<1>9. CurrentHasText'
  BY <1>1, <1>3 DEF CurrentHasText, Current, Exists
<1>10. QED
  BY <1>4, <1>6, <1>8, <1>9

-----------------------------------------------------------------------------
(* Retention. *)

\* A row takes its calls with it, and no batch holds it any longer; the current
\* row of a document that stays listed stays.
LEMMA RetainSafe ==
  ASSUME AlertSafe, NEW expired \in BOOLEAN, RetainAlert(expired)
  PROVE  AlertSafe'
<1> USE DEF AlertSafe
<1>1. PICK gone \in SUBSET Contents :
        /\ \A c \in gone : Expendable(c, expired)
        /\ revision' = [c \in Contents |-> IF c \in gone THEN NoRevision ELSE revision[c]]
        /\ calls' = [c \in Contents |-> IF c \in gone THEN 0 ELSE calls[c]]
        /\ enricher' = [w \in Enrichers |->
             IF enricher[w].text \in gone THEN [enricher[w] EXCEPT !.held = FALSE] ELSE enricher[w]]
        /\ \/ document' = [cur |-> 0, listed |-> FALSE]
           \/ document' = [document EXCEPT !.listed = @ /\ ~expired]
  BY DEF RetainAlert
<1>2. /\ revision' \in [Contents -> RevisionRow] /\ calls' \in [Contents -> Nat]
      /\ \A c \in Contents : c \notin gone => revision'[c] = revision[c] /\ calls'[c] = calls[c]
      /\ \A c \in gone : revision'[c] = NoRevision /\ calls'[c] = 0
  <2>1. revision' \in [Contents -> RevisionRow]
    BY <1>1, NewRow, Types
  <2>2. calls' \in [Contents -> Nat]
    BY <1>1, Types
  <2>3. QED
    BY <1>1, <2>1, <2>2
<1>3. /\ enricher' \in [Enrichers -> EnricherRecord]
      /\ \A w \in Enrichers :
           /\ enricher'[w].at = enricher[w].at /\ enricher'[w].text = enricher[w].text
           /\ enricher'[w].tries = enricher[w].tries
           /\ enricher'[w].held => enricher[w].held /\ enricher[w].text \notin gone
  <2>1. ASSUME NEW w \in Enrichers
        PROVE  /\ enricher'[w] \in EnricherRecord
               /\ enricher'[w].at = enricher[w].at /\ enricher'[w].text = enricher[w].text
               /\ enricher'[w].tries = enricher[w].tries
               /\ enricher'[w].held => enricher[w].held /\ enricher[w].text \notin gone
    <3>1. enricher[w] \in EnricherRecord
      BY Types
    <3>2. CASE enricher[w].text \in gone
      <4>1. enricher'[w] = [enricher[w] EXCEPT !.held = FALSE]
        BY <1>1, <3>2
      <4>2. QED
        BY <3>1, <4>1 DEF EnricherRecord
    <3>3. CASE enricher[w].text \notin gone
      BY <1>1, <3>1, <3>3
    <3>4. QED
      BY <3>2, <3>3
  <2>2. QED
    BY <1>1, <2>1
<1>4. document' \in [cur : 0..MaxNumber, listed : BOOLEAN]
      /\ (document'.listed => document' = document /\ ~expired /\ document.listed)
  <2>1. CASE document' = [cur |-> 0, listed |-> FALSE]
    BY <2>1
  <2>2. CASE document' = [document EXCEPT !.listed = document.listed /\ ~expired]
    BY <2>2 DEF AlertTypeOK
  <2>3. QED
    BY <1>1, <2>1, <2>2
<1>5. AlertTypeOK'
  BY <1>2, <1>3, <1>4 DEF AlertTypeOK, RevisionRow, EnricherRecord
<1>6. RowsHeld'
  BY <1>2, <1>3 DEF RowsHeld, Exists
<1>7. CallsCounted'
  <2>1. ASSUME NEW c \in Contents
        PROVE  calls'[c] + Cardinality(Calling(c)') <= revision'[c].tries
    <3>1. CASE c \in gone
      <4>1. Calling(c)' = {}
        BY <1>3, <3>1 DEF Calling
      <4>2. Cardinality(Calling(c)') = 0
        BY <4>1, FS_EmptySet
      <4>3. calls'[c] = 0 /\ revision'[c].tries = 0
        BY <1>2, <3>1, NewRow
      <4>4. QED
        BY <4>2, <4>3
    <3>2. CASE c \notin gone
      <4>1. Calling(c)' \subseteq Calling(c)
        BY <1>3 DEF Calling
      <4>2. Cardinality(Calling(c)') <= Cardinality(Calling(c))
        BY <4>1, CallingFinite, FS_Subset
      <4>3. /\ calls[c] + Cardinality(Calling(c)) <= revision[c].tries
            /\ calls[c] \in Nat /\ revision[c].tries \in Nat
        BY Types DEF CallsCounted, RevisionRow
      <4>4. QED
        BY <1>2, <3>2, <4>2, <4>3, CallingFinite
    <3>3. QED
      BY <3>1, <3>2
  <2>2. QED
    BY <2>1 DEF CallsCounted
<1>8. CurrentHasText'
  <2> SUFFICES ASSUME document'.listed PROVE Current' # {}
    BY DEF CurrentHasText
  <2>1. PICK c \in Contents : Exists(c) /\ revision[c].number = document.cur
    BY <1>4 DEF CurrentHasText, Current
  <2>2. c \notin gone
    BY <1>1, <1>4, <2>1 DEF Expendable
  <2>3. c \in Current'
    BY <1>2, <1>4, <2>1, <2>2 DEF Current, Exists
  <2>4. QED
    BY <2>3
<1>9. QED
  BY <1>5, <1>6, <1>7, <1>8

-----------------------------------------------------------------------------
LEMMA AlertPreserved == AlertSafe /\ [AlertNext]_alertVars => AlertSafe'
<1> SUFFICES ASSUME AlertSafe, [AlertNext]_alertVars PROVE AlertSafe'
  OBVIOUS
<1>1. CASE \E c \in Contents : NormalizeAlert(c) \/ AlertTime(c)
  BY <1>1, NormalizeSafe, TimeSafe
<1>2. CASE \E w \in Enrichers :
             \/ \E c \in Contents : ListRevision(w, c)
             \/ Reserve(w) \/ CallModel(w) \/ StoreTranslation(w) \/ EnricherDies(w)
  BY <1>2, ListSafe, ReserveSafe, CallSafe, StoreSafe, DiesSafe
<1>3. CASE \E expired \in BOOLEAN : RetainAlert(expired)
  BY <1>3, RetainSafe
<1>4. CASE UNCHANGED alertVars
  BY <1>4 DEF alertVars, AlertSafe, AlertTypeOK, RowsHeld, Exists, CallsCounted, Calling,
    CurrentHasText, Current
<1>5. QED
  BY <1>1, <1>2, <1>3, <1>4 DEF AlertNext

LEMMA AlertInvariance == AlertSpec => []AlertSafe
  BY AlertInitially, AlertPreserved, PTL DEF AlertSpec

\* The variables keep their types for every set of contents and of batches.
THEOREM AlertTypes == AlertSpec => []AlertTypeOK
<1>1. AlertSafe => AlertTypeOK
  BY DEF AlertSafe
<1>2. QED
  BY <1>1, AlertInvariance, PTL

\* The paid model is called at most MaxTries times for a revision, whichever
\* batches overlap, however many there are, and wherever they die.
THEOREM CallsStayBounded == AlertSpec => []CallsBounded
<1>1. AlertSafe => CallsBounded
  <2> SUFFICES ASSUME AlertSafe, NEW c \in Contents
               PROVE  calls[c] + Cardinality(Calling(c)) <= MaxTries
    BY DEF CallsBounded, Calling
  <2>1. /\ calls[c] + Cardinality(Calling(c)) <= revision[c].tries
        /\ revision[c].tries \in 0..MaxTries /\ calls[c] \in Nat
    BY Types DEF AlertSafe, CallsCounted, RevisionRow
  <2>2. QED
    BY <2>1, CallingFinite
<1>2. QED
  BY <1>1, AlertInvariance, PTL

\* A listed document never loses the text its readers join to.
THEOREM CurrentKeepsText == AlertSpec => []CurrentHasText
<1>1. AlertSafe => CurrentHasText
  BY DEF AlertSafe
<1>2. QED
  BY <1>1, AlertInvariance, PTL

=============================================================================
