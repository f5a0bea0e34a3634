--------------------------- MODULE FestivalSchedule ---------------------------
(***************************************************************************)
(* The forecast inputs that normalization/forecast.py writes.  The row of  *)
(* an area and a day lists the festivals of that day; events of different  *)
(* pages share it, and it carries the time of the newest page only.  The      *)
(* rows of weather, holidays and visitor forecasts hold one value each.    *)
(*                                                                         *)
(* A time stands for the pair of source_updated_at and ingested_at that    *)
(* the code compares.  The rows of a record are normalized one at a time,  *)
(* each under its own savepoint; a record may be normalized again, at any  *)
(* time, when its dead letter is replayed.  Only days of a window from     *)
(* today on are written, so the same record may write other days later.    *)
(***************************************************************************)
EXTENDS Integers, FiniteSets, FiniteSetsExt

CONSTANTS
  Events,       \* festivals, told apart by area and name: one that moves to
                \* another area is another event
  Areas,
  ParentOf,     \* the province of a city or district, Nowhere for a province
  Within,       \* pairs of areas: the code of the first extends the second's
  Nowhere,
  AddressOf,    \* the areas named in [road, lot, venue] of an event's address
  Days,         \* the forecast dates are 1..Days
  WindowDays,   \* days from today on that a festival is written for (90)
  ForecastTimes \* the times of records are 1..ForecastTimes

ASSUME ForecastAssumption ==
  /\ ParentOf \in [Areas -> Areas \union {Nowhere}] /\ Nowhere \notin Areas
  /\ Within \subseteq Areas \X Areas
  /\ AddressOf \in [Events -> [road : SUBSET Areas, lot : SUBSET Areas, venue : SUBSET Areas]]
  /\ {Days, WindowDays, ForecastTimes} \subseteq Nat \ {0}

VARIABLES
  today,
  listed,       \* listed[a][d]: [at, items], the festival row of area and day
  valued,       \* valued[d]: the time of the record a single-valued row shows
  announced,    \* announced[e]: [at, first, last, upto], the newest record of e
                \* that was in the window, and the last day written for it
  latestValue   \* latestValue[d]: the time of the newest record of day d

forecastVars == <<today, listed, valued, announced, latestValue>>

Never == 0
NoRow == [at |-> Never, items |-> {}]
Item(e, first, last) == [event |-> e, first |-> first, last |-> last]

ForecastInit ==
  /\ today = 1
  /\ listed = [a \in Areas |-> [d \in 1..Days |-> NoRow]]
  /\ valued = [d \in 1..Days |-> Never]
  /\ announced = [e \in Events |-> [at |-> Never, first |-> 1, last |-> 1, upto |-> 1]]
  /\ latestValue = [d \in 1..Days |-> Never]

-----------------------------------------------------------------------------
\* _match_area: the area whose name an address contains, among "found": the
\* only city or district; the only one named with its province; the smallest
\* of those; or the only province.  Nowhere if that leaves a doubt.
MatchArea(found) ==
  LET children == {a \in found : ParentOf[a] # Nowhere}
      withParent == {a \in children : ParentOf[a] \in found}
      innermost == {a \in withParent : \A b \in withParent \ {a} : <<a, b>> \in Within}
      The(s) == CHOOSE a \in s : TRUE
  IN CASE Cardinality(children) = 1 -> The(children)
       [] Cardinality(children) > 1 /\ Cardinality(withParent) = 1 -> The(withParent)
       [] Cardinality(withParent) > 1 /\ Cardinality(innermost) = 1 -> The(innermost)
       [] children = {} /\ Cardinality(found) = 1 -> The(found)
       [] OTHER -> Nowhere

\* _match_festival_area: the road and the lot address must agree; one that is
\* in doubt is settled by both together, and the venue counts only if neither
\* address names an area.
Doubtful(found) == found # {} /\ MatchArea(found) = Nowhere
FestivalArea(road, lot, venue) ==
  LET resolved == {MatchArea(road), MatchArea(lot)} \ {Nowhere}
      both == MatchArea(road \union lot)
      doubt == Doubtful(road) \/ Doubtful(lot)
  IN CASE Cardinality(resolved) = 2 -> Nowhere
       [] Cardinality(resolved) = 1 ->
            IF doubt /\ both \notin resolved THEN Nowhere ELSE CHOOSE a \in resolved : TRUE
       [] OTHER ->
            IF both # Nowhere THEN both
            ELSE IF doubt THEN Nowhere
            ELSE MatchArea(venue)
AreaOf(e) == FestivalArea(AddressOf[e].road, AddressOf[e].lot, AddressOf[e].venue)

-----------------------------------------------------------------------------
\* _replace_festival_schedule, for each row of the area: one that is not newer
\* loses the event and takes over the time of the record.
Replaced(row, e, at) ==
  LET kept == {i \in row.items : i.event # e}
  IN IF at < row.at \/ kept = row.items THEN row ELSE [at |-> at, items |-> kept]

\* mutant of Upserted: a row that is newer than the record is left alone.
UpsertedIfNewer(row, item, at) ==
  IF at < row.at THEN row ELSE [at |-> at, items |-> row.items \union {item}]

\* _upsert_forecast_input for a festival: a newer row gains the event, an
\* older one also takes the time of the record.
Upserted(row, item, at) == [at |-> Max({row.at, at}), items |-> row.items \union {item}]

\* normalize_festival_run for one row: the dates are cut to the window.  A
\* record with none in it is passed over and changes nothing, not even what an
\* earlier record of the event said; an address in doubt rejects the row.
FestivalRow(e) ==
  \E at \in 1..ForecastTimes, first \in 1..Days, last \in 1..Days :
    LET area == AreaOf(e)
        from == Max({first, today})
        to == Min({last, today + WindowDays - 1})
    IN /\ first <= last /\ today <= last /\ first < today + WindowDays /\ area # Nowhere
       \* a record that is read again says the same
       /\ at = announced[e].at => <<first, last>> = <<announced[e].first, announced[e].last>>
       /\ listed' = [listed EXCEPT ![area] = [d \in 1..Days |->
            IF d \in from..to THEN Upserted(Replaced(@[d], e, at), Item(e, from, to), at)
            ELSE Replaced(@[d], e, at)]]
       /\ announced' = IF at < announced[e].at THEN announced
            ELSE [announced EXCEPT ![e] = [at |-> at, first |-> first, last |-> last, upto |-> to]]
       /\ UNCHANGED <<today, valued, latestValue>>

\* The rows of weather, holidays and visitor forecasts: one value, that of the
\* newest record.
ValueRow(d) ==
  \E at \in 1..ForecastTimes :
    /\ today <= d
    /\ valued' = [valued EXCEPT ![d] = IF at < @ THEN @ ELSE at]
    /\ latestValue' = [latestValue EXCEPT ![d] = Max({@, at})]
    /\ UNCHANGED <<today, listed, announced>>

Tomorrow ==
  /\ today < Days
  /\ today' = today + 1
  /\ UNCHANGED <<listed, valued, announced, latestValue>>

ForecastNext ==
  \/ \E e \in Events : FestivalRow(e)
  \/ \E d \in 1..Days : ValueRow(d)
  \/ Tomorrow

ForecastSpec == ForecastInit /\ [][ForecastNext]_forecastVars

-----------------------------------------------------------------------------
ItemType == [event : Events, first : 1..Days, last : 1..Days]

\* Every variable keeps its type.
ForecastTypeOK ==
  /\ today \in 1..Days
  /\ listed \in [Areas -> [1..Days -> [at : 0..ForecastTimes, items : SUBSET ItemType]]]
  /\ valued \in [1..Days -> 0..ForecastTimes]
  /\ announced \in [Events -> [at : 0..ForecastTimes, first : 1..Days, last : 1..Days,
                               upto : 1..Days]]
  /\ latestValue \in [1..Days -> 0..ForecastTimes]

\* The newest record of an event that was in the window when it was normalized
\* is what readers see of it: from today on, every day written for it lists the
\* event with the end it was cut to, whatever other events share the row,
\* whichever page is newer and whatever older record is normalized again.  (A
\* newer record beyond the window is not seen, nor are days beyond it until the
\* record is read again: forecast.py:380-383.)  And every single-valued row
\* shows its newest record (forecast.py:59-63, 137-153).
NewestDatesListed ==
  /\ \A e \in Events : announced[e].at # Never =>
       \A d \in Max({announced[e].first, today})..announced[e].upto :
         \E i \in listed[AreaOf(e)][d].items : i.event = e /\ i.last = announced[e].upto
  /\ valued = latestValue
=============================================================================
