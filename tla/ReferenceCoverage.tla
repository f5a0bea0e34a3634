-------------------------- MODULE ReferenceCoverage --------------------------
(***************************************************************************)
(* What "no holiday" means to a reader of the visitor forecast.  The       *)
(* holiday source is asked for the months ahead, a page a month; a page is *)
(* stored once, and normalized by the run that stored it into rows of the  *)
(* dates it announces.  A product copies the rows of its horizon, with a   *)
(* window of dates about which the source's last success is taken to       *)
(* vouch; a view calls a date in that window without a row no holiday.     *)
(*                                                                         *)
(* Time is counted in days.  The source has no watermark, so a collection  *)
(* is degraded at best and counts as a success if it stored a new page     *)
(* (service.py:703-716).  A page says the same whenever it is asked for.   *)
(* A job holds the heavy-write lock, so no product is built while it runs. *)
(* The visitor forecasts of the districts and the weather of the province  *)
(* are inputs: rows for the first days from the day of the build on.       *)
(***************************************************************************)
EXTENDS Integers, FiniteSets, FiniteSetsExt

CONSTANTS
  Province, Districts,
  Calendars,  \* the sets of holidays there may be
  PageDays,   \* the days of a page, a month
  Ahead,      \* the months asked for after the current one
  Reach,      \* the dates normalized, and vouched for, from a day on
  Horizon,    \* the dates a product holds
  Spans,      \* the days of it that other sources may have rows of
  FreshDays,  \* max_acceptable_age_seconds
  Interval,   \* days between two collections
  Cap,        \* the longest wait after failures
  RetryLimit,
  LastDay,    \* bound: the clock
  MaxTrouble  \* bound: failures, crashes and midnights in a job

ASSUME CoverageAssumption ==
  /\ Province \notin Districts /\ Districts # {}
  /\ {PageDays, Reach, Horizon, Interval, Cap} \subseteq Nat \ {0}
  /\ Calendars \subseteq SUBSET Nat
  /\ Spans \subseteq 0..Horizon
  /\ {Ahead, FreshDays, RetryLimit, LastDay, MaxTrouble} \subseteq Nat
  \* the reader does not look at the age of a success again, and need not
  /\ FreshDays + Horizon <= Reach

VARIABLES
  day,
  calendar,    \* the holidays there are
  pages,       \* pages with a raw record
  dated,       \* dates with a row
  health,      \* the source's row of source_state
  collection,  \* the source job
  unfinished,  \* pages of the run that failed after its fetch
  product,     \* product[a]: what was built for area a
  trouble,
  vouched,     \* history: pages stored when the last success was counted
  lost         \* history: holidays whose page nobody will normalize again

coverageVars == <<day, calendar, pages, dated, health, collection, unfinished,
                  product, trouble, vouched, lost>>

ForecastAreas == Districts \union {Province}
PageOf(d) == d \div PageDays
Months == 0..(PageOf(LastDay) + Ahead)
On(some) == {d \in calendar : PageOf(d) \in some}

NeverDone == -1
NoCollection == [step |-> "idle", new |-> {}]
NoProduct == [built |-> NeverDone, through |-> NeverDone, holidays |-> {},
              demand |-> 0, weather |-> 0, vouched |-> {}]

Trouble == trouble < MaxTrouble /\ trouble' = trouble + 1
TroubleIf(p) == IF p THEN Trouble ELSE UNCHANGED trouble

CoverageInit ==
  /\ day = 0 /\ trouble = 0
  /\ calendar \in Calendars
  /\ pages = {} /\ dated = {} /\ unfinished = {} /\ vouched = {} /\ lost = {}
  /\ health = [attempt |-> NeverDone, success |-> NeverDone, failures |-> 0, retry |-> FALSE]
  /\ collection = NoCollection
  /\ product = [a \in ForecastAreas |-> NoProduct]

-----------------------------------------------------------------------------
\* _upsert_state with new data, and without
Succeeded == [attempt |-> day, success |-> day, failures |-> 0, retry |-> FALSE]
Failed(retry) ==
  [health EXCEPT !.attempt = day, !.failures = @ + 1, !.retry = retry]

\* _is_due: a stage that failed is retried within the hour, a few times;
\* otherwise failures double the interval, up to the cap.
WaitDays ==
  IF health.retry /\ health.failures <= RetryLimit THEN 0
  ELSE IF health.failures = 0 THEN Interval
  ELSE Min({Interval * 2 ^ Min({health.failures, 4}), Cap})
DueNow == health.attempt = NeverDone \/ health.attempt + WaitDays <= day

\* The run whose later stage failed goes first, with the pages it stored.
Plan ==
  /\ collection = NoCollection /\ DueNow
  /\ collection' =
       IF health.retry /\ unfinished # {}
       THEN [step |-> "fetched", new |-> unfinished]
       ELSE [step |-> "planned", new |-> PageOf(day)..(PageOf(day) + Ahead)]
  /\ unfinished' = {}
  /\ health' = [health EXCEPT !.attempt = day]
  /\ UNCHANGED <<day, calendar, pages, dated, product, trouble, vouched, lost>>

\* _persist_raw for the pages that were delivered; a run without a new one
\* has failed.
FetchMonths ==
  /\ collection.step = "planned"
  /\ \E got \in SUBSET collection.new :
       /\ TroubleIf(got # collection.new)
       /\ pages' = pages \union got
       /\ collection' = IF got \subseteq pages THEN NoCollection
                        ELSE [step |-> "fetched", new |-> got \ pages]
       /\ health' = IF got \subseteq pages THEN Failed(FALSE) ELSE health
  /\ UNCHANGED <<day, calendar, dated, unfinished, product, vouched, lost>>

\* mutant of FailPipeline: the new data counts, whatever became of it.
FailPipelineCounted ==
  /\ unfinished' = collection.new
  /\ health' = [Succeeded EXCEPT !.retry = TRUE]
  /\ collection' = NoCollection
  /\ vouched' = pages

\* fail_pipeline: the run keeps its pages for the retry.
FailPipeline ==
  /\ unfinished' = collection.new
  /\ health' = Failed(TRUE)
  /\ collection' = NoCollection
  /\ UNCHANGED vouched

\* normalize_holiday_run: dates outside the window are passed over, rows that
\* do not parse become dead letters, and a run of dead letters alone fails.
NormalizeMonths ==
  /\ collection.step = "fetched"
  /\ \E rejected \in SUBSET On(collection.new) :
       LET rows == {d \in On(collection.new) \ rejected : d \in day..(day + Reach - 1)}
       IN /\ TroubleIf(rejected # {})
          /\ dated' = dated \union rows
          /\ IF rows = {} /\ rejected # {}
             THEN FailPipeline /\ UNCHANGED lost
             ELSE /\ collection' = [collection EXCEPT !.step = "normalized"]
                  /\ lost' = lost \union (On(collection.new) \ dated')
                  /\ UNCHANGED <<unfinished, health, vouched>>
  /\ UNCHANGED <<day, calendar, pages, product>>

\* Normalizing, marking the products or completing raises an exception.
StageFails ==
  /\ collection.step \in {"fetched", "normalized"}
  /\ Trouble
  /\ FailPipeline
  /\ UNCHANGED <<day, calendar, pages, dated, product, lost>>

\* complete_pipeline
CompletePipeline ==
  /\ collection.step = "normalized"
  /\ health' = Succeeded
  /\ vouched' = pages
  /\ collection' = NoCollection
  /\ UNCHANGED <<day, calendar, pages, dated, unfinished, product, trouble, lost>>

\* The process dies.  Its run is marked "interrupted", and is not resumed.
JobDies ==
  /\ collection # NoCollection
  /\ Trouble
  /\ lost' = IF collection.step = "planned" THEN lost
             ELSE lost \union (On(collection.new) \ dated)
  /\ collection' = NoCollection
  /\ UNCHANGED <<day, calendar, pages, dated, health, unfinished, product, vouched>>

Midnight ==
  /\ day < LastDay
  /\ day' = day + 1
  /\ TroubleIf(collection # NoCollection)
  /\ UNCHANGED <<calendar, pages, dated, health, collection, unfinished, product, vouched, lost>>

-----------------------------------------------------------------------------
\* reference_coverage: the last date that a success which is fresh enough
\* vouches for.
CoveredThrough ==
  IF health.success # NeverDone /\ day - health.success <= FreshDays
  THEN health.success + Reach - 1
  ELSE NeverDone

\* aggregated_sigungu_forecasts: a province's forecast is the mean of those of
\* its districts that have one for the day.
Aggregated(demand) == Max({demand[x] : x \in Districts})

\* build_forecast_snapshots for one area.  A district inherits the province's
\* weather and holidays.
BuildForecast(a) ==
  /\ collection = NoCollection
  /\ \E demand \in [Districts -> Spans], weather \in Spans :
       LET own == IF a = Province THEN Aggregated(demand) ELSE demand[a]
           rows == {d \in dated : d \in day..(day + Horizon - 1)}
       IN /\ own > 0 \/ (a = Province /\ (weather > 0 \/ rows # {}))
          /\ product' = [product EXCEPT ![a] =
               [built |-> day, through |-> CoveredThrough, holidays |-> rows,
                demand |-> own, weather |-> weather, vouched |-> vouched]]
  /\ UNCHANGED <<day, calendar, pages, dated, health, collection, unfinished,
                 trouble, vouched, lost>>

CoverageNext ==
  \/ Plan \/ FetchMonths \/ NormalizeMonths \/ StageFails \/ CompletePipeline
  \/ JobDies \/ Midnight
  \/ \E a \in ForecastAreas : BuildForecast(a)

CoverageSpec == CoverageInit /\ [][CoverageNext]_coverageVars

-----------------------------------------------------------------------------
\* The areas with a product; a request for another area is answered without
\* data.
Published == {a \in ForecastAreas : product[a] # NoProduct}

\* build_forecast_view, for a request of some days that may name an attraction
\* or another grid than the collected one, and lists the blocks it wants.
Requests == [days : 1..Horizon, include : SUBSET {"weather", "holidays"},
             named : BOOLEAN, otherGrid : BOOLEAN]

\* _base_forecast: only districts have rows of attractions.
HasBase(a, d, r) ==
  /\ product[a].built <= d /\ d < product[a].built + product[a].demand
  /\ r.named => a # Province
WeatherRow(a, d) == product[a].built <= d /\ d < product[a].built + product[a].weather
\* _weather_value: the value of the requested grid, or else a nearest one's.
HasWeather(a, d, r) == WeatherRow(a, d) /\ ~r.otherGrid
HolidayKnown(a, d) ==
  \/ d \in product[a].holidays
  \/ product[a].built <= d /\ d <= product[a].through
Missing(a, d, r) ==
  \/ "weather" \in r.include /\ ~HasWeather(a, d, r)
  \/ "holidays" \in r.include /\ ~HolidayKnown(a, d)
DayAvailability(a, d, r) ==
  IF ~HasBase(a, d, r) THEN "unavailable"
  ELSE IF Missing(a, d, r) THEN "partial" ELSE "available"
Horizons(r) == day..(day + r.days - 1)
ViewAvailability(a, r) ==
  IF \A d \in Horizons(r) : DayAvailability(a, d, r) = "available" THEN "available"
  ELSE IF \E d \in Horizons(r) : HasBase(a, d, r) THEN "partial"
  ELSE "unavailable"

\* The day's "holiday" is false.
Denies(a, d, r) ==
  "holidays" \in r.include /\ HolidayKnown(a, d) /\ d \notin product[a].holidays

-----------------------------------------------------------------------------
ProductType ==
  [built : -1..LastDay, through : -1..(LastDay + Reach - 1), holidays : SUBSET calendar,
   demand : Spans \union {0}, weather : Spans \union {0}, vouched : SUBSET Months]

\* Every variable keeps its type.
CoverageTypeOK ==
  /\ day \in 0..LastDay /\ trouble \in 0..MaxTrouble
  /\ calendar \in Calendars /\ {dated, lost} \subseteq SUBSET calendar
  /\ {pages, unfinished, vouched} \subseteq SUBSET Months
  /\ health \in [attempt : -1..LastDay, success : -1..LastDay, failures : Nat, retry : BOOLEAN]
  /\ collection \in [step : {"idle", "planned", "fetched", "normalized"}, new : SUBSET Months]
  /\ product \in [ForecastAreas -> ProductType]

\* A day that a view counts as forecast and calls no holiday is none, unless
\* its page had not been stored when the success was counted that vouches for
\* it, or that page's row was passed over, rejected or cut off by a crash: a
\* stage that failed, an old success or an old product never turns into a
\* denial (products/forecast.py:42-74, service.py:395-466).
SilenceIsExplained ==
  \A a \in Published, r \in Requests : \A d \in Horizons(r) :
    DayAvailability(a, d, r) # "unavailable" /\ Denies(a, d, r) /\ d \in calendar =>
      d \in lost \/ PageOf(d) \notin product[a].vouched

\* What products/forecast.py:18-20 says: "A fresh successful run therefore
\* proves that dates without rows inside that window have no event."
SilenceIsProven ==
  \A a \in Published, r \in Requests : \A d \in Horizons(r) :
    ViewAvailability(a, r) = "available" /\ Denies(a, d, r) => d \notin calendar
=============================================================================
