----------------------------- MODULE SourceFetch -----------------------------
(***************************************************************************)
(* One run of the public-data adapter (sources/public_data.py) over the    *)
(* bounded HTTP client (sources/http.py): the operations of the run, their *)
(* pages, redirects, retries, and the budgets of requests, bytes, seconds  *)
(* and records that all of them share.  The server holds Pages[o] full     *)
(* pages of an operation and may declare that number or not; anything may  *)
(* happen to a single request.  Operations that ask for one page only      *)
(* (paginate = FALSE) are samples by configuration and not modelled.       *)
(***************************************************************************)
EXTENDS Integers, FiniteSets, FiniteSetsExt

CONSTANTS
  Ops,           \* the operations of the scope are 1..Ops
  Pages,         \* numbers of pages an operation may have at the server
  PageLimit,     \* max_pages of an operation
  MaxRequests,   \* the client's request budget
  ByteBudget,    \* the client's byte budget; a page is one unit
  MaxSeconds,    \* the client's time budget
  MaxRecords,    \* max_records of the run, in full pages
  MaxHops,       \* requests of one attempt: the first one and its redirects
  OperationsPerRun,  \* max_operations_per_run
  Slots          \* rotation slots: the wall clock over rotation_seconds

ASSUME FetchAssumption ==
  /\ {Ops, PageLimit, MaxRequests, ByteBudget, MaxSeconds, MaxRecords, MaxHops,
      OperationsPerRun} \subseteq Nat \ {0}
  /\ Pages \subseteq Nat \ {0} /\ Slots \subseteq Nat

VARIABLES
  server,     \* server[o]: [pages, declares], fixed during a run
  plan,       \* the run: [ops, rotate (whole operations), windowed (pages), slot]
  left,       \* budgets left: [requests, bytes, seconds, records]
  at,         \* "next", "send", "wait", "page" or "done"
  cur,        \* the operation at work: [op, page, end, got, hop, try]
  items,      \* the stored pages: pairs of operation and page
  errors,     \* kinds of errors collected so far
  notices     \* operations whose pages are rotated

fetchVars == <<server, plan, left, at, cur, items, errors, notices>>

NoEnd == 0
Start(o) == [op |-> o, page |-> 1, end |-> NoEnd, got |-> 0, hop |-> 1, try |-> 1]

-----------------------------------------------------------------------------
\* _rotating_operation_batch: the slice that the wall clock selects.
BatchCount == (Ops + OperationsPerRun - 1) \div OperationsPerRun
OperationBatch(slot) ==
  LET start == (slot % BatchCount) * OperationsPerRun
  IN {o \in 1..Ops : start < o /\ o <= start + OperationsPerRun}

\* The window of pages of an operation with more pages than max_pages; the
\* first page was read only to learn how many there are.
WindowSize == Max({1, PageLimit - 1})
WindowCount(pages) == (pages + WindowSize - 1) \div WindowSize
WindowStart(slot, pages) == (slot % WindowCount(pages)) * WindowSize + 1
WindowEnd(slot, pages) == Min({pages, WindowStart(slot, pages) + WindowSize - 1})

FetchInit ==
  /\ server \in [1..Ops -> [pages : Pages, declares : BOOLEAN]]
  /\ \E s \in Slots, r \in BOOLEAN, w \in BOOLEAN :
       plan = [ops |-> IF r /\ Ops > 1 THEN OperationBatch(s) ELSE 1..Ops,
               rotate |-> r /\ Ops > 1, windowed |-> w, slot |-> s]
  /\ left = [requests |-> MaxRequests, bytes |-> ByteBudget,
             seconds |-> MaxSeconds, records |-> MaxRecords]
  /\ at = "next"
  /\ cur = Start(0)
  /\ items = {}
  /\ errors = {}
  /\ notices = {}

-----------------------------------------------------------------------------
\* The loop over the operations, and the end of the run.
NextOperation ==
  LET rest == {o \in plan.ops : o > cur.op} IN
  /\ at = "next"
  /\ IF rest = {}
     THEN at' = "done" /\ UNCHANGED <<cur, errors>>
     ELSE IF left.records <= 0
     THEN at' = "done" /\ errors' = errors \union {"limit"} /\ UNCHANGED cur
     ELSE cur' = Start(Min(rest)) /\ at' = "send" /\ UNCHANGED errors
  /\ UNCHANGED <<server, plan, left, items, notices>>

\* An exception of a request: this operation is over, or with an exhausted
\* budget the run.
Fail(kind) ==
  /\ errors' = errors \union {kind}
  /\ at' = IF kind = "budget" THEN "done" ELSE "next"

CanSend == left.seconds > 0 /\ left.requests > 0
\* What is left of the budget after a request is sent.
Sent == [left EXCEPT !.requests = @ - 1]
\* A request that fails may have used time, and bytes of an answer that broke off.
Spent ==
  \E s \in {0, 1}, b \in 0..Min({1, left.bytes}) :
    left' = [Sent EXCEPT !.seconds = @ - s, !.bytes = @ - b]
\* _validate_url looks the host up before the request is reserved.
SentOrNot == (CanSend /\ Spent) \/ UNCHANGED left

\* _reserve_request: no request without time and budget for it.
RefuseRequest ==
  /\ at = "send" /\ ~CanSend
  /\ Fail("budget")
  /\ UNCHANGED <<server, plan, left, cur, items, notices>>

\* The response is a redirect: at most MaxHops requests for one attempt.
Redirected ==
  /\ at = "send" /\ CanSend
  /\ left' = Sent
  /\ IF cur.hop < MaxHops
     THEN cur' = [cur EXCEPT !.hop = @ + 1] /\ UNCHANGED <<at, errors>>
     ELSE Fail("http") /\ UNCHANGED cur
  /\ UNCHANGED <<server, plan, items, notices>>

\* Credentials or the request are rejected, the host does not resolve to a
\* public address, the response is too large, cannot be parsed or is an error.
Rejected ==
  /\ at = "send" /\ SentOrNot
  /\ \E kind \in {"auth", "http"} : Fail(kind)
  /\ UNCHANGED <<server, plan, cur, items, notices>>

\* A transient failure: retried, but for the last attempt, an answer that asks
\* for a long wait, and when the wait would outlast the run.
Transient ==
  /\ at = "send" /\ SentOrNot
  /\ \E attempts \in {2, 3} :
       \/ cur.try >= attempts /\ Fail("http") /\ UNCHANGED cur
       \/ cur.try < attempts /\ Fail("http") /\ UNCHANGED cur       \* Retry-After is too long
       \/ /\ cur.try < attempts
          /\ cur' = [cur EXCEPT !.try = @ + 1, !.hop = 1]
          /\ at' = "wait" /\ UNCHANGED errors
  /\ UNCHANGED <<server, plan, items, notices>>

\* _request: the delay before the next attempt.
Wait ==
  /\ at = "wait"
  /\ \E s \in {0, 1} :
       IF s >= left.seconds THEN Fail("budget") /\ UNCHANGED left
       ELSE left' = [left EXCEPT !.seconds = @ - s] /\ at' = "send" /\ UNCHANGED errors
  /\ UNCHANGED <<server, plan, cur, items, notices>>

\* _record_response_chunk: the body arrives, and uses bytes and maybe a second.
Answered ==
  /\ at = "send" /\ CanSend
  /\ \E s \in {0, 1} :
       IF s >= left.seconds \/ left.bytes < 1
       THEN left' = [Sent EXCEPT !.seconds = @ - s] /\ Fail("budget")
       ELSE /\ left' = [Sent EXCEPT !.seconds = @ - s, !.bytes = @ - 1]
            /\ at' = "page" /\ UNCHANGED errors
  /\ UNCHANGED <<server, plan, cur, items, notices>>

-----------------------------------------------------------------------------
\* What the server answers for the page: is there anything on it?
Full == cur.page <= server[cur.op].pages
Declared == server[cur.op].declares

\* rotate_pages: the first answer tells how many pages there are.
Windowing == plan.windowed /\ Declared /\ cur.end = NoEnd /\ server[cur.op].pages > PageLimit
OpenWindow ==
  LET n == server[cur.op].pages IN
  [cur EXCEPT !.end = WindowEnd(plan.slot, n), !.page = WindowStart(plan.slot, n),
              !.hop = 1, !.try = 1]

JumpToWindow ==
  /\ at = "page" /\ Windowing /\ OpenWindow.page > 1
  /\ cur' = OpenWindow
  /\ notices' = notices \union {cur.op}
  /\ at' = "send"
  /\ UNCHANGED <<server, plan, left, items, errors>>

\* mutant of LastPage: a full batch of pages counts as the end of the operation
LastPageOrLimit(c) ==
  \/ c.end # NoEnd /\ c.page >= c.end
  \/ Declared /\ c.page >= server[c.op].pages
  \/ ~Declared /\ ~Full
  \/ c.got + 1 >= PageLimit

\* The page is the last one that is wanted, or the last one there is.
LastPage(c) ==
  \/ c.end # NoEnd /\ c.page >= c.end
  \/ Declared /\ c.page >= server[c.op].pages
  \/ ~Declared /\ ~Full

\* The page is stored, unless it exceeds the records of the run, and the next
\* one is asked for; without an end the page limit is an error.
TakePage ==
  LET c == IF Windowing THEN OpenWindow ELSE cur
      size == IF Full THEN 1 ELSE 0
  IN
  /\ at = "page" /\ ~(Windowing /\ OpenWindow.page > 1)
  /\ notices' = IF Windowing THEN notices \union {cur.op} ELSE notices
  /\ IF size > left.records
     THEN /\ errors' = errors \union {"limit"} /\ at' = "done"
          /\ UNCHANGED <<cur, items, left>>
     ELSE /\ items' = items \union {<<c.op, c.page>>}
          /\ left' = [left EXCEPT !.records = @ - size]
          /\ cur' = [c EXCEPT !.page = @ + 1, !.got = @ + 1, !.hop = 1, !.try = 1]
          /\ \/ LastPage(c) /\ at' = "next" /\ UNCHANGED errors
             \/ ~LastPage(c) /\ cur'.got >= PageLimit
                /\ at' = "next" /\ errors' = errors \union {"pages"}
             \/ ~LastPage(c) /\ cur'.got < PageLimit /\ left'.records = 0
                /\ at' = "done" /\ errors' = errors \union {"limit"}
             \/ ~LastPage(c) /\ cur'.got < PageLimit /\ left'.records > 0
                /\ at' = "send" /\ UNCHANGED errors
  /\ UNCHANGED <<server, plan>>

\* A page that is empty although the server declares more to come, as when its
\* field for the rows has been renamed.
SchemaDrift ==
  /\ at = "page" /\ ~Windowing /\ Declared /\ ~LastPage(cur)
  /\ items' = items \union {<<cur.op, cur.page>>}
  /\ errors' = errors \union {"drift"} /\ at' = "next"
  /\ UNCHANGED <<server, plan, left, cur, notices>>

FetchNext ==
  \/ NextOperation \/ RefuseRequest \/ Redirected \/ Rejected \/ Transient
  \/ Wait \/ Answered \/ JumpToWindow \/ TakePage \/ SchemaDrift

FetchSpec == FetchInit /\ [][FetchNext]_fetchVars

-----------------------------------------------------------------------------
\* The result: its status, and whether a normalizer may take it for complete.
FetchStatus ==
  IF errors # {} /\ items = {} /\ errors = {"auth"} THEN "unavailable"
  ELSE IF errors # {} THEN "degraded" ELSE "available"
RotationTold == plan.rotate /\ items # {}
Complete == errors = {} /\ notices = {} /\ ~RotationTold

FetchTypeOK ==
  /\ left.requests \in 0..MaxRequests /\ left.bytes \in 0..ByteBudget
  /\ left.seconds \in 0..MaxSeconds /\ left.records \in 0..MaxRecords
  /\ at \in {"next", "send", "wait", "page", "done"}
  /\ cur.op \in 0..Ops /\ cur.hop \in 1..MaxHops /\ cur.try \in 1..3
  /\ items \subseteq (1..Ops) \X Nat
  /\ errors \subseteq {"auth", "http", "budget", "limit", "pages", "drift"}
  /\ notices \subseteq 1..Ops

\* What the run leaves out is always told.  Without an error, every page of
\* every operation of the run was stored, or its window when a notice says so;
\* without a notice either, everything the server has, which is what the
\* national scores rely on; and rejected credentials alone, never a mixture of
\* failures, make a source unavailable.
OmissionsAreTold ==
  at = "done" =>
    /\ errors = {} =>
         \A o \in plan.ops :
           LET n == server[o].pages
               wanted == IF o \in notices
                         THEN WindowStart(plan.slot, n)..WindowEnd(plan.slot, n) ELSE 1..n
           IN \A page \in wanted : <<o, page>> \in items
    /\ Complete => \A o \in 1..Ops : \A page \in 1..server[o].pages : <<o, page>> \in items
    /\ FetchStatus = "unavailable" => items = {} /\ "auth" \in errors

=============================================================================
