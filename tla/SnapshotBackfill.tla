---------------------------- MODULE SnapshotBackfill ----------------------------
(***************************************************************************)
(* Revisions 0006 and 0007 of the schema on the rows of                    *)
(* read_model_snapshot: 0006 gives the published rows payloads and heads,  *)
(* 0007 removes the inline columns and its downgrade fills them again.     *)
(*                                                                         *)
(* The statements that move data commit one by one, so that a migration    *)
(* that dies is run again.  Nothing is collected or published meanwhile    *)
(* (README.md:245), but readers go on reading.  The reader before 0006,    *)
(* which this repository no longer holds, took the newest published row of *)
(* a key; the one after the switch takes the head.                         *)
(***************************************************************************)
EXTENDS Naturals, FiniteSetsExt

CONSTANTS
  SnapshotKeys,
  LegacyRows,  \* rows before 0006, as numbers in the order of their identifiers
  FreshRows,   \* rows that the switched writer may add
  Contents,
  AsOfTimes,
  MaxDeaths    \* bound: crashes

NoContent == "null"
NoRow == 0

ASSUME BackfillAssumption ==
  /\ LegacyRows \union FreshRows \subseteq Nat \ {NoRow}
  /\ \A old \in LegacyRows, new \in FreshRows : old < new
  /\ \E last \in LegacyRows \union {NoRow} : \A r \in LegacyRows : r <= last
  /\ AsOfTimes \subseteq Nat /\ \E last \in AsOfTimes : \A time \in AsOfTimes : time <= last
  /\ NoContent \notin Contents /\ MaxDeaths \in Nat

VARIABLES
  rows,      \* read_model_snapshot, by identifier
  stored,    \* the contents that have a row of read_model_payload
  heads,     \* read_model_head
  inline,    \* which of the columns "data" and "published" there are
  progress,  \* the migration that runs: what it does, and the row it came to
  applied,   \* the last revision applied, of 5 to 7
  switched,  \* history: the switched writer has published
  answers,   \* history: what readers are to be answered
  deaths

backfillVars == <<rows, stored, heads, inline, progress, applied, switched, answers, deaths>>

Columns == {"data", "published"}
Known == DOMAIN rows

\* Order by as_of, calculated_at and the identifier, which ranks the last two.
Earlier(q, r) ==
  rows[q].asOf < rows[r].asOf \/ (rows[q].asOf = rows[r].asOf /\ q < r)
PublishedRows == {r \in Known : rows[r].published}

LegacyAnswer(key) ==
  LET candidates == {r \in PublishedRows : rows[r].key = key}
  IN IF candidates = {} THEN NoContent
     ELSE rows[CHOOSE r \in candidates : \A q \in candidates \ {r} : Earlier(q, r)].data
HeadAnswer(key) == IF heads[key] = NoRow THEN NoContent ELSE rows[heads[key]].payload

LegacyRow == [key : SnapshotKeys, asOf : AsOfTimes, data : Contents, published : BOOLEAN,
              payload : {NoContent}, state : {"ready", "retired"}]

AtRest == [does |-> "nothing", at |-> NoRow]

\* A database that was created from the models of today has no inline columns.
BackfillInit ==
  /\ \/ inline = Columns
        /\ rows \in {db \in [LegacyRows -> LegacyRow] :
                       \A r \in LegacyRows : (db[r].state = "ready") = db[r].published}
     \/ inline = {} /\ rows = <<>>
  /\ stored = {} /\ heads = [key \in SnapshotKeys |-> NoRow]
  /\ progress = AtRest /\ applied = 5 /\ deaths = 0 /\ switched = FALSE
  /\ answers = [key \in SnapshotKeys |-> LegacyAnswer(key)]

-----------------------------------------------------------------------------
Doing(step) == progress.does = step
Proceed(step) == progress' = [does |-> step, at |-> NoRow]
Reach(r) == progress' = [progress EXCEPT !.at = r]

BeginBackfill ==
  /\ progress = AtRest /\ applied = 5
  /\ IF inline = Columns THEN Proceed("payloads") /\ UNCHANGED applied
     ELSE applied' = 6 /\ UNCHANGED progress
  /\ UNCHANGED <<rows, stored, heads, inline, switched, answers, deaths>>

\* _backfill_payloads: the next published row without a payload; one statement
\* stores its content, unless it is stored, and one links it.
Unlinked == {r \in PublishedRows : rows[r].payload = NoContent}
StorePayload ==
  /\ Doing("payloads") /\ progress.at = NoRow
  /\ IF Unlinked = {} THEN Proceed("heads") /\ UNCHANGED stored
     ELSE /\ Reach(Min(Unlinked))
          /\ stored' = stored \union {rows[Min(Unlinked)].data}
  /\ UNCHANGED <<rows, heads, inline, applied, switched, answers, deaths>>
LinkPayload ==
  LET r == progress.at IN
  /\ Doing("payloads") /\ r # NoRow
  /\ rows' = [rows EXCEPT ![r].payload = rows[r].data, ![r].state = "ready"]
  /\ Proceed("payloads")
  /\ UNCHANGED <<stored, heads, inline, applied, switched, answers, deaths>>

\* mutant of Follows: rows by their identifiers.
FollowsById(r, q) == q < r

\* The rows of a key are read from the oldest to the newest: the last one stays
\* its head.
Follows(r, q) == Earlier(q, r)

\* _backfill_heads
Unread == {r \in PublishedRows : progress.at = NoRow \/ Follows(r, progress.at)}
NextRead == CHOOSE r \in Unread : \A q \in Unread \ {r} : Follows(q, r)
BackfillHead ==
  /\ Doing("heads")
  /\ IF Unread = {} THEN Proceed("retire") /\ UNCHANGED heads
     ELSE Reach(NextRead) /\ heads' = [heads EXCEPT ![rows[NextRead].key] = NextRead]
  /\ UNCHANGED <<rows, stored, inline, applied, switched, answers, deaths>>

\* _align_legacy_publication: one statement retires the rows that are no heads,
\* one publishes those that are.
IsHead(r) == \E key \in SnapshotKeys : heads[key] = r
RetireOthers ==
  /\ Doing("retire")
  /\ rows' = [r \in Known |->
       IF rows[r].published /\ ~IsHead(r)
       THEN [rows[r] EXCEPT !.published = FALSE, !.state = "retired"] ELSE rows[r]]
  /\ Proceed("publish")
  /\ UNCHANGED <<stored, heads, inline, applied, switched, answers, deaths>>
PublishHeads ==
  /\ Doing("publish")
  /\ rows' = [r \in Known |->
       IF IsHead(r) THEN [rows[r] EXCEPT !.published = TRUE, !.state = "ready"] ELSE rows[r]]
  /\ progress' = AtRest /\ applied' = 6
  /\ UNCHANGED <<stored, heads, inline, switched, answers, deaths>>

-----------------------------------------------------------------------------
\* The switched writer: what it does not map takes the server's default.
SwitchedPublish(r, key, content) ==
  /\ progress = AtRest /\ applied >= 6 /\ r \notin Known
  /\ LET old == heads[key]
         new == [key |-> key, asOf |-> Max(AsOfTimes), data |-> NoContent,
                 published |-> FALSE, payload |-> content, state |-> "ready"]
     IN rows' = [q \in Known \union {r} |->
          IF q = r THEN new
          ELSE IF q = old THEN [rows[q] EXCEPT !.state = "retired"] ELSE rows[q]]
  /\ stored' = stored \union {content}
  /\ heads' = [heads EXCEPT ![key] = r]
  /\ switched' = TRUE /\ answers' = [answers EXCEPT ![key] = content]
  /\ UNCHANGED <<inline, progress, applied, deaths>>

\* 0007: the columns go, one statement each.
BeginContract ==
  /\ progress = AtRest /\ applied = 6 /\ Proceed("contract")
  /\ UNCHANGED <<rows, stored, heads, inline, applied, switched, answers, deaths>>
DropData ==
  /\ Doing("contract") /\ "data" \in inline
  /\ inline' = inline \ {"data"}
  /\ rows' = [r \in Known |-> [rows[r] EXCEPT !.data = NoContent]]
  /\ UNCHANGED <<stored, heads, progress, applied, switched, answers, deaths>>
DropPublished ==
  /\ Doing("contract") /\ "data" \notin inline
  /\ inline' = {}
  /\ rows' = [r \in Known |-> [rows[r] EXCEPT !.published = FALSE]]
  /\ progress' = AtRest /\ applied' = 7
  /\ UNCHANGED <<stored, heads, switched, answers, deaths>>

\* Its downgrade: the columns come back empty, and _restore_legacy_data fills
\* them row by row and publishes the heads.
BeginRestore ==
  /\ progress = AtRest /\ applied = 7 /\ Proceed("restore")
  /\ UNCHANGED <<rows, stored, heads, inline, applied, switched, answers, deaths>>
AddColumns ==
  /\ Doing("restore") /\ inline # Columns
  /\ inline' = IF "data" \in inline THEN Columns ELSE inline \union {"data"}
  /\ UNCHANGED <<rows, stored, heads, progress, applied, switched, answers, deaths>>
Unrestored == {r \in Known : rows[r].payload \in stored /\ r > progress.at}
RestoreRow ==
  LET r == Min(Unrestored) IN
  /\ Doing("restore") /\ inline = Columns /\ Unrestored # {}
  /\ rows' = [rows EXCEPT ![r].data = rows[r].payload]
  /\ Reach(r)
  /\ UNCHANGED <<stored, heads, inline, applied, switched, answers, deaths>>
RestoreHeads ==
  /\ Doing("restore") /\ inline = Columns /\ Unrestored = {}
  /\ rows' = [r \in Known |-> [rows[r] EXCEPT !.published = @ \/ IsHead(r)]]
  /\ progress' = AtRest /\ applied' = 6 /\ switched' = FALSE
  /\ UNCHANGED <<stored, heads, inline, answers, deaths>>

-----------------------------------------------------------------------------
\* A migration that dies is run again, from its beginning.
Die ==
  /\ progress # AtRest /\ deaths < MaxDeaths
  /\ Proceed(IF applied = 5 THEN "payloads" ELSE progress.does)
  /\ deaths' = deaths + 1
  /\ UNCHANGED <<rows, stored, heads, inline, applied, switched, answers>>

BackfillNext ==
  \/ BeginBackfill \/ StorePayload \/ LinkPayload \/ BackfillHead
  \/ RetireOthers \/ PublishHeads
  \/ \E r \in FreshRows, key \in SnapshotKeys, content \in Contents :
       SwitchedPublish(r, key, content)
  \/ BeginContract \/ DropData \/ DropPublished
  \/ BeginRestore \/ AddColumns \/ RestoreRow \/ RestoreHeads
  \/ Die

BackfillSpec == BackfillInit /\ [][BackfillNext]_backfillVars

-----------------------------------------------------------------------------
\* Every variable keeps its type; a head and a linked row lead to a payload.
BackfillTypeOK ==
  /\ Known \subseteq LegacyRows \union FreshRows
  /\ rows \in [Known -> [key : SnapshotKeys, asOf : AsOfTimes, data : Contents \union {NoContent},
                         published : BOOLEAN, payload : stored \union {NoContent},
                         state : {"ready", "retired"}]]
  /\ stored \subseteq Contents /\ inline \subseteq Columns
  /\ heads \in [SnapshotKeys -> Known \union {NoRow}]
  /\ \A key \in SnapshotKeys \ {k \in SnapshotKeys : heads[k] = NoRow} :
       rows[heads[key]].payload \in stored
  /\ progress \in [does : {"nothing", "payloads", "heads", "retire", "publish",
                           "contract", "restore"}, at : Nat]
  /\ applied \in 5..7 /\ deaths \in 0..MaxDeaths /\ switched \in BOOLEAN

\* While 0006 runs, dies and runs again, the legacy reader answers what it did
\* ("preserves the legacy JSON reader throughout", 0006:219-220), and so do the
\* heads once it is done; and the downgrade of 0007 gives the legacy reader what
\* the heads say.  Only between the switched writer's first row and that
\* downgrade does the legacy reader see old data.
ReadersUndisturbed ==
  \A key \in SnapshotKeys :
    /\ applied >= 6 => HeadAnswer(key) = answers[key]
    /\ inline = Columns /\ applied < 7 /\ ~switched => LegacyAnswer(key) = answers[key]
=============================================================================
