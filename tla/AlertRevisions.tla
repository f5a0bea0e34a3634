--------------------------- MODULE AlertRevisions ---------------------------
(***************************************************************************)
(* One alert document: the revisions the normalizer gives it               *)
(* (normalization/alerts.py), their translation by a paid model            *)
(* (llm/alerts.py) and their retention (_retain_alerts).                   *)
(*                                                                         *)
(* A revision is its content: (alert_id, content_hash) is unique.  The     *)
(* lock eden:alert-enrichment lives on a connection of its own and may be  *)
(* lost, so the workers here do not exclude each other, and a worker may   *)
(* die at any step.                                                        *)
(***************************************************************************)
EXTENDS Integers, FiniteSets

CONSTANTS
  Contents,      \* texts the notice may have
  Enrichers,     \* enrichment batches that may overlap
  MaxTries,      \* MAX_ENRICHMENT_ATTEMPTS
  MaxNumber      \* bound: revision numbers

ASSUME AlertAssumption ==
  MaxTries \in Nat \ {0} /\ MaxNumber \in Nat /\ IsFiniteSet(Enrichers)

VARIABLES
  document,      \* [cur: current_revision, 0 if the row does not exist;
                 \*  listed: observed since retention last found it expired]
  revision,      \* revision[c]: the alert_revision row with content c
  enricher,      \* enricher[w]: [at, text: content of its row, tries, held]
  calls          \* calls[c]: calls of the paid model for the row with content c

alertVars == <<document, revision, enricher, calls>>

NoRevision == [number |-> 0, tries |-> 0, due |-> FALSE, done |-> FALSE, settled |-> FALSE]
IdleEnricher == [at |-> "idle", text |-> "none", tries |-> 0, held |-> FALSE]

Exists(c) == revision[c].number # 0
\* The rows that readers and the enrichment join to the document.
Current == {c \in Contents : Exists(c) /\ revision[c].number = document.cur}

AlertInit ==
  /\ document = [cur |-> 0, listed |-> FALSE]
  /\ revision = [c \in Contents |-> NoRevision]
  /\ enricher = [w \in Enrichers |-> IdleEnricher]
  /\ calls = [c \in Contents |-> 0]

-----------------------------------------------------------------------------
\* _normalize_alert_run for a notice with content c: known content becomes
\* current again, other content becomes the revision after the current one.  The
\* notice is new, or a past run is normalized again because of another record in
\* it: alert sources are not among ROW_IDENTITY_REPLAY_SOURCES.
NormalizeAlert(c) ==
  LET number == IF Exists(c) THEN revision[c].number ELSE document.cur + 1 IN
  /\ number <= MaxNumber
  /\ document' = [cur |-> number, listed |-> TRUE]
  /\ IF Exists(c) THEN UNCHANGED <<revision, calls>>
     ELSE /\ revision' = [revision EXCEPT ![c] =
               [NoRevision EXCEPT !.number = number, !.due = TRUE]]
          /\ calls' = [calls EXCEPT ![c] = 0]
  /\ UNCHANGED enricher

-----------------------------------------------------------------------------
\* enrich_pending_alert_revisions lists a current revision that is not done ...
ListRevision(w, c) ==
  /\ enricher[w].at = "idle"
  /\ c \in Current /\ ~revision[c].done
  /\ revision[c].tries < MaxTries /\ revision[c].due
  /\ enricher' = [enricher EXCEPT ![w] =
       [at |-> "reserve", text |-> c, tries |-> revision[c].tries, held |-> TRUE]]
  /\ UNCHANGED <<document, revision, calls>>

\* mutant of Unchanged: the number of attempts is not compared
UnchangedButTries(e) == e.held /\ ~revision[e.text].done

\* The WHERE clause of the reservation: the row is as it was when listed.
Unchanged(e) == e.held /\ ~revision[e.text].done /\ revision[e.text].tries = e.tries

\* mutant of Reserve: the attempt is not counted before the call
ReserveUncounted(w) ==
  LET e == enricher[w] IN
  /\ e.at = "reserve"
  /\ revision' = IF Unchanged(e) THEN [revision EXCEPT ![e.text].due = FALSE] ELSE revision
  /\ enricher' = [enricher EXCEPT ![w] =
       IF Unchanged(e) THEN [e EXCEPT !.at = "call"] ELSE IdleEnricher]
  /\ UNCHANGED <<document, calls>>

\* ... reserves an attempt, unless the row changed or went since it was listed,
Reserve(w) ==
  LET e == enricher[w] IN
  /\ e.at = "reserve"
  /\ revision' = IF Unchanged(e)
       THEN [revision EXCEPT ![e.text].tries = @ + 1, ![e.text].due = FALSE] ELSE revision
  /\ enricher' = [enricher EXCEPT ![w] =
       IF Unchanged(e) THEN [e EXCEPT !.at = "call"] ELSE IdleEnricher]
  /\ UNCHANGED <<document, calls>>

\* ... pays for a translation (enrich: one request, and one more if only one
\* language is wrong); the answer may be unusable.
CallModel(w) ==
  LET e == enricher[w] IN
  /\ e.at = "call"
  /\ \E usable \in BOOLEAN :
       /\ calls' = IF e.held THEN [calls EXCEPT ![e.text] = @ + 1] ELSE calls
       /\ enricher' = [enricher EXCEPT ![w] =
            IF usable THEN [e EXCEPT !.at = "store", !.tries = 0] ELSE IdleEnricher]
  /\ UNCHANGED <<document, revision>>

\* ... and stores it, unless another batch already did.
StoreTranslation(w) ==
  LET e == enricher[w] IN
  /\ e.at = "store"
  /\ revision' = IF e.held /\ ~revision[e.text].done
       THEN [revision EXCEPT ![e.text].done = TRUE, ![e.text].due = FALSE] ELSE revision
  /\ enricher' = [enricher EXCEPT ![w] = IdleEnricher]
  /\ UNCHANGED <<document, calls>>

EnricherDies(w) ==
  /\ enricher[w].at # "idle"
  /\ enricher' = [enricher EXCEPT ![w] = IdleEnricher]
  /\ UNCHANGED <<document, revision, calls>>

\* The 2^tries hours after a reserved attempt, or one hour after the insertion.
AlertTime(c) ==
  /\ Exists(c)
  /\ \/ ~revision[c].due /\ ~revision[c].done /\ revision[c].tries < MaxTries
        /\ revision' = [revision EXCEPT ![c].due = TRUE]
     \/ ~revision[c].settled /\ revision' = [revision EXCEPT ![c].settled = TRUE]
  /\ UNCHANGED <<document, enricher, calls>>

-----------------------------------------------------------------------------
\* mutant of Expendable: the revision with the highest number is kept
ExpendableIfOutnumbered(c, expired) ==
  /\ Exists(c) /\ revision[c].settled
  /\ expired \/ \E d \in Contents : revision[d].number > revision[c].number

Expendable(c, expired) ==
  Exists(c) /\ revision[c].settled /\ (expired \/ revision[c].number # document.cur)

\* _retain_alerts: revisions older than an hour go when they are not current or
\* their document is expired, that is inactive, outranked by others of its
\* country or 90 days old, and when a batch took all their edges ("gone" may
\* miss some).  An expired document goes with its last revision.
RetainAlert(expired) ==
  /\ document.cur # 0
  /\ \E gone \in SUBSET {c \in Contents : Expendable(c, expired)} :
       /\ revision' = [c \in Contents |-> IF c \in gone THEN NoRevision ELSE revision[c]]
       /\ calls' = [c \in Contents |-> IF c \in gone THEN 0 ELSE calls[c]]
       /\ enricher' = [w \in Enrichers |->
            IF enricher[w].text \in gone THEN [enricher[w] EXCEPT !.held = FALSE] ELSE enricher[w]]
       /\ document' =
            IF expired /\ \A c \in Contents \ gone : ~Exists(c)
            THEN [cur |-> 0, listed |-> FALSE]
            ELSE [document EXCEPT !.listed = @ /\ ~expired]

AlertNext ==
  \/ \E c \in Contents :
       NormalizeAlert(c) \/ AlertTime(c)
  \/ \E w \in Enrichers :
       \/ \E c \in Contents : ListRevision(w, c)
       \/ Reserve(w) \/ CallModel(w) \/ StoreTranslation(w) \/ EnricherDies(w)
  \/ \E expired \in BOOLEAN : RetainAlert(expired)

AlertSpec == AlertInit /\ [][AlertNext]_alertVars

-----------------------------------------------------------------------------
AlertTypeOK ==
  /\ document \in [cur : 0..MaxNumber, listed : BOOLEAN]
  /\ revision \in [Contents -> [number : 0..MaxNumber, tries : 0..MaxTries, due : BOOLEAN,
                                done : BOOLEAN, settled : BOOLEAN]]
  /\ enricher \in [Enrichers -> [at : {"idle", "reserve", "call", "store"},
                                 text : Contents \union {"none"},
                                 tries : 0..MaxTries, held : BOOLEAN]]
  /\ calls \in [Contents -> Nat]

\* However many batches overlap or die, the paid model is called at most MaxTries
\* times for a revision, the calls that are still to come included.
CallsBounded ==
  \A c \in Contents :
    LET calling == {w \in Enrichers :
          enricher[w].at = "call" /\ enricher[w].held /\ enricher[w].text = c}
    IN calls[c] + Cardinality(calling) <= MaxTries

\* A listed document always has the text its readers join to, although
\* contents come back, replays interleave and retention deletes revisions.
CurrentHasText ==
  document.listed => Current # {}

\* A document has one current text: a batch enriches, and readers list, no text
\* that another one has replaced (test_upstage_alert_enrichment.py:234, 348).
OneCurrent ==
  Cardinality(Current) <= 1

=============================================================================
