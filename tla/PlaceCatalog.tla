----------------------------- MODULE PlaceCatalog -----------------------------
(***************************************************************************)
(* Places and their sources: normalization/places.py and the crosswalk     *)
(* (place_crosswalk.py).  TourAPI rows name a place by a content id, in     *)
(* several languages; hub and related rows (TATS) name one by a code.  A    *)
(* TATS row is attached to the TourAPI place it certainly names, or else   *)
(* mints a place of its own, which the crosswalk job attaches later.       *)
(*                                                                         *)
(* Normalizers hold eden:heavy-write, so their rows are taken one at a     *)
(* time; the crosswalk holds another lock and runs beside them: it reads   *)
(* from the snapshot of its transaction and writes when it commits.  A     *)
(* record that is normalized again finds its evidence and its rows are     *)
(* passed over, or else it is a row like any other.  A row that is refused *)
(* is rolled back to its savepoint, but what the normalizer's session has  *)
(* noted of it, outside the database, stays.                               *)
(***************************************************************************)
EXTENDS Integers, Sequences, FiniteSets, FiniteSetsExt

CONSTANTS
  ContentIds,      \* TourAPI content ids; each is the id of its place
  Codes,         \* TATS codes; each is the id of the place it mints
  Langs,         \* languages of the TourAPI sources
  Korean,        \* the language that TATS rows are written and matched in
  Hub, Related,  \* the two TATS sources
  Data,          \* what a row says of a place
  NameOf,        \* the normalized title in it
  Near,          \* pairs in one province, of which no distance over 1 km is known
  SameArea,      \* pairs in one area
  Nothing,
  Times,         \* the times of records are 1..Times
  Limit          \* PLACE_CROSSWALK_BATCH

ASSUME CatalogAssumption ==
  /\ ContentIds \intersect Codes = {} /\ Korean \in Langs /\ Hub # Related
  /\ Nothing \notin ContentIds \union Codes \union Data
  /\ {Near, SameArea} \subseteq SUBSET (Data \X Data)
  /\ {Times, Limit} \subseteq Nat \ {0}

Places == ContentIds \union Codes
Sources == {Hub, Related}

VARIABLES
  place,      \* place[p]: [st, canon, data, at, seen]
  text,       \* text[p][l]: [data, at, seen, told]
  known,      \* known[l]: the contents with a source map of that language
  maps,       \* maps[s][c]: the place of a TATS identity
  order,      \* TATS identities in the order of their source maps
  relations,  \* relation rows: [source, code, place]
  remembered, \* remembered[s][c]: the place that the normalizer's session keeps
              \* for a TATS identity (session.info), Nothing if it has none
  strayed,    \* history: identities that were led to a TourAPI place from
              \* memory alone, until a row names that place
  scan        \* what the crosswalk has decided: [on, attach]

catalogVars == <<place, text, known, maps, order, relations, remembered, strayed, scan>>

\* "at" is the time of the record a row shows, "seen" that of its newest
\* evidence of formula place_identity_v1, "told" the time of the detail that
\* gave it its overview, 0 if it has none.
NoPlace == [st |-> "none", canon |-> Nothing, data |-> Nothing, at |-> 0, seen |-> 0]
NoText == [data |-> Nothing, at |-> 0, seen |-> 0, told |-> 0]
Idle == [on |-> FALSE, attach |-> {}]

CatalogInit ==
  /\ place = [p \in Places |-> NoPlace]
  /\ text = [p \in Places |-> [l \in Langs |-> NoText]]
  /\ known = [l \in Langs |-> {}]
  /\ maps = [s \in Sources |-> [c \in Codes |-> Nothing]]
  /\ order = <<>>
  /\ relations = {}
  /\ remembered = [s \in Sources |-> [c \in Codes |-> Nothing]]
  /\ strayed = {}
  /\ scan = Idle

-----------------------------------------------------------------------------
\* The rows of one place, its texts and the identities that lead to it, as a
\* normalizer changes them: a hub row once, a related row twice.
Tables == [place |-> place, text |-> text, maps |-> maps, order |-> order,
           remembered |-> remembered, strayed |-> strayed]

\* mutant of Accepts: every record is accepted.
AcceptsAll(row, t) == TRUE

\* _output_accepts_raw
Accepts(row, t) == row.seen <= t
Evidence(row, t) == [row EXCEPT !.seen = Max({@, t})]

PlaceRow(row, d, t) ==
  Evidence(IF Accepts(row, t) THEN [row EXCEPT !.st = "active", !.data = d, !.at = t] ELSE row, t)
TextRow(row, d, t) ==
  Evidence(IF Accepts(row, t) THEN [row EXCEPT !.data = d, !.at = t] ELSE row, t)

\* normalize_tour_catalog_run for one row: the overview it does not have is kept.
TourRow(l, c) ==
  \E d \in Data, t \in 1..Times :
    /\ place' = [place EXCEPT ![c] = PlaceRow(@, d, t)]
    /\ text' = [text EXCEPT ![c][l] = TextRow(@, d, t)]
    /\ known' = [known EXCEPT ![l] = @ \union {c}]
    /\ UNCHANGED <<maps, order, relations, remembered, strayed, scan>>

\* _apply_tour_details for one row: details never mint places.  No times are
\* compared: the overview is that of the detail that was normalized last.
DetailRow(l, c) ==
  \E t \in 1..Times :
    /\ c \in known[l]
    /\ text' = [text EXCEPT ![c][l] = Evidence([@ EXCEPT !.told = t], t)]
    /\ place' = [place EXCEPT ![c] = Evidence(@, t)]
    /\ UNCHANGED <<known, maps, order, relations, remembered, strayed, scan>>

-----------------------------------------------------------------------------
\* alias_place_ids: what the reader of a place looks at.
AliasIds(p) == {p} \union {q \in Places : place[q].canon = p}
IsServed(p) == place[p].st = "active" /\ place[p].canon = Nothing

\* match_tour_place: the one TourAPI place with this name that is near enough;
\* among several, those in the area of the row count first.  It reads the titles
\* as they are; the code keeps those of a province for the session.
Match(title, spot) ==
  LET named == {c \in known[Korean] :
        /\ IsServed(c)
        /\ text[c][Korean].data # Nothing
        /\ NameOf[text[c][Korean].data] = NameOf[title]
        /\ <<spot, place[c].data>> \in Near}
      here == {c \in named : <<spot, place[c].data>> \in SameArea}
      left == IF Cardinality(named) > 1 /\ here # {} THEN here ELSE named
  IN IF Cardinality(left) = 1 THEN CHOOSE c \in left : TRUE ELSE Nothing

Listed(identity, list) == \E i \in DOMAIN list : list[i] = identity
Mapped(tb, s, c, p) ==
  [tb EXCEPT !.maps[s][c] = p, !.order = IF Listed(<<s, c>>, @) THEN @ ELSE Append(@, <<s, c>>)]

\* mutant of Retired: an identity is attached and its minted place stays.
RetiredNever(row, p) == row

\* attach_place_alias: the identity leads to the TourAPI place, and only the
\* place that its code minted is retired.
Retired(row, p) ==
  IF row.st # "none" /\ row.canon = Nothing
  THEN [row EXCEPT !.st = "merged", !.canon = p]
  ELSE row

AttachAlias(tb, s, c, p) ==
  [Mapped(tb, s, c, p) EXCEPT !.place[c] = Retired(@, p), !.remembered[s][c] = p,
                              !.strayed = @ \ {<<s, c>>}]

\* _existing_place_id: what the session remembers, even from a row that was
\* rolled back, comes before what the source map says, whatever that place has
\* become; an identity without either mints a place.
Standing(tb, s, c) ==
  IF tb.remembered[s][c] # Nothing THEN tb.remembered[s][c]
  ELSE IF tb.maps[s][c] # Nothing THEN tb.maps[s][c] ELSE c

\* A text that a refused row of the same session had inserted is remembered by
\* an id that was rolled back: the evidence of the next row goes astray ("lost").
Losable(c) ==
  IF text[c][Korean].seen = 0 /\ (\E s \in Sources : remembered[s][c] = c) THEN BOOLEAN ELSE {FALSE}

\* _upsert_place for a TATS row: attached if it certainly names a TourAPI
\* place, else written to the place where its identity stands.
Upsert(tb, s, c, d, t, lost) ==
  LET twin == Match(d, d)
      p == Standing(tb, s, c)
      old == tb.text[p][Korean]
      row == TextRow(old, d, t)
      written == [Mapped(tb, s, c, p) EXCEPT
        !.place[p] = PlaceRow(@, d, t),
        !.text[p][Korean] = IF lost /\ p \in Codes /\ old.seen = 0 THEN [row EXCEPT !.seen = old.seen] ELSE row,
        !.remembered[s][c] = p,
        !.strayed = IF p \in ContentIds /\ tb.maps[s][c] \notin ContentIds THEN @ \union {<<s, c>>} ELSE @]
  IN IF twin # Nothing THEN AttachAlias(tb, s, c, twin) ELSE written

Written(tb) ==
  /\ place' = tb.place /\ text' = tb.text /\ maps' = tb.maps
  /\ order' = tb.order /\ remembered' = tb.remembered /\ strayed' = tb.strayed

\* normalize_hub_run for one row: the place and its relation to itself.
HubRow(c) ==
  \E d \in Data, t \in 1..Times, lost \in Losable(c) :
    LET tb == Upsert(Tables, Hub, c, d, t, lost) IN
    /\ Written(tb)
    /\ relations' = relations \union {[source |-> Hub, code |-> c, place |-> tb.maps[Hub][c]]}
    /\ UNCHANGED <<known, scan>>

\* normalize_related_run for one row: two places and their relation.
RelatedRow(c, e) ==
  \E d \in Data, de \in Data, t \in 1..Times, lost \in Losable(c) \union Losable(e) :
    LET one == Upsert(Tables, Related, c, d, t, lost)
        tb == Upsert(one, Related, e, de, t, lost)
    IN
    /\ Written(tb)
    /\ relations' = relations \union
         {[source |-> Related, code |-> c, place |-> one.maps[Related][c]],
          [source |-> Related, code |-> e, place |-> tb.maps[Related][e]]}
    /\ UNCHANGED <<known, scan>>

\* A row of either source that is refused after a place of it was written, for
\* its period or rank or its second place: all is rolled back but the memory of
\* where the identity stood.
RefusedRow(s, c) ==
  \E d \in Data :
    /\ remembered' = [remembered EXCEPT ![s][c] =
         IF Match(d, d) # Nothing THEN Match(d, d) ELSE Standing(Tables, s, c)]
    /\ UNCHANGED <<place, text, known, maps, order, relations, strayed, scan>>

\* A run or a replay opens a session of its own.
NewSession ==
  /\ remembered' = [s \in Sources |-> [c \in Codes |-> Nothing]]
  /\ UNCHANGED <<place, text, known, maps, order, relations, strayed, scan>>

-----------------------------------------------------------------------------
(* The crosswalk job. *)

\* The first rows that lead to a place that is served; those that are attached
\* already are among them.
Candidates ==
  LET served == {i \in DOMAIN order : IsServed(maps[order[i][1]][order[i][2]])}
  IN {order[i] : i \in {j \in served : Cardinality({k \in served : k <= j}) <= Limit}}

Twin(c) == IF text[c][Korean].data = Nothing THEN Nothing
           ELSE Match(text[c][Korean].data, place[c].data)
Attachable(s, c) == maps[s][c] = c /\ Twin(c) # Nothing

\* crosswalk_tats_places, up to its first write: everything it reads.
CrosswalkScan ==
  /\ ~scan.on
  /\ scan' = [on |-> TRUE, attach |->
       {[source |-> i[1], code |-> i[2], twin |-> Twin(i[2])] :
         i \in {j \in Candidates : Attachable(j[1], j[2])}}]
  /\ UNCHANGED <<place, text, known, maps, order, relations, remembered, strayed>>

\* ... and its writes, attach_place_alias for each, which a deadline may cut
\* short.  All identities are listed already, and those of one code have one twin.
CrosswalkCommit ==
  /\ scan.on
  /\ \E done \in SUBSET scan.attach :
       LET Of(c) == {a \in done : a.code = c}
           TwinOf(c) == (CHOOSE a \in Of(c) : TRUE).twin
       IN
       /\ scan.attach # {} => done # {}
       /\ maps' = [s \in Sources |-> [c \in Codes |->
            IF \E a \in Of(c) : a.source = s THEN TwinOf(c) ELSE maps[s][c]]]
       /\ place' = [p \in Places |-> IF Of(p) # {} THEN Retired(place[p], TwinOf(p)) ELSE place[p]]
       /\ strayed' = strayed \ {<<a.source, a.code>> : a \in done}
  /\ scan' = Idle
  /\ UNCHANGED <<text, known, order, relations, remembered>>

CatalogNext ==
  \/ \E c \in ContentIds, l \in Langs : TourRow(l, c) \/ DetailRow(l, c)
  \/ \E c \in Codes : HubRow(c) \/ \E e \in Codes : RelatedRow(c, e)
  \/ \E s \in Sources, c \in Codes : RefusedRow(s, c)
  \/ NewSession
  \/ CrosswalkScan \/ CrosswalkCommit

CatalogSpec == CatalogInit /\ [][CatalogNext]_catalogVars

-----------------------------------------------------------------------------
PlaceType == [st : {"none", "active", "merged"}, canon : ContentIds \union {Nothing},
              data : Data \union {Nothing}, at : 0..Times, seen : 0..Times]
TextType == [data : Data \union {Nothing}, at : 0..Times, seen : 0..Times, told : 0..Times]

\* Every variable keeps its type.
CatalogTypeOK ==
  /\ place \in [Places -> PlaceType]
  /\ text \in [Places -> [Langs -> TextType]]
  /\ known \in [Langs -> SUBSET ContentIds]
  /\ maps \in [Sources -> [Codes -> Places \union {Nothing}]]
  /\ order \in Seq(Sources \X Codes)
  /\ relations \subseteq [source : Sources, code : Codes, place : Places]
  /\ remembered \in [Sources -> [Codes -> Places \union {Nothing}]]
  /\ strayed \subseteq Sources \X Codes
  /\ scan.attach \subseteq [source : Sources, code : Codes, twin : ContentIds]

\* Once an identity leads to a TourAPI place that a row or the crosswalk has
\* named for it, no relation it ever had is lost to the readers of that catalog,
\* who look at a served place and at the rows retired in favour of it: one of
\* them has the relation, however the two jobs interleave, whichever rows are
\* refused and whichever places the code has led to (place_crosswalk.py:171-184).
\* One led there from memory alone is excepted: attach_place_alias had noted the
\* place for a row that was refused (place_crosswalk.py:215), the next row of the
\* session is written to it, and the minted place stays with its relations.
RelationsAreRead ==
  \A r \in relations :
    maps[r.source][r.code] \in ContentIds /\ <<r.source, r.code>> \notin strayed =>
      \E c \in ContentIds : IsServed(c) /\ r.place \in AliasIds(c)

\* What a place shows, and the title and address of a TourAPI place, never give
\* way to an older record, in whatever order records of all languages, details
\* and TATS rows, refused ones among them, are normalized (places.py:136-190).
\* An overview has no such guard: that of an older detail, normalized again,
\* replaces a newer one (places.py:457-463).  What holds of it is that no
\* catalog or TATS row takes away an overview that a detail has brought
\* (places.py:217).
NothingGoesBack ==
  [][/\ \A p \in Places : place'[p].at >= place[p].at
     /\ \A c \in ContentIds, l \in Langs :
          /\ text'[c][l].at >= text[c][l].at
          /\ text[c][l].told # 0 => text'[c][l].told # 0]_catalogVars
=============================================================================
