--------------------------- MODULE PublishedReads ---------------------------
(***************************************************************************)
(* What the snapshot store promises its readers: for every lookup key one  *)
(* current version, replaced in a single step by another version of the    *)
(* same key.  No step takes a published key back to "nothing published",   *)
(* and no intermediate state of a publication, a restore or a cleanup can  *)
(* be read.                                                                *)
(***************************************************************************)
CONSTANTS
  Keys,       \* (endpoint, lookup key) pairs
  Versions,   \* snapshot ids
  KeyOf,      \* the key a version belongs to
  None        \* "no snapshot is published"

VARIABLES
  current,    \* what a reader of each key obtains now
  served      \* every version that some reader may have obtained

vars == <<current, served>>

Init ==
  /\ current = [k \in Keys |-> None]
  /\ served  = {}

Serve(v) ==
  /\ current' = [current EXCEPT ![KeyOf[v]] = v]
  /\ served' = served \union {v}

Next == \E v \in Versions : Serve(v)

Spec == Init /\ [][Next]_vars
=============================================================================
