------------------------------ MODULE ReadCache ------------------------------
(***************************************************************************)
(* The payload cache of the read repository (readmodels/repository.py).    *)
(* Requests run in threads; a request reads the head of its key from the   *)
(* snapshot of its own session, looks the payload up in the cache, and on  *)
(* a miss decodes the stored one and puts it into the cache.  The lock is  *)
(* held while the cache is looked at and while it is written, and not in   *)
(* between.  Payloads are named by their content.                          *)
(***************************************************************************)
EXTENDS Integers, Sequences, SequencesExt, FiniteSets

CONSTANTS
  Readers,       \* threads of the API
  Payloads,
  SizeOf,        \* the bytes that the objects of a decoded payload are charged
  Damaged,       \* payloads that do not decode
  MaxBytes,      \* PAYLOAD_CACHE_MAX_BYTES
  MaxEntries,    \* PAYLOAD_CACHE_MAX_ENTRIES
  NoPayload

ASSUME CacheAssumption ==
  /\ SizeOf \in [Payloads -> Nat] /\ Damaged \subseteq Payloads
  /\ MaxBytes \in Nat /\ MaxEntries \in Nat \ {0} /\ NoPayload \notin Payloads

VARIABLES
  head,      \* the payload of the head that a new session sees
  cache,     \* the cached payloads, the least recently used first
  bytes,     \* _payload_cache_bytes
  reader     \* reader[r]: [at, wants, got]

cacheVars == <<head, cache, bytes, reader>>

Resting == [at |-> "idle", wants |-> NoPayload, got |-> NoPayload]

CacheInit ==
  /\ head = NoPayload
  /\ cache = <<>>
  /\ bytes = 0
  /\ reader = [r \in Readers |-> Resting]

Goes(r, to) == reader' = [reader EXCEPT ![r].at = to]
Serves(r, p) == reader' = [reader EXCEPT ![r].at = "served", ![r].got = p]

\* An entry is taken out of the cache by its key.
Without(p) ==
  IF Contains(cache, p) THEN RemoveAt(cache, CHOOSE i \in DOMAIN cache : cache[i] = p) ELSE cache

\* The bytes of the first n payloads of a list, and of all of them.
Sums(list) ==
  LET sum[n \in 0..Len(list)] == IF n = 0 THEN 0 ELSE sum[n - 1] + SizeOf[list[n]]
  IN sum
Total(list) == Sums(list)[Len(list)]

-----------------------------------------------------------------------------
\* A product is published, taken back or withdrawn.
HeadMoves ==
  /\ head' \in (Payloads \union {NoPayload}) \ {head}
  /\ UNCHANGED <<cache, bytes, reader>>

\* _current_snapshot, up to the payload's id: no head, nothing to serve.
ReadHead(r) ==
  /\ reader[r].at = "idle"
  /\ reader' = [reader EXCEPT ![r] =
       [at |-> IF head = NoPayload THEN "served" ELSE "look", wants |-> head, got |-> NoPayload]]
  /\ UNCHANGED <<head, cache, bytes>>

\* _cached_payload: a hit becomes the most recently used.
Look(r) ==
  LET p == reader[r].wants IN
  /\ reader[r].at = "look"
  /\ IF Contains(cache, p)
     THEN cache' = Append(Without(p), p) /\ Serves(r, p)
     ELSE cache' = cache /\ Goes(r, "decode")
  /\ UNCHANGED <<head, bytes>>

\* decode_payload: one that does not decode is not served.
Decode(r) ==
  /\ reader[r].at = "decode"
  /\ IF reader[r].wants \in Damaged THEN Serves(r, NoPayload) ELSE Goes(r, "store")
  /\ UNCHANGED <<head, cache, bytes>>

\* _store_payload: the least recently used make room, until the new one fits
\* or the cache is empty; what another request stored meanwhile is replaced.
Left(list, used, n) == used - Sums(list)[n]
Fits(list, used, size, n) == Left(list, used, n) + size <= MaxBytes /\ Len(list) - n < MaxEntries
Evicted(list, used, size) ==
  CHOOSE n \in 0..Len(list) :
    /\ n = Len(list) \/ Fits(list, used, size, n)
    /\ \A k \in 0..(n - 1) : ~Fits(list, used, size, k)

\* mutant of Uncharged: the size of the entry that is replaced stays charged.
UnchargedNever(p) == bytes

Uncharged(p) == IF Contains(cache, p) THEN bytes - SizeOf[p] ELSE bytes

StorePayload(r) ==
  LET p == reader[r].wants
      list == Without(p)
      out == Evicted(list, Uncharged(p), SizeOf[p])
  IN
  /\ reader[r].at = "store"
  /\ IF SizeOf[p] > MaxBytes THEN UNCHANGED <<cache, bytes>>
     ELSE /\ cache' = Append(SubSeq(list, out + 1, Len(list)), p)
          /\ bytes' = Left(list, Uncharged(p), out) + SizeOf[p]
  /\ Serves(r, p)
  /\ UNCHANGED head

Respond(r) ==
  /\ reader[r].at = "served"
  /\ reader' = [reader EXCEPT ![r] = Resting]
  /\ UNCHANGED <<head, cache, bytes>>

CacheNext ==
  \/ HeadMoves
  \/ \E r \in Readers : ReadHead(r) \/ Look(r) \/ Decode(r) \/ StorePayload(r) \/ Respond(r)

CacheSpec == CacheInit /\ [][CacheNext]_cacheVars

-----------------------------------------------------------------------------
\* Every variable keeps its type.
CacheTypeOK ==
  /\ head \in Payloads \union {NoPayload}
  /\ cache \in Seq(Payloads)
  /\ bytes \in Int
  /\ reader \in [Readers ->
       [at : {"idle", "look", "decode", "store", "served"},
        wants : Payloads \union {NoPayload}, got : Payloads \union {NoPayload}]]

\* However many requests miss the same payload at once, the cache holds it once,
\* its account is the sum of what it holds, and both limits hold: an account
\* that drifted would keep the cache empty for ever or let it grow without end
\* (repository.py:472-492).
AccountIsTrue ==
  /\ bytes = Total(cache)
  /\ bytes <= MaxBytes /\ Len(cache) <= MaxEntries
  /\ IsInjective(cache)
=============================================================================
