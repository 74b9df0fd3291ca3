--------------------------- MODULE ResponseCache ---------------------------
(***************************************************************************)
(* ResponseCache (cache.rs): one server's cache, read by the request tasks *)
(* and written by the tasks they spawn, under an RwLock.                   *)
(*                                                                         *)
(* get holds the read lock throughout and is one step.  put reads the      *)
(* clock before it asks for the write lock: it is a step that prepares an  *)
(* entry and a step that inserts it, and other tasks run in between.       *)
(***************************************************************************)
EXTENDS CacheControl, FiniteSets

CONSTANTS
  Keys,        \* cache keys
  Responses,   \* responses of the targets: see ResponseType
  Requests,    \* Cache-Control lines of requests
  Putters,     \* put calls that may be in flight at once
  MaxSizes,    \* the values of max_size, 0 allowed
  DefaultTtl,  \* default_ttl
  MaxInstant,  \* the last time an Instant can hold
  MaxTime,     \* bound on the clock
  NoEntry,     \* no entry under a key
  NoAnswer     \* a miss

\* The headers and the status, as far as the cache looks at them.  expires is
\* the Expires header, as seconds from the receipt of the response.
ResponseType(r) ==
  /\ DOMAIN r = {"body", "cacheable", "lines", "expires"}
  /\ r.cacheable \in BOOLEAN  \* is the status one that is_cacheable lists?
  /\ r.lines \in HeaderLines
  /\ r.expires = None \/ r.expires \in Int

ASSUME ResponsesAssumption == \A r \in Responses : ResponseType(r)
ASSUME RequestsAssumption == Requests \subseteq HeaderLines
ASSUME SizeAssumption == MaxSizes \subseteq Nat /\ IsFiniteSet(Keys)
ASSUME TimeAssumption ==
  DefaultTtl \in Nat /\ MaxTime \in Nat /\ MaxInstant \in Nat

VARIABLES
  max_size, \* fixed when the cache is built
  now,      \* Instant::now()
  entries,  \* the HashMap: entries[k] is NoEntry when k is not in it
  size,     \* metrics.size
  puts,     \* the entry each put has prepared
  \* History:
  answer    \* what the last get returned

vars == <<max_size, now, entries, size, puts, answer>>

Cached == {k \in Keys : entries[k] # NoEntry}

Init ==
  /\ max_size \in MaxSizes
  /\ now = 0
  /\ entries = [k \in Keys |-> NoEntry]
  /\ size = 0
  /\ puts = [p \in Putters |-> NoEntry]
  /\ answer = NoAnswer

-----------------------------------------------------------------------------
(* get *)

StaleServed(entry) == TRUE  \* mutant: the expiry time is not compared
Unexpired(entry) == entry.expires_at > now

\* What the request's own directives let it be given.
Acceptable(entry, control) ==
  /\ ~control.no_cache
  /\ ~control.no_store
  /\ control.max_age # None => now - entry.created_at < control.max_age

Hit(k, q) ==
  /\ k \in Cached
  /\ Unexpired(entries[k])
  /\ Acceptable(entries[k], FromHeaders(q))

Get(k, q) ==
  /\ answer' = IF Hit(k, q) THEN entries[k] ELSE NoAnswer
  /\ UNCHANGED <<max_size, now, entries, size, puts>>

-----------------------------------------------------------------------------
(* put *)

CacheableByStatus(r) == r.cacheable  \* mutant: the directives are ignored

IsCacheable(r) ==
  LET control == FromHeaders(r.lines)
  IN  ~control.no_cache /\ ~control.no_store /\ r.cacheable

\* A date in the past is no date to parse_expires_header.
Ttl(r) ==
  LET age == FromHeaders(r.lines).max_age
  IN  IF age # None THEN age
      ELSE IF r.expires # None /\ r.expires >= 0 THEN r.expires
      ELSE DefaultTtl

NewEntry(k, r) ==
  [key |-> k, response |-> r, expires_at |-> now + Ttl(r),
   created_at |-> now, last_accessed |-> now]

UncheckedInstant(r) == TRUE  \* mutant: the addition is not checked

\* `now + ttl` panics when an Instant cannot hold it.
FitsInstant(r) == now + Ttl(r) <= MaxInstant

\* The task is spawned with a response.  One that is not cacheable, or whose
\* expiry time an Instant cannot hold (the addition panics), is over at once
\* and changes nothing; no lock is held yet.
Prepare(p, k, r) ==
  /\ puts[p] = NoEntry
  /\ IsCacheable(r)
  /\ FitsInstant(r)
  /\ puts' = [puts EXCEPT ![p] = NewEntry(k, r)]
  /\ UNCHANGED <<max_size, now, entries, size, answer>>

Newest == {k \in Cached : \A j \in Cached :  \* mutant: max_by_key
             entries[k].last_accessed >= entries[j].last_accessed}

\* The victims evict_lru may pick: min_by_key over a HashMap, whose order is
\* arbitrary between equal times.
Oldest == {k \in Cached : \A j \in Cached :
             entries[k].last_accessed <= entries[j].last_accessed}

FullLate == Cardinality(Cached) > max_size  \* mutant: off by one
Full == Cardinality(Cached) >= max_size

Without(victims) == [k \in Keys |-> IF k \in victims THEN NoEntry ELSE entries[k]]

Insert(p, victims) ==
  LET k == puts[p].key
  IN  /\ entries' = [Without(victims) EXCEPT ![k] = puts[p]]
      /\ size' = Cardinality((Cached \ victims) \cup {k})
      /\ puts' = [puts EXCEPT ![p] = NoEntry]
      /\ UNCHANGED <<max_size, now, answer>>

\* Under the write lock: make room, insert, update the size metric.
Commit(p) ==
  /\ puts[p] # NoEntry
  /\ IF Full /\ Cached # {} THEN \E k \in Oldest : Insert(p, {k})
                            ELSE Insert(p, {})

Tick ==
  /\ now < MaxTime
  /\ now' = now + 1
  /\ UNCHANGED <<max_size, entries, size, puts, answer>>

Next ==
  \/ \E k \in Keys, q \in Requests : Get(k, q)
  \/ \E p \in Putters, k \in Keys, r \in Responses : Prepare(p, k, r)
  \/ \E p \in Putters : Commit(p)
  \/ Tick

Spec == Init /\ [][Next]_vars

-----------------------------------------------------------------------------
(* What the cache is meant to promise: TtlStore. *)

\* By README.md:294-303: no-cache and no-store are honoured, max-age is the
\* lifetime, an Expires date comes second and the configured default last.
MayStore(r) == r.cacheable /\ ~Stated(r.lines, "no-cache") /\ ~Stated(r.lines, "no-store")

StatedLifetime == [r \in Responses |->
  IF StatedAges(r.lines) # {} THEN CHOOSE a \in StatedAges(r.lines) : TRUE
  ELSE IF r.expires # None THEN r.expires ELSE DefaultTtl]

\* Older than any entry can be.
AnyAge == MaxTime + 1

StatedPatience == [q \in Requests |->
  IF Stated(q, "no-cache") \/ Stated(q, "no-store") THEN 0
  ELSE IF StatedAges(q) # {} THEN CHOOSE a \in StatedAges(q) : TRUE
  ELSE AnyAge]

\* A copy in the abstract store is an entry without its bookkeeping.
CopyOf(e) == [key |-> e.key, response |-> e.response, since |-> e.created_at]

Store == INSTANCE TtlStore WITH
  Storable <- {r \in Responses : MayStore(r)},
  Lifetime <- StatedLifetime,
  Patience <- StatedPatience,
  offers   <- {CopyOf(puts[p]) : p \in {p \in Putters : puts[p] # NoEntry}},
  held     <- {CopyOf(entries[k]) : k \in Cached},
  answer   <- IF answer = NoAnswer THEN NoAnswer ELSE CopyOf(answer)

-----------------------------------------------------------------------------
(* Properties *)

Entry == [key : Keys, response : Responses, expires_at : 0..MaxInstant,
          created_at : 0..now, last_accessed : 0..now]

\* Types of the state: an entry stands under its own key, and no expiry time
\* overflows.
TypeOK ==
  /\ max_size \in MaxSizes
  /\ now \in 0..MaxTime
  /\ \A k \in Keys : entries[k] # NoEntry => entries[k] \in Entry /\ entries[k].key = k
  /\ size \in Nat
  /\ \A p \in Putters : puts[p] \in Entry \cup {NoEntry}
  /\ answer \in Entry \cup {NoAnswer}

\* However many puts are in flight, the cache never exceeds max_size
\* (README.md:423), but for the one entry of a cache of max_size 0, and the size
\* metric counts exactly what is in it (cache.rs:195-202).
Bounded == /\ Cardinality(Cached) <= (IF max_size = 0 THEN 1 ELSE max_size)
           /\ size = Cardinality(Cached)

\* The cache is a TtlStore: parsing, expiry, eviction and the two steps of put
\* together never give a request more than that store may.
ImplementsStore == Store!Spec

\* Responses with no-cache or no-store are never cached, in whatever line and
\* spelling they say so (README.md:303).
ForbiddenNeverCached ==
  \A k \in Cached : ~Stated(entries[k].response.lines, "no-cache")
                    /\ ~Stated(entries[k].response.lines, "no-store")

\* The keys a step drops to make room.
Evicted == Cached \ {k \in Keys : entries'[k] # NoEntry}

\* Nothing is dropped but to make room in a full cache, and what is dropped was
\* created no later than anything that stays: its put had read the clock no
\* later.  That says nothing of insertion, which comes after the lock and may be
\* in another order (cache.rs:178, 195-201, 254-264).
EvictsFirstCreated ==
  [][\A k \in Evicted :
       /\ Cardinality(Cached) >= max_size
       /\ \A j \in Cached \ Evicted : entries[k].created_at <= entries[j].created_at]_vars

=============================================================================
