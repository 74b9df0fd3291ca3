---------------------------- MODULE CacheProofs ----------------------------
(***************************************************************************)
(* Proofs about ResponseCache, for any finite set of keys, any responses   *)
(* and requests, any number of puts in flight and any max_size.            *)
(***************************************************************************)
EXTENDS ResponseCache, FiniteSetTheorems, WellFoundedInduction, TLAPS

-----------------------------------------------------------------------------
(* Parsing *)

Line == Seq(AnyDirective)

\* A non-empty set of positions has a last one.
LEMMA LastPosition ==
  ASSUME NEW n \in Nat, NEW S \in SUBSET (1..n), S # {}
  PROVE  \E i \in S : \A j \in S : j <= i
<1> DEFINE T == {n - i : i \in S}
<1>1. T \subseteq Nat /\ T # {}
  <2>1. \A i \in S : n - i \in Nat
    OBVIOUS
  <2> QED
    BY <2>1
<1>2. PICK x \in T : \A y \in T : ~(<<y, x>> \in OpToRel(<, Nat))
  BY <1>1, NatLessThanWellFounded, WFMin
<1>3. PICK i \in S : x = n - i
  OBVIOUS
<1>4. \A j \in S : ~(n - j < n - i)
  BY <1>1, <1>2, <1>3 DEF OpToRel
<1> QED
  BY <1>4

\* The elements of a line are directives.
LEMMA DirectiveOf ==
  ASSUME NEW line \in Line, NEW i \in 1..Len(line)
  PROVE  line[i] \in AnyDirective
BY DEF Line

\* What is read of a line is the argument of one of the max-ages that parse, if
\* there is any.
LEMMA AgeRead ==
  ASSUME NEW line \in Line, Ages(line) # {}
  PROVE  \E i \in Ages(line) : MaxAgeOf(line) = line[i].arg
<1>1. Len(line) \in Nat /\ Ages(line) \subseteq 1..Len(line)
  BY DEF Ages, Line
<1>2. \E i \in Ages(line) : \A j \in Ages(line) : j <= i
  BY <1>1, LastPosition
<1> QED
  BY <1>2, Zenon DEF MaxAgeOf

\* What from_headers reads is a line, if only an empty one.
LEMMA ReadLineType ==
  ASSUME NEW lines \in HeaderLines
  PROVE  ReadLine(lines) \in Line
BY DEF ReadLine, HeaderLines, Line

\* No number is mistaken for a missing one.
LEMMA AgeType ==
  ASSUME NEW line \in Line
  PROVE  /\ MaxAgeOf(line) \in Nat \cup {None}
         /\ MaxAgeOf(line) = None <=> Ages(line) = {}
<1>1. CASE Ages(line) = {}
  BY <1>1 DEF MaxAgeOf
<1>2. CASE Ages(line) # {}
  <2>1. PICK i \in Ages(line) : MaxAgeOf(line) = line[i].arg
    BY <1>2, AgeRead
  <2>2. i \in 1..Len(line) /\ line[i].arg # None
    BY <2>1 DEF Ages
  <2>3. line[i].arg \in Nat
    BY <2>2, DirectiveOf DEF AnyDirective
  <2> QED
    BY <1>2, <2>1, <2>3, NoneAssumption
<1> QED
  BY <1>1, <1>2

\* The lifetime given to a response is never negative.
LEMMA TtlType ==
  ASSUME NEW r \in Responses
  PROVE  Ttl(r) \in Nat
<1>1. r.lines \in HeaderLines /\ (r.expires = None \/ r.expires \in Int)
  BY ResponsesAssumption DEF ResponseType
<1>2. MaxAgeOf(ReadLine(r.lines)) \in Nat \cup {None}
  BY <1>1, ReadLineType, AgeType
<1> QED
  BY <1>1, <1>2, TimeAssumption DEF Ttl, FromHeaders

-----------------------------------------------------------------------------
(* Types *)

Filled == Entry \cup {NoEntry}

TypeInv ==
  /\ TypeOK
  /\ entries \in [Keys -> Filled]
  /\ puts \in [Putters -> Filled]

\* The types hold initially.
LEMMA TypeInit == Init => TypeInv
BY TimeAssumption, SizeAssumption DEF Init, TypeInv, TypeOK, Filled, Cached

\* What put prepares is an entry.
LEMMA NewEntryType ==
  ASSUME TypeInv, NEW k \in Keys, NEW r \in Responses, FitsInstant(r)
  PROVE  NewEntry(k, r) \in Entry
<1>1. Ttl(r) \in Nat /\ now \in Nat
  BY TtlType, TimeAssumption DEF TypeInv, TypeOK
<1> QED
  BY <1>1, TimeAssumption DEF NewEntry, Entry, FitsInstant

\* Inserting keeps the types, whatever is evicted for it.
LEMMA InsertType ==
  ASSUME TypeInv, NEW p \in Putters, puts[p] # NoEntry,
         NEW victims \in SUBSET Keys, Insert(p, victims)
  PROVE  TypeInv'
<1>1. puts[p] \in Entry /\ puts[p].key \in Keys
  BY DEF TypeInv, TypeOK, Entry, Filled
<1>2. Entry' = Entry /\ Filled' = Filled
  BY DEF Insert, Entry, Filled
<1>3. entries' = [Without(victims) EXCEPT ![puts[p].key] = puts[p]]
  BY DEF Insert
<1>4. entries' \in [Keys -> Filled]
  BY <1>1, <1>3 DEF Without, TypeInv, Filled
<1>5. \A k \in Keys : entries'[k] # NoEntry => entries'[k] \in Entry /\ entries'[k].key = k
  BY <1>1, <1>3 DEF Without, TypeInv, TypeOK
<1>6. puts' \in [Putters -> Filled]
  BY DEF Insert, TypeInv, Filled
<1>7. size' \in Nat
  <2>1. IsFiniteSet((Cached \ victims) \cup {puts[p].key})
    BY <1>1, SizeAssumption, FS_Subset DEF Cached
  <2> QED
    BY <2>1, FS_CardinalityType DEF Insert
<1>8. UNCHANGED <<max_size, now, answer>>
  BY DEF Insert
<1> QED
  BY <1>2, <1>4, <1>5, <1>6, <1>7, <1>8 DEF TypeInv, TypeOK, Filled

\* A commit inserts what was prepared and evicts at most one cached key, the
\* oldest one of a full cache.
LEMMA CommitInserts ==
  ASSUME NEW p \in Putters, Commit(p)
  PROVE  /\ puts[p] # NoEntry
         /\ \/ Insert(p, {}) /\ (Cached = {} \/ ~Full)
            \/ Full /\ \E k \in Oldest : Insert(p, {k})
BY DEF Commit

\* Every action keeps the types.
LEMMA TypeStep == TypeInv /\ [Next]_vars => TypeInv'
<1> SUFFICES ASSUME TypeInv, [Next]_vars PROVE TypeInv'
  OBVIOUS
<1>1. CASE \E k \in Keys, q \in Requests : Get(k, q)
  <2>1. PICK k \in Keys, q \in Requests : Get(k, q)
    BY <1>1
  <2>2. Entry' = Entry /\ Filled' = Filled
    BY <2>1 DEF Get, Entry, Filled
  <2>3. answer' \in Entry \cup {NoAnswer}
    BY <2>1 DEF Get, Hit, Cached, TypeInv, TypeOK
  <2> QED
    BY <2>1, <2>2, <2>3 DEF Get, TypeInv, TypeOK
<1>2. CASE \E p \in Putters, k \in Keys, r \in Responses : Prepare(p, k, r)
  <2>1. PICK p \in Putters, k \in Keys, r \in Responses : Prepare(p, k, r)
    BY <1>2
  <2>2. Entry' = Entry /\ Filled' = Filled
    BY <2>1 DEF Prepare, Entry, Filled
  <2>3. puts' \in [Putters -> Filled]
    BY <2>1, NewEntryType DEF Prepare, TypeInv, Filled
  <2> QED
    BY <2>1, <2>2, <2>3 DEF Prepare, TypeInv, TypeOK, Filled
<1>3. CASE \E p \in Putters : Commit(p)
  <2>1. PICK p \in Putters : Commit(p)
    BY <1>3
  <2>2. \E victims \in SUBSET Keys : Insert(p, victims)
    BY <2>1, CommitInserts DEF Oldest, Cached
  <2> QED
    BY <2>1, <2>2, CommitInserts, InsertType
<1>4. CASE Tick
  <2>1. now \in Nat /\ now' = now + 1 /\ now' \in 0..MaxTime
    BY <1>4, TimeAssumption DEF Tick, TypeInv, TypeOK
  <2>2. Entry \subseteq Entry'
    BY <2>1 DEF Entry
  <2>3. entries' = entries /\ puts' = puts /\ UNCHANGED <<max_size, size, answer>>
    BY <1>4 DEF Tick
  <2> QED
    BY <2>1, <2>2, <2>3 DEF TypeInv, TypeOK, Filled
<1>5. CASE UNCHANGED vars
  BY <1>5 DEF vars, TypeInv, TypeOK, Entry, Filled
<1> QED
  BY <1>1, <1>2, <1>3, <1>4, <1>5 DEF Next

\* The types hold of every reachable state: an entry stands under its own key,
\* and the checked addition of put keeps every expiry time within an Instant.
THEOREM TypeCorrect == Spec => []TypeOK
<1>1. TypeInv => TypeOK
  BY DEF TypeInv
<1> QED
  BY TypeInit, TypeStep, <1>1, PTL DEF Spec

-----------------------------------------------------------------------------
(* Size and eviction *)

BoundInv == TypeInv /\ Bounded

\* One element more, and one in the place of another.
LEMMA AddedCount ==
  ASSUME NEW S, IsFiniteSet(S), NEW x
  PROVE  /\ Cardinality(S \cup {x}) \in Nat
         /\ Cardinality(S \cup {x}) <= Cardinality(S) + 1
<1>1. Cardinality(S) \in Nat
  BY FS_CardinalityType
<1>2. Cardinality(S \cup {x}) = IF x \in S THEN Cardinality(S) ELSE Cardinality(S) + 1
  BY FS_AddElement
<1> QED
  BY <1>1, <1>2

\* One in, one out: a set does not grow.
LEMMA ReplacedCount ==
  ASSUME NEW S, IsFiniteSet(S), NEW v \in S, NEW x
  PROVE  /\ Cardinality((S \ {v}) \cup {x}) \in Nat
         /\ Cardinality((S \ {v}) \cup {x}) <= Cardinality(S)
<1>1. Cardinality(S) \in Nat
  BY FS_CardinalityType
<1>2. IsFiniteSet(S \ {v}) /\ Cardinality(S \ {v}) = Cardinality(S) - 1
  BY FS_RemoveElement
<1>3. /\ Cardinality((S \ {v}) \cup {x}) \in Nat
      /\ Cardinality((S \ {v}) \cup {x}) <= Cardinality(S \ {v}) + 1
  BY <1>2, AddedCount
<1> QED
  BY <1>1, <1>2, <1>3

\* There are finitely many keys, and so finitely many entries.
LEMMA CachedFinite ==
  /\ IsFiniteSet(Cached)
  /\ Cardinality(Cached) \in Nat
BY SizeAssumption, FS_Subset, FS_CardinalityType DEF Cached

\* What is cached after an insertion.
LEMMA CachedAfter ==
  ASSUME TypeInv, NEW p \in Putters, puts[p] # NoEntry,
         NEW victims \in SUBSET Keys, Insert(p, victims)
  PROVE  /\ puts[p].key \in Keys
         /\ Cached' = (Cached \ victims) \cup {puts[p].key}
         /\ size' = Cardinality(Cached')
<1>1. puts[p] \in Entry /\ puts[p].key \in Keys
  BY DEF TypeInv, TypeOK, Entry, Filled
<1>2. entries' = [Without(victims) EXCEPT ![puts[p].key] = puts[p]]
  BY DEF Insert
<1>3. \A k \in Keys :
        entries'[k] = IF k = puts[p].key THEN puts[p]
                      ELSE IF k \in victims THEN NoEntry ELSE entries[k]
  BY <1>1, <1>2 DEF Without
<1>4. Cached' = (Cached \ victims) \cup {puts[p].key}
  BY <1>1, <1>3 DEF Cached
<1> QED
  BY <1>1, <1>4 DEF Insert

\* The empty cache is bounded.
LEMMA BoundInit == Init => Bounded
<1> SUFFICES ASSUME Init PROVE Bounded
  OBVIOUS
<1>1. Cached = {} /\ size = 0 /\ max_size \in Nat
  BY SizeAssumption DEF Init, Cached
<1> QED
  BY <1>1, FS_EmptySet DEF Bounded

\* Room is made before an insertion: it adds at most as many keys as it evicts,
\* unless the cache is not full, or is one of max_size 0.
LEMMA CommitBound ==
  ASSUME BoundInv, NEW p \in Putters, Commit(p)
  PROVE  Bounded'
<1>1. max_size \in Nat /\ max_size' = max_size
  BY SizeAssumption DEF BoundInv, TypeInv, TypeOK, Commit, Insert
<1>2. CASE Insert(p, {}) /\ (Cached = {} \/ ~Full)
  <2>1. Cached' = Cached \cup {puts[p].key} /\ size' = Cardinality(Cached')
    BY <1>2, CommitInserts, CachedAfter DEF BoundInv
  <2>2. /\ Cardinality(Cached') \in Nat
        /\ Cardinality(Cached') <= Cardinality(Cached) + 1
    BY <2>1, CachedFinite, AddedCount
  <2>3. CASE ~Full
    BY <1>1, <2>1, <2>2, <2>3, CachedFinite DEF Full, Bounded
  <2>4. CASE Cached = {}
    <3>1. Cardinality(Cached) = 0
      BY <2>4, FS_EmptySet
    <3>2. Cardinality(Cached') <= 1
      BY <2>2, <3>1
    <3> QED
      BY <1>1, <2>1, <2>2, <3>2 DEF Bounded
  <2> QED
    BY <1>2, <2>3, <2>4
<1>3. ASSUME NEW k \in Oldest, Insert(p, {k})
      PROVE  Bounded'
  <2>1. k \in Cached /\ k \in Keys
    BY DEF Oldest, Cached
  <2>2. Cached' = (Cached \ {k}) \cup {puts[p].key} /\ size' = Cardinality(Cached')
    BY <1>3, <2>1, CommitInserts, CachedAfter DEF BoundInv
  <2>3. /\ Cardinality(Cached') \in Nat
        /\ Cardinality(Cached') <= Cardinality(Cached)
    BY <2>1, <2>2, CachedFinite, ReplacedCount
  <2> QED
    BY <1>1, <2>2, <2>3, CachedFinite DEF Bounded, BoundInv
<1> QED
  BY <1>2, <1>3, CommitInserts

\* Only Commit changes the entries.
LEMMA BoundStep == BoundInv /\ [Next]_vars => Bounded'
<1> SUFFICES ASSUME BoundInv, [Next]_vars PROVE Bounded'
  OBVIOUS
<1>1. CASE \E p \in Putters : Commit(p)
  BY <1>1, CommitBound
<1>2. CASE UNCHANGED <<max_size, entries, size>>
  BY <1>2 DEF BoundInv, Bounded, Cached
<1> QED
  BY <1>1, <1>2 DEF Next, Get, Prepare, Tick, vars

\* However many puts have prepared an entry, each makes room in the critical
\* section in which it inserts: the cache never outgrows max_size, but for the
\* one entry of a cache of max_size 0, and the size metric is never wrong.
THEOREM BoundedCorrect == Spec => []Bounded
<1>1. Init => BoundInv
  BY TypeInit, BoundInit DEF BoundInv
<1>2. BoundInv /\ [Next]_vars => BoundInv'
  BY TypeStep, BoundStep DEF BoundInv
<1>3. BoundInv => Bounded
  BY DEF BoundInv
<1> QED
  BY <1>1, <1>2, <1>3, PTL DEF Spec

\* An entry only moves: from put, which prepares it, to its key.
LEMMA EntriesMove ==
  ASSUME TypeInv, [Next]_vars
  PROVE  /\ \A k \in Keys : \/ entries'[k] \in {NoEntry, entries[k]}
                            \/ \E p \in Putters : entries'[k] = puts[p]
         /\ \A p \in Putters :
              \/ puts'[p] \in {NoEntry, puts[p]}
              \/ \E k \in Keys, r \in Responses :
                   IsCacheable(r) /\ FitsInstant(r) /\ puts'[p] = NewEntry(k, r)
<1>1. CASE \E p \in Putters, k \in Keys, r \in Responses : Prepare(p, k, r)
  <2>1. PICK p \in Putters, k \in Keys, r \in Responses : Prepare(p, k, r)
    BY <1>1
  <2>2. \A o \in Putters : puts'[o] = IF o = p THEN NewEntry(k, r) ELSE puts[o]
    BY <2>1 DEF Prepare, TypeInv
  <2> QED
    BY <2>1, <2>2 DEF Prepare
<1>2. CASE \E p \in Putters : Commit(p)
  <2>1. PICK p \in Putters : Commit(p)
    BY <1>2
  <2>2. PICK victims \in SUBSET Keys : Insert(p, victims)
    BY <2>1, CommitInserts DEF Oldest, Cached
  <2>3. puts[p].key \in Keys
    BY <2>1, <2>2, CommitInserts, CachedAfter
  <2>4. \A k \in Keys : entries'[k] \in {puts[p], NoEntry, entries[k]}
    BY <2>2, <2>3 DEF Insert, Without
  <2>5. \A o \in Putters : puts'[o] \in {NoEntry, puts[o]}
    BY <2>2 DEF Insert, TypeInv
  <2> QED
    BY <2>4, <2>5
<1>3. CASE UNCHANGED <<entries, puts>>
  BY <1>3
<1> QED
  BY <1>1, <1>2, <1>3 DEF Next, Get, Tick, vars

\* No entry is marked as read: get stores nothing.
Unread(e) == e # NoEntry => e.last_accessed = e.created_at

UnreadInv ==
  /\ TypeInv
  /\ \A k \in Keys : Unread(entries[k])
  /\ \A p \in Putters : Unread(puts[p])

\* There is no entry that could have been read.
LEMMA UnreadInit == Init => UnreadInv
BY TypeInit DEF Init, UnreadInv, Unread

\* No action changes when an entry was last accessed.
LEMMA UnreadStep == UnreadInv /\ [Next]_vars => UnreadInv'
<1> SUFFICES ASSUME UnreadInv, [Next]_vars PROVE UnreadInv'
  OBVIOUS
<1>1. TypeInv /\ TypeInv'
  BY TypeStep DEF UnreadInv
<1>2. \A k \in Keys, r \in Responses : Unread(NewEntry(k, r))
  BY DEF Unread, NewEntry
<1>3. \A p \in Putters : Unread(puts'[p])
  BY <1>1, <1>2, EntriesMove DEF UnreadInv, Unread
<1>4. \A k \in Keys : Unread(entries'[k])
  BY <1>1, EntriesMove DEF UnreadInv, Unread
<1> QED
  BY <1>1, <1>3, <1>4 DEF UnreadInv, Unread

\* The victim of a step, if there is one, was the oldest entry of a full cache.
LEMMA EvictionStep ==
  ASSUME UnreadInv, [Next]_vars, NEW k \in Evicted
  PROVE  /\ Cardinality(Cached) >= max_size
         /\ \A j \in Cached \ Evicted : entries[k].created_at <= entries[j].created_at
<1>1. PICK p \in Putters : Commit(p)
  <2>1. entries' # entries
    BY DEF Evicted, Cached
  <2> QED
    BY <2>1 DEF Next, Get, Prepare, Tick, vars
<1>2. TypeInv /\ k \in Keys /\ k \in Cached
  BY DEF UnreadInv, Evicted, Cached
<1>3. ~Insert(p, {})
  <2>1. SUFFICES ASSUME Insert(p, {}) PROVE FALSE
    OBVIOUS
  <2>2. k \in Cached'
    BY <1>1, <1>2, <2>1, CommitInserts, CachedAfter
  <2> QED
    BY <2>2 DEF Evicted, Cached
<1>4. PICK v \in Oldest : Full /\ Insert(p, {v})
  BY <1>1, <1>3, CommitInserts
<1>5. k = v
  <2>1. SUFFICES ASSUME k # v PROVE FALSE
    OBVIOUS
  <2>2. v \in Keys
    BY DEF Oldest, Cached
  <2>3. k \in Cached'
    BY <1>1, <1>2, <1>4, <2>1, <2>2, CommitInserts, CachedAfter
  <2> QED
    BY <2>3 DEF Evicted, Cached
<1>6. \A j \in Cached : entries[k].last_accessed <= entries[j].last_accessed
  BY <1>5 DEF Oldest
<1>7. \A j \in Cached : entries[j].last_accessed = entries[j].created_at
  BY DEF UnreadInv, Unread, Cached
<1> QED
  BY <1>2, <1>4, <1>6, <1>7 DEF Full

\* Nothing is evicted from a cache that is not full, and the put of what is
\* evicted read the clock no later than that of anything that stays: get does not
\* touch last_accessed, so that the least recently used is the first created.
\* Puts that overlap may have been inserted in the other order.
THEOREM EvictionCorrect == Spec => EvictsFirstCreated
<1>1. UnreadInv /\ [Next]_vars =>
        [\A k \in Evicted :
           /\ Cardinality(Cached) >= max_size
           /\ \A j \in Cached \ Evicted :
                entries[k].created_at <= entries[j].created_at]_vars
  BY EvictionStep
<1> QED
  BY UnreadInit, UnreadStep, <1>1, PTL DEF Spec, EvictsFirstCreated

-----------------------------------------------------------------------------
(* Headers the parser reads as they are meant *)

\* On one line, in lower case.
OnOneLine(lines) == Len(lines) <= 1 /\ \A d \in Directives(lines) : d.lower

\* With one lifetime, if any.
OneAge(lines) == \A a, b \in StatedAges(lines) : a = b

PlainResponses == \A r \in Responses : OnOneLine(r.lines)

\* Enough for the parser to do what the headers say: without it TLC finds
\* responses cached that should not be.  Expires dates are ahead, too.
PlainHeaders ==
  /\ PlainResponses
  /\ \A r \in Responses : OneAge(r.lines) /\ (r.expires # None => r.expires >= 0)
  /\ \A q \in Requests : OnOneLine(q) /\ OneAge(q)

\* A sequence that is not empty and not longer than one element has one.
LEMMA OneElement ==
  ASSUME NEW S, NEW s \in Seq(S), s # <<>>, Len(s) <= 1
  PROVE  Len(s) = 1
<1>1. Len(s) \in Nat /\ Len(s) # 0
  OBVIOUS
<1>2. \A n \in Nat : n # 0 /\ n <= 1 => n = 1
  OBVIOUS
<1> QED
  BY <1>1, <1>2, Zenon

\* A header on one line is read as it stands.
LEMMA OnlyLine ==
  ASSUME NEW lines \in HeaderLines, Len(lines) <= 1
  PROVE  Directives(lines) =
           {ReadLine(lines)[i] : i \in 1..Len(ReadLine(lines))}
<1>1. CASE lines = <<>>
  BY <1>1 DEF Directives, ReadLine
<1>2. CASE lines # <<>>
  <2>1. Len(lines) = 1
    <3>1. lines \in Seq(Seq(AnyDirective))
      BY DEF HeaderLines
    <3> QED
      BY <1>2, <3>1, OneElement
  <2> QED
    BY <1>2, <2>1 DEF Directives, ReadLine
<1> QED
  BY <1>1, <1>2

\* What plain lines state is what is read of them.
LEMMA StatedIsRead ==
  ASSUME NEW lines \in HeaderLines, OnOneLine(lines)
  PROVE  /\ \A name \in Names : Stated(lines, name) <=> Says(ReadLine(lines), name)
         /\ StatedAges(lines) = {ReadLine(lines)[i].arg : i \in Ages(ReadLine(lines))}
<1>1. Directives(lines) = {ReadLine(lines)[i] : i \in 1..Len(ReadLine(lines))}
  BY OnlyLine DEF OnOneLine
<1>2. \A d \in Directives(lines) : d.lower
  BY DEF OnOneLine
<1>3. \A name \in Names : Stated(lines, name) <=> Says(ReadLine(lines), name)
  BY <1>1, <1>2 DEF Stated, Says
<1>4. StatedAges(lines) = {ReadLine(lines)[i].arg : i \in Ages(ReadLine(lines))}
  BY <1>1, <1>2 DEF StatedAges, Ages
<1> QED
  BY <1>3, <1>4

\* A single max-age is the one that is read.
LEMMA OneAgeIsRead ==
  ASSUME NEW lines \in HeaderLines, OnOneLine(lines), OneAge(lines)
  PROVE  IF StatedAges(lines) = {} THEN MaxAgeOf(ReadLine(lines)) = None
         ELSE /\ MaxAgeOf(ReadLine(lines)) # None
              /\ MaxAgeOf(ReadLine(lines)) = CHOOSE a \in StatedAges(lines) : TRUE
<1> DEFINE line == ReadLine(lines)
<1>1. line \in Line
  BY ReadLineType
<1>2. StatedAges(lines) = {line[i].arg : i \in Ages(line)}
  BY StatedIsRead
<1>3. CASE StatedAges(lines) = {}
  BY <1>1, <1>2, <1>3, AgeType
<1>4. CASE StatedAges(lines) # {}
  <2>1. Ages(line) # {} /\ MaxAgeOf(line) # None
    BY <1>1, <1>2, <1>4, AgeType
  <2>2. MaxAgeOf(line) \in StatedAges(lines)
    BY <1>1, <1>2, <2>1, AgeRead
  <2>3. (CHOOSE a \in StatedAges(lines) : TRUE) \in StatedAges(lines)
    BY <1>4
  <2> QED
    BY <1>4, <2>1, <2>2, <2>3 DEF OneAge
<1> QED
  BY <1>3, <1>4

\* What is_cacheable lets pass may be stored.
LEMMA CacheableMayBeStored ==
  ASSUME PlainResponses, NEW r \in Responses, IsCacheable(r)
  PROVE  MayStore(r)
<1>1. r.lines \in HeaderLines /\ OnOneLine(r.lines)
  BY ResponsesAssumption DEF ResponseType, PlainResponses
<1> QED
  BY <1>1, StatedIsRead DEF IsCacheable, MayStore, FromHeaders, Names

Allowed(e) == e # NoEntry => MayStore(e.response)

AllowedInv ==
  /\ TypeInv
  /\ \A k \in Keys : Allowed(entries[k])
  /\ \A p \in Putters : Allowed(puts[p])

\* The empty cache holds nothing forbidden.
LEMMA AllowedInit == Init => AllowedInv
BY TypeInit DEF Init, AllowedInv, Allowed

\* Prepare lets no forbidden response pass, and entries only move.
LEMMA AllowedStep ==
  ASSUME PlainResponses, AllowedInv, [Next]_vars
  PROVE  AllowedInv'
<1>1. TypeInv /\ TypeInv'
  BY TypeStep DEF AllowedInv
<1>2. \A k \in Keys, r \in Responses : IsCacheable(r) => Allowed(NewEntry(k, r))
  BY CacheableMayBeStored DEF Allowed, NewEntry
<1>3. \A p \in Putters : Allowed(puts'[p])
  BY <1>1, <1>2, EntriesMove DEF AllowedInv, Allowed
<1>4. \A k \in Keys : Allowed(entries'[k])
  BY <1>1, EntriesMove DEF AllowedInv, Allowed
<1> QED
  BY <1>1, <1>3, <1>4 DEF AllowedInv, Allowed

\* If targets say no-cache and no-store on the first Cache-Control line and in
\* lower case, no response that says so is ever cached, whatever else they say.
THEOREM ForbiddenCorrect == ASSUME PlainResponses PROVE Spec => []ForbiddenNeverCached
<1>1. AllowedInv /\ [Next]_vars => AllowedInv'
  BY AllowedStep
<1>2. AllowedInv => ForbiddenNeverCached
  BY DEF AllowedInv, Allowed, ForbiddenNeverCached, MayStore, Cached
<1> QED
  BY AllowedInit, <1>1, <1>2, PTL DEF Spec

-----------------------------------------------------------------------------
(* The cache implements TtlStore *)

\* The state of the store: see Store in ResponseCache.
Offers == {CopyOf(puts[p]) : p \in {p \in Putters : puts[p] # NoEntry}}
Held == {CopyOf(entries[k]) : k \in Cached}

\* An entry is kept for the stated lifetime of its response, no more, no less.
Exact(e) ==
  e # NoEntry => e.expires_at = e.created_at + StatedLifetime[e.response]

StoreInv ==
  /\ AllowedInv
  /\ \A k \in Keys : Exact(entries[k])
  /\ \A p \in Putters : Exact(puts[p])

\* put reads the stated lifetime: max-age, then Expires, then the default.
LEMMA TtlIsStated ==
  ASSUME PlainHeaders, NEW r \in Responses
  PROVE  Ttl(r) = StatedLifetime[r]
<1>1. /\ r.lines \in HeaderLines /\ OnOneLine(r.lines) /\ OneAge(r.lines)
      /\ r.expires # None => r.expires >= 0
  BY ResponsesAssumption DEF ResponseType, PlainHeaders, PlainResponses
<1>2. FromHeaders(r.lines).max_age = MaxAgeOf(ReadLine(r.lines))
  BY DEF FromHeaders
<1>3. CASE StatedAges(r.lines) = {}
  <2>1. MaxAgeOf(ReadLine(r.lines)) = None
    BY <1>1, <1>3, OneAgeIsRead
  <2> QED
    BY <1>1, <1>2, <1>3, <2>1 DEF Ttl, StatedLifetime
<1>4. CASE StatedAges(r.lines) # {}
  <2>1. /\ MaxAgeOf(ReadLine(r.lines)) # None
        /\ MaxAgeOf(ReadLine(r.lines)) = CHOOSE a \in StatedAges(r.lines) : TRUE
    BY <1>1, <1>4, OneAgeIsRead
  <2> QED
    BY <1>2, <1>4, <2>1 DEF Ttl, StatedLifetime
<1> QED
  BY <1>3, <1>4

\* A request that get answers accepts the age of the entry.
LEMMA AcceptedByStated ==
  ASSUME PlainHeaders, TypeInv, NEW q \in Requests, NEW e \in Entry,
         Acceptable(e, FromHeaders(q))
  PROVE  now - e.created_at < StatedPatience[q]
<1>1. q \in HeaderLines /\ OnOneLine(q) /\ OneAge(q)
  BY RequestsAssumption DEF PlainHeaders
<1>2. ~Stated(q, "no-cache") /\ ~Stated(q, "no-store")
  BY <1>1, StatedIsRead DEF Acceptable, FromHeaders, Names
<1>3. MaxAgeOf(ReadLine(q)) # None => now - e.created_at < MaxAgeOf(ReadLine(q))
  BY DEF Acceptable, FromHeaders
<1>4. CASE StatedAges(q) = {}
  <2>1. now \in 0..MaxTime /\ e.created_at \in 0..now
    BY DEF Entry, TypeInv, TypeOK
  <2>2. now - e.created_at < AnyAge
    BY <2>1, TimeAssumption DEF AnyAge
  <2> QED
    BY <1>2, <1>4, <2>2 DEF StatedPatience
<1>5. CASE StatedAges(q) # {}
  <2>1. /\ MaxAgeOf(ReadLine(q)) # None
        /\ MaxAgeOf(ReadLine(q)) = CHOOSE a \in StatedAges(q) : TRUE
    BY <1>1, <1>5, OneAgeIsRead
  <2> QED
    BY <1>2, <1>3, <1>5, <2>1 DEF StatedPatience
<1> QED
  BY <1>4, <1>5

\* The empty cache holds no inexact copy.
LEMMA StoreInvInit == Init => StoreInv
BY AllowedInit DEF Init, StoreInv, Exact

\* Prepare computes the lifetime that the headers state, and entries only move.
LEMMA StoreInvStep ==
  ASSUME PlainHeaders, StoreInv, [Next]_vars
  PROVE  StoreInv'
<1>1. AllowedInv' /\ TypeInv
  BY AllowedStep DEF StoreInv, AllowedInv, PlainHeaders
<1>2. \A k \in Keys, r \in Responses : Exact(NewEntry(k, r))
  BY TtlIsStated DEF Exact, NewEntry
<1>3. \A p \in Putters : Exact(puts'[p])
  BY <1>1, <1>2, EntriesMove DEF StoreInv, Exact
<1>4. \A k \in Keys : Exact(entries'[k])
  BY <1>1, EntriesMove DEF StoreInv, Exact
<1> QED
  BY <1>1, <1>3, <1>4 DEF StoreInv, Exact

\* An empty cache is an empty store.
LEMMA StoreInit == Init => Store!Init
BY DEF Init, Store!Init, Cached

\* A hit is a fresh copy of the store.
LEMMA GetMaps ==
  ASSUME PlainHeaders, StoreInv, NEW k \in Keys, NEW q \in Requests, Get(k, q)
  PROVE  Store!Answer(k, q)
<1>1. TypeInv
  BY DEF StoreInv, AllowedInv
<1>2. UNCHANGED <<now, entries, puts>>
  BY DEF Get
<1>3. now' = now /\ Offers' = Offers /\ Held' = Held
  BY <1>2 DEF Offers, Held, Cached
<1>4. CASE ~Hit(k, q)
  <2>1. answer' = NoAnswer
    BY <1>4 DEF Get
  <2> QED
    BY <1>3, <2>1 DEF Store!Answer, Offers, Held
<1>5. CASE Hit(k, q)
  <2>1. answer' = entries[k] /\ k \in Cached
    BY <1>5 DEF Get, Hit
  <2>2. /\ entries[k] \in Entry /\ entries[k].key = k
        /\ entries[k].expires_at = entries[k].created_at + StatedLifetime[entries[k].response]
    BY <1>1, <2>1 DEF TypeInv, TypeOK, Cached, StoreInv, Exact
  <2>3. entries[k].expires_at > now /\ now - entries[k].created_at < StatedPatience[q]
    BY <1>1, <1>5, <2>2, AcceptedByStated DEF Hit, Unexpired
  <2>4. /\ CopyOf(entries[k]) \in Held
        /\ CopyOf(entries[k]).key = k
        /\ CopyOf(entries[k]).since = entries[k].created_at
        /\ CopyOf(entries[k]).response = entries[k].response
    BY <2>1, <2>2 DEF Held, CopyOf
  <2>5. Store!Fresh(CopyOf(entries[k]), q)
    <3>1. now < entries[k].created_at + StatedLifetime[entries[k].response]
      BY <2>2, <2>3
    <3> QED
      BY <2>3, <2>4, <3>1 DEF Store!Fresh
  <2> QED
    BY <1>3, <2>1, <2>4, <2>5 DEF Store!Answer, Offers, Held
<1> QED
  BY <1>4, <1>5

\* What put prepares is offered.
LEMMA PrepareMaps ==
  ASSUME PlainHeaders, StoreInv,
         NEW p \in Putters, NEW k \in Keys, NEW r \in Responses, Prepare(p, k, r)
  PROVE  Store!Offer(k, r) \/ UNCHANGED Store!vars
<1>1. TypeInv
  BY DEF StoreInv, AllowedInv
<1>2. MayStore(r)
  BY CacheableMayBeStored DEF Prepare, PlainHeaders
<1>3. UNCHANGED <<now, entries, answer>>
  BY DEF Prepare
<1>4. now' = now /\ Held' = Held /\ UNCHANGED answer
  BY <1>3 DEF Held, Cached
<1>5. puts[p] = NoEntry /\ puts' = [puts EXCEPT ![p] = NewEntry(k, r)]
  BY DEF Prepare
<1>6. CASE NewEntry(k, r) = NoEntry
  <2>1. puts' = puts
    BY <1>1, <1>5, <1>6 DEF TypeInv
  <2> QED
    BY <1>4, <2>1 DEF Store!vars, Offers, Held
<1>7. CASE NewEntry(k, r) # NoEntry
  <2>1. Offers' = Offers \cup {CopyOf(NewEntry(k, r))}
    <3>1. \A o \in Putters : puts'[o] = IF o = p THEN NewEntry(k, r) ELSE puts[o]
      BY <1>1, <1>5 DEF TypeInv
    <3> QED
      BY <1>5, <1>7, <3>1 DEF Offers
  <2>2. CopyOf(NewEntry(k, r)) = Store!Copy(k, r, now)
    BY DEF CopyOf, NewEntry, Store!Copy
  <2> QED
    BY <1>2, <1>4, <2>1, <2>2 DEF Store!Offer, Offers, Held
<1> QED
  BY <1>6, <1>7

\* A put that commits keeps its offer; the victim's copy is lost with it.
LEMMA InsertMaps ==
  ASSUME TypeInv, NEW p \in Putters, puts[p] # NoEntry,
         NEW victims \in SUBSET Keys, Insert(p, victims)
  PROVE  Store!Keep(CopyOf(puts[p])) /\ CopyOf(puts[p]) \in Offers
<1> DEFINE c == CopyOf(puts[p])
           lost == {CopyOf(entries[k]) : k \in Cached \cap victims}
<1>1. c \in Offers
  BY DEF Offers
<1>2. c.key = puts[p].key /\ puts[p].key \in Keys
  BY CachedAfter DEF CopyOf
<1>3. now' = now /\ answer' = answer
  BY DEF Insert
<1>4. Offers' \in {Offers, Offers \ {c}}
  <2>1. \A o \in Putters : puts'[o] = IF o = p THEN NoEntry ELSE puts[o]
    BY DEF Insert, TypeInv
  <2>2. Offers' = {CopyOf(puts[o]) : o \in {o \in Putters : puts[o] # NoEntry /\ o # p}}
    BY <2>1 DEF Offers
  <2>3. CASE \E o \in Putters : puts[o] # NoEntry /\ o # p /\ CopyOf(puts[o]) = c
    <3>1. Offers' = Offers
      BY <2>2, <2>3 DEF Offers
    <3> QED
      BY <3>1
  <2>4. CASE \A o \in Putters : puts[o] # NoEntry /\ o # p => CopyOf(puts[o]) # c
    <3>1. Offers' = Offers \ {c}
      BY <2>2, <2>4 DEF Offers
    <3> QED
      BY <3>1
  <2> QED
    BY <2>3, <2>4
<1>5. Held' = {h \in Held \ lost : h.key # c.key} \cup {c}
  <2>1. Cached' = (Cached \ victims) \cup {c.key}
    BY <1>2, CachedAfter
  <2>2. \A k \in Cached' : entries'[k] = IF k = c.key THEN puts[p] ELSE entries[k]
    BY <1>2, <2>1 DEF Insert, Without, Cached
  <2>3. Held' = {CopyOf(entries[k]) : k \in (Cached \ victims) \ {c.key}} \cup {c}
    BY <2>1, <2>2 DEF Held
  <2>4. \A k \in Cached : CopyOf(entries[k]).key = k
    BY DEF CopyOf, TypeInv, TypeOK, Cached
  <2>5. ASSUME NEW k \in Cached
        PROVE  CopyOf(entries[k]) \notin lost <=> k \notin victims
    BY <2>4, <2>5
  <2>6. {h \in Held \ lost : h.key # c.key}
          = {CopyOf(entries[k]) : k \in (Cached \ victims) \ {c.key}}
    BY <2>4, <2>5 DEF Held
  <2> QED
    BY <2>3, <2>6
<1>6. lost \in SUBSET Held
  BY DEF Held
<1> QED
  BY <1>1, <1>3, <1>4, <1>5, <1>6 DEF Store!Keep, Offers, Held

\* Commit stores the copy that was offered, and may lose another.
LEMMA CommitMaps ==
  ASSUME TypeInv, NEW p \in Putters, Commit(p)
  PROVE  \E c \in Offers : Store!Keep(c)
<1>1. puts[p] # NoEntry /\ \E victims \in SUBSET Keys : Insert(p, victims)
  BY CommitInserts DEF Oldest, Cached
<1>2. CopyOf(puts[p]) \in Offers /\ Store!Keep(CopyOf(puts[p]))
  BY <1>1, InsertMaps
<1> QED
  BY <1>2 DEF Store!Keep, Store!Copy

\* Every step of the cache is a step of the store, or changes nothing of it.
LEMMA StoreStep ==
  ASSUME PlainHeaders, StoreInv, [Next]_vars
  PROVE  [Store!Next]_(Store!vars)
<1>0. TypeInv
  BY DEF StoreInv, AllowedInv
<1>1. CASE \E k \in Keys, q \in Requests : Get(k, q)
  BY <1>1, GetMaps DEF Store!Next
<1>2. CASE \E p \in Putters, k \in Keys, r \in Responses : Prepare(p, k, r)
  BY <1>2, PrepareMaps DEF Store!Next
<1>3. CASE \E p \in Putters : Commit(p)
  BY <1>0, <1>3, CommitMaps DEF Store!Next, Offers
<1>4. CASE Tick
  <2>1. now \in Nat /\ now' > now
    BY <1>0, <1>4, TimeAssumption DEF Tick, TypeInv, TypeOK
  <2>2. UNCHANGED <<entries, puts, answer>>
    BY <1>4 DEF Tick
  <2>3. Store!Tick
    BY <2>1, <2>2 DEF Store!Tick, Cached
  <2> QED
    BY <2>3 DEF Store!Next
<1>5. CASE UNCHANGED vars
  BY <1>5 DEF vars, Store!vars, Cached
<1> QED
  BY <1>1, <1>2, <1>3, <1>4, <1>5 DEF Next

\* If headers are as the parser looks for them, then parsing, expiry, eviction
\* and the two steps of put together never give a request more than the
\* abstract store may: a response of its key that may be stored, inside the
\* lifetime the response states and younger than the request asks for.
THEOREM StoreImplemented == ASSUME PlainHeaders PROVE Spec => ImplementsStore
<1>1. StoreInv /\ [Next]_vars => StoreInv'
  BY StoreInvStep
<1>2. StoreInv /\ [Next]_vars => [Store!Next]_(Store!vars)
  BY StoreStep
<1> QED
  BY StoreInvInit, StoreInit, <1>1, <1>2, PTL DEF Spec, ImplementsStore, Store!Spec

=============================================================================
