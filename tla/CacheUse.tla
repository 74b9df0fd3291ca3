------------------------------ MODULE CacheUse ------------------------------
(* A ResponseCache that remembers, as the real one does not, when each entry *)
(* was last of use.                                                          *)
EXTENDS MCResponseCache

VARIABLE lastUse  \* when each entry was created or last served

\* An Instant is fine enough to tell any two uses apart: evict_lru never has to
\* choose between equals.
NewInstant ==
  /\ \A k \in Cached : lastUse[k] < now
  /\ \A p \in Putters : puts[p] # NoEntry => puts[p].created_at < now

UseInit == Init /\ lastUse = [k \in Keys |-> 0]

Serve(k, q) ==
  /\ Hit(k, q) => NewInstant
  /\ Get(k, q)
  /\ lastUse' = IF Hit(k, q) THEN [lastUse EXCEPT ![k] = now] ELSE lastUse

Keep(p) ==
  /\ Commit(p)
  /\ lastUse' = [lastUse EXCEPT ![puts[p].key] = puts[p].created_at]

UseNext ==
  \/ \E k \in Keys, q \in Requests : Serve(k, q)
  \/ \E p \in Putters : Keep(p)
  \/ /\ UNCHANGED lastUse
     /\ \/ Tick
        \/ /\ NewInstant
           /\ \E p \in Putters, k \in Keys, r \in Responses : Prepare(p, k, r)

UseSpec == UseInit /\ [][UseNext]_<<vars, lastUse>>

\* What a step leaves in the cache as it was.
Untouched == {j \in Cached : entries'[j] = entries[j]}

\* LRU eviction: what is dropped was used no later than what stays
\* (README.md:294).
EvictsLeastRecentlyUsed ==
  [][\A k \in Evicted, j \in Untouched : lastUse[k] <= lastUse[j]]_<<vars, lastUse>>

=============================================================================
