----------------------------- MODULE PromptCache -----------------------------
(***************************************************************************)
(* The exact-match store of the prompt cache                               *)
(* (src/lib/aiops/cache/exact-match-cache-store.ts): an insertion-ordered  *)
(* map with a time to live, a recency bump on a hit and eviction of the    *)
(* oldest entries past the capacity.                                       *)
(***************************************************************************)
EXTENDS Naturals, Sequences, SequencesExt

HasKey(cache, key) == \E i \in DOMAIN cache : cache[i].key = key

PlaceOf(cache, key) == CHOOSE i \in DOMAIN cache : cache[i].key = key

\* Map.get and Map.delete.
Entry(cache, key) == cache[PlaceOf(cache, key)]

Without(cache, key) == IF HasKey(cache, key) THEN RemoveAt(cache, PlaceOf(cache, key)) ELSE cache

IsHit(cache, key, now) == HasKey(cache, key) /\ now <= Entry(cache, key).expiresAt

\* A hit moves the entry to the young end; an expired entry is deleted.
AfterLookup(cache, key, now) ==
    IF IsHit(cache, key, now) THEN Append(Without(cache, key), Entry(cache, key))
    ELSE Without(cache, key)

\* Map.set keeps the place of a key already present.
Written(cache, entry) ==
    IF HasKey(cache, entry.key) THEN [cache EXCEPT ![PlaceOf(cache, entry.key)] = entry]
    ELSE Append(cache, entry)

\* Mutated: nothing is evicted.
StoreWithoutEviction(cache, key, response, now, ttl, capacity) ==
    Written(cache, [key |-> key, response |-> response, expiresAt |-> now + ttl])

\* What is past the capacity of the policy at hand.
Evicted(cache, capacity) ==
    IF Len(cache) > capacity THEN SubSeq(cache, Len(cache) - capacity + 1, Len(cache)) ELSE cache

AfterStore(cache, key, response, now, ttl, capacity) ==
    Evicted(Written(cache, [key |-> key, response |-> response, expiresAt |-> now + ttl]), capacity)

=============================================================================
