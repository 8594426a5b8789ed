---------------------------- MODULE ReleaseCache ----------------------------
(***************************************************************************)
(* releaseCache: the cache of whole-title BT searches of one source.  Each *)
(* operation runs under the cache's mutex, so it is one step, at an        *)
(* instant "now" the caller read before it took the mutex.                 *)
(***************************************************************************)
EXTENDS Naturals, Sequences, FiniteSets

CONSTANT Limit \* newReleaseCache's limit

ASSUME LimitAssumption == Limit \in Nat \ {0}

VARIABLES
    entries,   \* the map: from a key to its result and the instant it expires
    order      \* the keys of the list, most recently used first

cacheVars == <<entries, order>>

Entries(results) == [releases : results, expires : Nat]

KeysOf(list) == {list[i] : i \in DOMAIN list}

\* A list without some keys, the others in their order.
Without(list, keys) ==
    LET kept == {i \in DOMAIN list : list[i] \notin keys}
        Place(n) == CHOOSE i \in kept : Cardinality({j \in kept : j <= i}) = n
    IN  [n \in 1..Cardinality(kept) |-> list[Place(n)]]

\* PushFront or MoveToFront
AtFront(k, list) == <<k>> \o Without(list, {k})

CacheInit == entries = <<>> /\ order = <<>>

\* !now.Before(entry.expires)
Expired(k, now) == entries[k].expires <= now

Live(k, now) == k \in DOMAIN entries /\ ~Expired(k, now)

\* Mutant of Hit: the entry stays where it is in the list.
Hit_KeepsOrder(k, now) ==
    /\ Live(k, now)
    /\ UNCHANGED cacheVars

\* get: an entry that has not expired is served and becomes the most recent.
Hit(k, now) ==
    /\ Live(k, now)
    /\ order' = AtFront(k, order)
    /\ UNCHANGED entries

\* get: nothing is served, and an expired entry is dropped.
Miss(k, now) ==
    /\ ~Live(k, now)
    /\ entries' = [j \in DOMAIN entries \ {k} |-> entries[j]]
    /\ order' = Without(order, {k})

\* put: the expired entries are swept, the result becomes the most recent
\* entry, and the least recently used ones beyond the limit are evicted.
Put(k, releases, now, ttl) ==
    LET swept == {j \in DOMAIN entries : Expired(j, now)}
        used == AtFront(k, Without(order, swept))
        evicted == {used[i] : i \in Limit + 1 .. Len(used)}
    IN  /\ order' = Without(used, evicted)
        /\ entries' = [j \in ((DOMAIN entries \ swept) \cup {k}) \ evicted |->
                         IF j = k THEN [releases |-> releases, expires |-> now + ttl]
                         ELSE entries[j]]

\* The map and the list hold the same keys, no more than the limit.
Consistent ==
    /\ KeysOf(order) = DOMAIN entries
    /\ \A i, j \in DOMAIN order : order[i] = order[j] => i = j
    /\ Len(order) <= Limit
=============================================================================
