-------------------------- MODULE ReleaseCacheUse --------------------------
(***************************************************************************)
(* The release cache under any sequence of calls, told against what was    *)
(* stored and used before: two history variables remember what a cache     *)
(* that forgets nothing would.                                             *)
(***************************************************************************)
EXTENDS ReleaseCache

CONSTANTS
    CacheKeys,    \* what releaseCacheKey returns
    Results,      \* what searches return
    TTLs,         \* lifetimes releaseCacheTTL may return
    Lag,          \* bound: how far behind the time a caller's "now" may be
    LastInstant   \* bound: the last instant

ASSUME TimesAssumption == TTLs \subseteq Nat \ {0} /\ Lag \in Nat /\ LastInstant \in Nat

VARIABLES
    time,
    stored,   \* history: the last entry stored under each key
    recency   \* history: every key ever stored, the last used first

useVars == <<cacheVars, time, stored, recency>>

UseInit ==
    /\ CacheInit
    /\ time = 0
    /\ stored = <<>>
    /\ recency = <<>>

\* The instants a caller that now holds the mutex may have read.
Instants == {t \in 0..time : time <= t + Lag}

Use(k) == recency' = AtFront(k, recency)

GetHit(k) ==
    /\ \E now \in Instants : Hit(k, now)
    /\ Use(k)
    /\ UNCHANGED <<time, stored>>

GetMiss(k) ==
    /\ \E now \in Instants : Miss(k, now)
    /\ UNCHANGED <<time, stored, recency>>

StoreAs(k) ==
    /\ \E releases \in Results, now \in Instants, ttl \in TTLs :
         /\ Put(k, releases, now, ttl)
         /\ stored' = [j \in DOMAIN stored \cup {k} |->
                         IF j = k THEN [releases |-> releases, expires |-> now + ttl]
                         ELSE stored[j]]
    /\ Use(k)
    /\ UNCHANGED time

Passes ==
    /\ time < LastInstant
    /\ time' = time + 1
    /\ UNCHANGED <<cacheVars, stored, recency>>

UseNext == Passes \/ \E k \in CacheKeys : GetHit(k) \/ GetMiss(k) \/ StoreAs(k)

UseSpec == UseInit /\ [][UseNext]_useVars

\* The types, and the map and the list in step with each other.
UseTypes ==
    /\ Consistent
    /\ DOMAIN entries \subseteq CacheKeys
    /\ entries \in [DOMAIN entries -> Entries(Results)]
    /\ order \in Seq(CacheKeys)
    /\ time \in 0..LastInstant

\* The map and the list drop the same entries, and the right ones: an entry that
\* has not expired is found, as it was last stored, as long as
\* fewer than Limit other keys were used after it; and nothing is ever found
\* that was not the last result stored under its key.
RemembersRecent ==
    /\ Consistent
    /\ \A k \in DOMAIN entries : entries[k] = stored[k]
    /\ \A i \in DOMAIN recency :
         i <= Limit /\ stored[recency[i]].expires > time => recency[i] \in DOMAIN entries
=============================================================================
