------------------------- MODULE ReleaseSearchProofs -------------------------
(***************************************************************************)
(* Proofs about ReleaseSearch, for every number of searches, every set of  *)
(* titles and records, every concurrency, deadline and lifetime, and about *)
(* its cache, ReleaseCacheUse, for every limit.                            *)
(***************************************************************************)
EXTENDS ReleaseSearch, ReleaseCacheUse, FiniteSetTheorems, TLAPS

-----------------------------------------------------------------------------
(* Partial results are never served as complete ones                       *)

\* The types the argument needs; of the cache, only its map matters.
Shape ==
    /\ stage \in [Searches -> Stages]
    /\ titles \in [Searches -> SUBSET Names]
    /\ DOMAIN result = Searches

\* A search that is about to store reports an error unless every title answered.
MergedHonestly ==
    \A p \in Searches :
        stage[p] = "storing" /\ result[p].err = "none" => result[p].releases.answered = titles[p]

CInv == Shape /\ CacheHoldsComplete /\ MergedHonestly /\ NoSilentGaps

\* A lookup leaves only entries that were there.
LEMMA LookupKeeps ==
    ASSUME CacheHoldsComplete, NEW k, NEW t, Hit(k, t) \/ Miss(k, t)
    PROVE  CacheHoldsComplete'
  <1>1. CASE Hit(k, t)
    BY <1>1 DEF Hit, CacheHoldsComplete
  <1>2. CASE Miss(k, t)
    BY <1>2 DEF Miss, CacheHoldsComplete
  <1>3. QED
    BY <1>1, <1>2

\* Storing a complete result keeps every entry complete.
LEMMA PutKeeps ==
    ASSUME CacheHoldsComplete, NEW k, NEW r, NEW t, NEW ttl,
           Put(k, r, t, ttl), r.answered = k
    PROVE  CacheHoldsComplete'
  <1> DEFINE new == [releases |-> r, expires |-> t + ttl]
  <1>1. PICK K : /\ K \subseteq DOMAIN entries \cup {k}
                 /\ entries' = [j \in K |-> IF j = k THEN new ELSE entries[j]]
    BY DEF Put
  <1>2. SUFFICES ASSUME NEW j \in K PROVE entries'[j].releases.answered = j
    BY <1>1 DEF CacheHoldsComplete
  <1>3. CASE j = k
    BY <1>1, <1>3
  <1>4. CASE j # k
    BY <1>1, <1>4 DEF CacheHoldsComplete
  <1>5. QED
    BY <1>3, <1>4

\* A search that returns keeps the invariant when its result is an honest one.
LEMMA ReturnKeeps ==
    ASSUME CInv, CacheHoldsComplete', NEW p \in Searches, NEW outcome, Return(p, outcome),
           titles' \in [Searches -> SUBSET Names],
           \A q \in Searches \ {p} : titles'[q] = titles[q],
           outcome.err = "none" => outcome.releases.answered = titles'[p]
    PROVE  CInv'
  <1>1. /\ stage' = [stage EXCEPT ![p] = "returned"]
        /\ result' = [result EXCEPT ![p] = outcome]
    BY DEF Return
  <1>2. Shape'
    BY <1>1 DEF CInv, Shape, Stages
  <1>3. MergedHonestly' /\ NoSilentGaps'
    BY <1>1 DEF CInv, Shape, MergedHonestly, NoSilentGaps
  <1>4. QED
    BY <1>2, <1>3 DEF CInv

\* A step that moves a search to a stage where its result is not looked at.
LEMMA AdvanceKeeps ==
    ASSUME CInv, CacheHoldsComplete', NEW p \in Searches,
           NEW s \in {"looking", "queuing", "relooking", "crawling"},
           stage' = [stage EXCEPT ![p] = s], UNCHANGED result,
           titles' \in [Searches -> SUBSET Names],
           \A q \in Searches \ {p} : titles'[q] = titles[q]
    PROVE  CInv'
  BY DEF CInv, Shape, Stages, MergedHonestly, NoSilentGaps

\* What Merge leaves is complete, or says that it is not.
LEMMA MergeKeeps ==
    ASSUME CInv, NEW p \in Searches, NEW received, Merge(p, received),
           UNCHANGED <<titles, entries>>
    PROVE  CInv'
  <1>1. /\ stage' = [stage EXCEPT ![p] = "storing"]
        /\ result' = [result EXCEPT ![p] = Merged(p, received)]
    BY DEF Merge
  <1>2. Merged(p, received).err = "none" => Merged(p, received).releases.answered = titles[p]
    BY DEF Merged
  <1>3. Shape'
    BY <1>1 DEF CInv, Shape, Stages
  <1>4. MergedHonestly' /\ NoSilentGaps'
    BY <1>1, <1>2 DEF CInv, Shape, MergedHonestly, NoSilentGaps
  <1>5. QED
    BY <1>3, <1>4 DEF CInv, CacheHoldsComplete

\* Steps that touch none of the variables of the invariant.
LEMMA IdleKeeps ==
    ASSUME CInv, UNCHANGED <<stage, titles, result, entries>>
    PROVE  CInv'
  BY DEF CInv, Shape, CacheHoldsComplete, MergedHonestly, NoSilentGaps

\* A lookup that hits returns the entry of the search's own titles.
LEMMA FoundIsComplete ==
    ASSUME CInv, NEW p \in Searches, NEW t, Hit(titles[p], t)
    PROVE  Found(p).releases.answered = titles[p]
  BY DEF CInv, CacheHoldsComplete, Hit, Live, Found

\* Every step of a search keeps the invariant.
LEMMA SearchKeeps ==
    ASSUME CInv, NEW p \in Searches, SearchNext(p)
    PROVE  CInv'
  <1>a. titles \in [Searches -> SUBSET Names]
    BY DEF CInv, Shape
  <1>1. CASE Arrive(p)
    <2>1. PICK list \in TitleLists :
            /\ titles' = [titles EXCEPT ![p] = Normalized(list)]
            /\ \/ Return(p, Failure("invalid"))
               \/ stage' = [stage EXCEPT ![p] = "looking"] /\ UNCHANGED result
      BY <1>1 DEF Arrive
    <2>2. Normalized(list) \in SUBSET Names
      BY SearchAssumption DEF Normalized
    <2>3. titles' \in [Searches -> SUBSET Names]
      BY <1>a, <2>1, <2>2
    <2>4. CacheHoldsComplete'
      BY <1>1 DEF Arrive, cacheVars, CInv, CacheHoldsComplete
    <2>5. Failure("invalid").err # "none"
      BY DEF Failure
    <2>6. \A q \in Searches \ {p} : titles'[q] = titles[q]
      BY <1>a, <2>1
    <2>7. CASE Return(p, Failure("invalid"))
      BY <2>3, <2>4, <2>5, <2>6, <2>7, ReturnKeeps
    <2>8. CASE stage' = [stage EXCEPT ![p] = "looking"] /\ UNCHANGED result
      BY <2>3, <2>4, <2>6, <2>8, AdvanceKeeps
    <2>9. QED
      BY <2>1, <2>7, <2>8
  <1>2. CASE Look(p) \/ LookAgain(p)
    <2>1. UNCHANGED titles
      BY <1>2 DEF Look, LookAgain
    <2>2. \/ Hit(titles[p], now[p]) /\ Return(p, Found(p))
          \/ /\ Miss(titles[p], now[p])
             /\ UNCHANGED result
             /\ \/ stage' = [stage EXCEPT ![p] = "queuing"]
                \/ stage' = [stage EXCEPT ![p] = "crawling"]
      BY <1>2 DEF Look, LookAgain, StartCrawl
    <2>3. CacheHoldsComplete'
      BY <2>2, LookupKeeps DEF CInv
    <2>4. CASE Hit(titles[p], now[p]) /\ Return(p, Found(p))
      BY <1>a, <2>1, <2>3, <2>4, FoundIsComplete, ReturnKeeps
    <2>5. CASE UNCHANGED result /\ stage' = [stage EXCEPT ![p] = "queuing"]
      BY <1>a, <2>1, <2>3, <2>5, AdvanceKeeps
    <2>6. CASE UNCHANGED result /\ stage' = [stage EXCEPT ![p] = "crawling"]
      BY <1>a, <2>1, <2>3, <2>6, AdvanceKeeps
    <2>7. QED
      BY <2>2, <2>4, <2>5, <2>6
  <1>3. CASE Acquire(p)
    BY <1>a, <1>3, AdvanceKeeps DEF Acquire, cacheVars, CInv, CacheHoldsComplete
  <1>4. CASE GiveUp(p)
    <2>1. Failure("context").err # "none"
      BY DEF Failure
    <2>2. CacheHoldsComplete'
      BY <1>4 DEF GiveUp, cacheVars, CInv, CacheHoldsComplete
    <2>3. QED
      BY <1>a, <1>4, <2>1, <2>2, ReturnKeeps DEF GiveUp
  <1>5. CASE Collect(p)
    <2>1. UNCHANGED <<titles, entries>>
      BY <1>5 DEF Collect, cacheVars
    <2>2. \/ \E received : Merge(p, received)
          \/ UNCHANGED <<stage, result>>
      BY <1>5 DEF Collect
    <2>3. QED
      BY <2>1, <2>2, MergeKeeps, IdleKeeps
  <1>6. CASE StopCollecting(p)
    BY <1>6, MergeKeeps DEF StopCollecting, cacheVars
  <1>7. CASE Store(p)
    <2>1. stage[p] = "storing" /\ UNCHANGED titles /\ Return(p, result[p])
      BY <1>7 DEF Store
    <2>2. result[p].err = "none" => result[p].releases.answered = titles[p]
      BY <2>1 DEF CInv, MergedHonestly
    <2>3. CacheHoldsComplete'
      <3>1. CASE Cacheable(p)
        BY <1>7, <2>2, <3>1, PutKeeps DEF Store, Cacheable, CInv
      <3>2. CASE ~Cacheable(p)
        BY <1>7, <3>2 DEF Store, cacheVars, CInv, CacheHoldsComplete
      <3>3. QED
        BY <3>1, <3>2
    <2>4. QED
      BY <1>a, <2>1, <2>2, <2>3, ReturnKeeps
  <1>8. QED
    BY <1>1, <1>2, <1>3, <1>4, <1>5, <1>6, <1>7 DEF SearchNext

\* The invariant holds before the first search and is kept by every step.
LEMMA CompletenessInvariant == Spec => []CInv
  <1>1. Init => CInv
    BY DEF Init, CInv, Shape, Stages, CacheInit, CacheHoldsComplete, MergedHonestly,
           NoSilentGaps
  <1>2. CInv /\ [Next]_vars => CInv'
    <2> SUFFICES ASSUME CInv, [Next]_vars PROVE CInv'
      OBVIOUS
    <2>1. ASSUME NEW p \in Searches, SearchNext(p) PROVE CInv'
      BY <2>1, SearchKeeps
    <2>2. CASE \/ \E p \in Searches : (\E t \in Names : Answer(p, t)) \/ Expire(p) \/ Cancel(p)
               \/ BeginCandidates \/ EndCandidates \/ Tick \/ UNCHANGED vars
      BY <2>2, IdleKeeps DEF Answer, Expire, Cancel, BeginCandidates, EndCandidates, Tick, vars,
         cacheVars
    <2>3. QED
      BY <2>1, <2>2 DEF Next
  <1>3. QED
    BY <1>1, <1>2, PTL DEF Spec

\* The cache never holds a result in which a title is missing, whatever failed,
\* timed out or was cancelled and in whatever order the outcomes came.
THEOREM OnlyCompleteCached == Spec => []CacheHoldsComplete
  <1>1. CInv => CacheHoldsComplete
    BY DEF CInv
  <1>2. QED
    BY <1>1, CompletenessInvariant, PTL

\* A search that reports no error has an answer for every one of its titles,
\* from its own crawl or from the cache.
THEOREM SuccessIsComplete == Spec => []NoSilentGaps
  <1>1. CInv => NoSilentGaps
    BY DEF CInv
  <1>2. QED
    BY <1>1, CompletenessInvariant, PTL

-----------------------------------------------------------------------------
(* The slots of the source                                                 *)

SInv == Shape /\ SemaphoreAccounting /\ resolving \in Nat

\* The searches that hold a slot are finitely many.
LEMMA HoldersFinite == IsFiniteSet(Holders) /\ Cardinality(Holders) \in Nat
  <1>1. Holders \in SUBSET Searches
    BY DEF Holders
  <1>2. QED
    BY <1>1, SearchAssumption, FS_Subset, FS_CardinalityType

\* A search that stays on its side of the semaphore leaves the accounts alone.
LEMMA SameSide ==
    ASSUME SInv, NEW p \in Searches, NEW s \in Stages,
           stage' = [stage EXCEPT ![p] = s],
           s \in {"relooking", "crawling", "storing"} <=>
               stage[p] \in {"relooking", "crawling", "storing"},
           UNCHANGED <<semaphore, resolving>>
    PROVE  SemaphoreAccounting'
  <1>1. Holders' = Holders
    BY DEF SInv, Shape, Holders
  <1>2. QED
    BY <1>1 DEF SInv, SemaphoreAccounting

\* Taking a slot.
LEMMA SlotTaken ==
    ASSUME SInv, NEW p \in Searches, stage[p] = "queuing",
           stage' = [stage EXCEPT ![p] = "relooking"],
           semaphore' = semaphore + 1, UNCHANGED resolving
    PROVE  SemaphoreAccounting'
  <1>1. Holders' = Holders \cup {p} /\ p \notin Holders
    BY DEF SInv, Shape, Holders
  <1>2. Cardinality(Holders') = Cardinality(Holders) + 1
    BY <1>1, HoldersFinite, FS_AddElement
  <1>3. QED
    BY <1>2, HoldersFinite DEF SInv, SemaphoreAccounting

\* Giving it back.
LEMMA SlotReturned ==
    ASSUME SInv, NEW p \in Searches, stage[p] \in {"relooking", "crawling", "storing"},
           stage' = [stage EXCEPT ![p] = "returned"],
           semaphore' = semaphore - 1, UNCHANGED resolving
    PROVE  SemaphoreAccounting'
  <1>1. Holders' = Holders \ {p} /\ p \in Holders
    BY DEF SInv, Shape, Holders
  <1>2. Cardinality(Holders') = Cardinality(Holders) - 1
    BY <1>1, HoldersFinite, FS_RemoveElement
  <1>3. QED
    BY <1>2, HoldersFinite DEF SInv, SemaphoreAccounting

\* Every step of a search accounts for its slot.
LEMMA SearchAccounts ==
    ASSUME SInv, NEW p \in Searches, SearchNext(p)
    PROVE  SemaphoreAccounting' /\ UNCHANGED resolving
  <1> USE DEF Stages
  <1>1. CASE Arrive(p)
    <2>1. /\ stage[p] = "idle"
          /\ \/ stage' = [stage EXCEPT ![p] = "returned"]
             \/ stage' = [stage EXCEPT ![p] = "looking"]
          /\ UNCHANGED <<semaphore, resolving>>
      BY <1>1 DEF Arrive, Return, sharedVars
    <2>2. QED
      BY <2>1, SameSide
  <1>2. CASE Look(p)
    <2>1. /\ stage[p] = "looking"
          /\ \/ stage' = [stage EXCEPT ![p] = "returned"]
             \/ stage' = [stage EXCEPT ![p] = "queuing"]
          /\ UNCHANGED <<semaphore, resolving>>
      BY <1>2 DEF Look, Return, sharedVars
    <2>2. QED
      BY <2>1, SameSide
  <1>3. CASE Acquire(p)
    BY <1>3, SlotTaken DEF Acquire
  <1>4. CASE GiveUp(p)
    BY <1>4, SameSide DEF GiveUp, Return, sharedVars
  <1>5. CASE LookAgain(p)
    <2>1. CASE stage' = [stage EXCEPT ![p] = "returned"] /\ semaphore' = semaphore - 1
      BY <1>5, <2>1, SlotReturned DEF LookAgain
    <2>2. CASE stage' = [stage EXCEPT ![p] = "crawling"] /\ UNCHANGED semaphore
      BY <1>5, <2>2, SameSide DEF LookAgain
    <2>3. QED
      BY <1>5, <2>1, <2>2 DEF LookAgain, Return, StartCrawl
  <1>6. CASE Collect(p) \/ StopCollecting(p)
    <2>1. /\ stage[p] = "crawling"
          /\ UNCHANGED stage \/ stage' = [stage EXCEPT ![p] = "storing"]
          /\ UNCHANGED <<semaphore, resolving>>
      BY <1>6 DEF Collect, StopCollecting, Merge, sharedVars
    <2>2. CASE UNCHANGED stage
      BY <2>1, <2>2 DEF SInv, SemaphoreAccounting, Holders
    <2>3. QED
      BY <2>1, <2>2, SameSide
  <1>7. CASE Store(p)
    BY <1>7, SlotReturned DEF Store, Return
  <1>8. QED
    BY <1>1, <1>2, <1>3, <1>4, <1>5, <1>6, <1>7 DEF SearchNext

\* The accounts are right at first and every step keeps them.
LEMMA SlotInvariant == Spec => []SInv
  <1>1. Init => SemaphoreAccounting /\ resolving \in Nat
    <2> SUFFICES ASSUME Init PROVE SemaphoreAccounting /\ resolving \in Nat
      OBVIOUS
    <2>1. Holders = {}
      BY DEF Init, Holders
    <2>2. QED
      BY <2>1, FS_EmptySet DEF Init, SemaphoreAccounting
  <1>2. SInv /\ [Next]_vars => (SemaphoreAccounting /\ resolving \in Nat)'
    <2> SUFFICES ASSUME SInv, [Next]_vars PROVE (SemaphoreAccounting /\ resolving \in Nat)'
      OBVIOUS
    <2>1. ASSUME NEW p \in Searches, SearchNext(p)
          PROVE  (SemaphoreAccounting /\ resolving \in Nat)'
      BY <2>1, SearchAccounts DEF SInv
    <2>2. CASE BeginCandidates
      BY <2>2, HoldersFinite DEF BeginCandidates, SInv, SemaphoreAccounting, Holders
    <2>3. CASE EndCandidates
      BY <2>3, HoldersFinite DEF EndCandidates, SInv, SemaphoreAccounting, Holders
    <2>4. CASE \/ \E p \in Searches : (\E t \in Names : Answer(p, t)) \/ Expire(p) \/ Cancel(p)
               \/ Tick \/ UNCHANGED vars
      BY <2>4 DEF Answer, Expire, Cancel, Tick, vars, sharedVars, SInv, SemaphoreAccounting,
         Holders
    <2>5. QED
      BY <2>1, <2>2, <2>3, <2>4 DEF Next
  <1>3. CInv => Shape
    BY DEF CInv
  <1>4. QED
    BY <1>1, <1>2, <1>3, CompletenessInvariant, PTL DEF Spec, SInv

\* Hits, failures, deadlines and cancellations all give the slot back: the
\* semaphore holds one token for every search past its acquisition and every
\* Candidates call, and no other.
THEOREM SlotsGivenBack == Spec => []SemaphoreAccounting
  <1>1. SInv => SemaphoreAccounting
    BY DEF SInv
  <1>2. QED
    BY <1>1, SlotInvariant, PTL

-----------------------------------------------------------------------------
(* One slot serializes the crawls                                          *)

WithinCapacity == semaphore <= Concurrency

\* The part of the assumption that arithmetic needs.
LEMMA SomeSlot == Concurrency \in Nat \ {0}
  BY SearchAssumption, Zenon

\* The channel of the semaphore never holds more than its capacity.
LEMMA SlotsLimited == Spec => []WithinCapacity
  <1>1. Init => WithinCapacity
    BY SomeSlot DEF Init, WithinCapacity
  <1>2. SInv /\ WithinCapacity /\ [Next]_vars => WithinCapacity'
    <2> SUFFICES ASSUME SInv, WithinCapacity, [Next]_vars PROVE WithinCapacity'
      OBVIOUS
    <2>1. semaphore \in Nat /\ Concurrency \in Nat
      BY HoldersFinite, SomeSlot DEF SInv, SemaphoreAccounting
    <2>2. \/ semaphore' = semaphore
          \/ semaphore' = semaphore - 1
          \/ semaphore < Concurrency /\ semaphore' = semaphore + 1
      BY DEF Next, SearchNext, Arrive, Look, Acquire, GiveUp, LookAgain, Collect, StopCollecting,
         Store, Answer, Expire, Cancel, BeginCandidates, EndCandidates, Tick, vars, sharedVars
    <2>3. QED
      BY <2>1, <2>2 DEF WithinCapacity
  <1>3. QED
    BY <1>1, <1>2, SlotInvariant, PTL DEF Spec

\* With one slot there is one holder.
LEMMA OneHolder ==
    ASSUME SInv, WithinCapacity, Concurrency = 1, NEW p \in Holders, NEW q \in Holders
    PROVE  p = q
  <1>1. Cardinality(Holders) <= 1
    BY HoldersFinite DEF SInv, SemaphoreAccounting, WithinCapacity
  <1>2. Cardinality(Holders) # 0
    BY HoldersFinite, FS_EmptySet
  <1>3. Cardinality(Holders) = 1
    BY <1>1, <1>2, HoldersFinite
  <1>4. PICK x : Holders = {x}
    BY <1>3, HoldersFinite, FS_Singleton
  <1>5. QED
    BY <1>4

\* Only a search that stores its result adds an entry.
LEMMA EntriesGrow ==
    ASSUME [Next]_vars
    PROVE  \/ DOMAIN entries' \subseteq DOMAIN entries
           \/ \E p \in Searches : stage[p] = "storing" /\ Store(p)
  <1>1. ASSUME NEW k, NEW t, Hit(k, t) \/ Miss(k, t)
        PROVE  DOMAIN entries' \subseteq DOMAIN entries
    BY <1>1 DEF Hit, Miss
  <1>2. ASSUME NEW p \in Searches, SearchNext(p)
        PROVE  \/ DOMAIN entries' \subseteq DOMAIN entries
               \/ stage[p] = "storing" /\ Store(p)
    <2>1. CASE Look(p) \/ LookAgain(p)
      BY <1>1, <2>1 DEF Look, LookAgain
    <2>2. CASE Store(p)
      BY <2>2 DEF Store
    <2>3. CASE Arrive(p) \/ Acquire(p) \/ GiveUp(p) \/ Collect(p) \/ StopCollecting(p)
      BY <2>3 DEF Arrive, Acquire, GiveUp, Collect, StopCollecting, cacheVars
    <2>4. QED
      BY <1>2, <2>1, <2>2, <2>3 DEF SearchNext
  <1>3. CASE \/ \E p \in Searches : (\E t \in Names : Answer(p, t)) \/ Expire(p) \/ Cancel(p)
             \/ BeginCandidates \/ EndCandidates \/ Tick \/ UNCHANGED vars
    BY <1>3 DEF Answer, Expire, Cancel, BeginCandidates, EndCandidates, Tick, vars, cacheVars
  <1>4. QED
    BY <1>2, <1>3 DEF Next

\* A crawl starts with a lookup that misses.
LEMMA CrawlStarts ==
    ASSUME Shape, [Next]_vars, NEW p \in Searches, stage'[p] = "crawling", stage[p] # "crawling"
    PROVE  titles'[p] = titles[p] /\ titles[p] \notin DOMAIN entries'
  <1>1. PICK q \in Searches : SearchNext(q)
    BY DEF Next, Answer, Expire, Cancel, BeginCandidates, EndCandidates, Tick, vars
  <1>2. LookAgain(q) /\ q = p
    <2>1. CASE Arrive(q) \/ Look(q) \/ Acquire(q) \/ GiveUp(q) \/ Store(q)
      BY <2>1 DEF Shape, Arrive, Look, Acquire, GiveUp, Store, Return
    <2>2. CASE Collect(q) \/ StopCollecting(q)
      BY <2>2 DEF Shape, Collect, StopCollecting, Merge
    <2>3. CASE LookAgain(q)
      BY <2>3 DEF Shape, LookAgain, Return, StartCrawl
    <2>4. QED
      BY <1>1, <2>1, <2>2, <2>3 DEF SearchNext
  <1>3. UNCHANGED titles /\ (Miss(titles[p], now[p]) \/ Return(p, Found(p)))
    BY <1>2 DEF LookAgain
  <1>4. ~Return(p, Found(p))
    BY DEF Return, Shape
  <1>5. QED
    BY <1>3, <1>4 DEF Miss

\* A crawl keeps its titles.
LEMMA CrawlTitles ==
    ASSUME Shape, [Next]_vars, NEW p \in Searches, stage[p] = "crawling"
    PROVE  titles'[p] = titles[p]
  <1>1. ASSUME NEW q \in Searches, Arrive(q)
        PROVE  titles'[p] = titles[p]
    BY <1>1 DEF Arrive, Shape
  <1>2. QED
    BY <1>1 DEF Next, SearchNext, Look, Acquire, GiveUp, LookAgain, Collect, StopCollecting, Store,
       Answer, Expire, Cancel, BeginCandidates, EndCandidates, Tick, vars

\* With one slot, titles another search has just answered are not crawled again:
\* the second lookup comes after the slot, and nobody stores while it is held.
THEOREM AnsweredOnce == Spec => []NoRepeatedCrawl
  <1>1. Init => NoRepeatedCrawl
    BY DEF Init, NoRepeatedCrawl
  <1>2. SInv /\ WithinCapacity /\ NoRepeatedCrawl /\ [Next]_vars => NoRepeatedCrawl'
    <2> SUFFICES ASSUME SInv, WithinCapacity, NoRepeatedCrawl, [Next]_vars, Concurrency = 1,
                        NEW p \in Searches, stage'[p] = "crawling"
                 PROVE  titles'[p] \notin DOMAIN entries'
      BY DEF NoRepeatedCrawl
    <2>1. CASE stage[p] # "crawling"
      BY <2>1, CrawlStarts DEF SInv
    <2>2. CASE stage[p] = "crawling"
      <3>1. titles'[p] = titles[p] /\ titles[p] \notin DOMAIN entries
        BY <2>2, CrawlTitles DEF SInv, NoRepeatedCrawl
      <3>2. ASSUME NEW q \in Searches, stage[q] = "storing"
            PROVE  FALSE
        <4>1. p \in Holders /\ q \in Holders
          BY <2>2, <3>2 DEF Holders
        <4>2. p = q
          BY <4>1, OneHolder
        <4>3. QED
          BY <2>2, <3>2, <4>2
      <3>3. DOMAIN entries' \subseteq DOMAIN entries
        BY <3>2, EntriesGrow
      <3>4. QED
        BY <3>1, <3>3
    <2>3. QED
      BY <2>1, <2>2
  <1>3. QED
    BY <1>1, <1>2, SlotInvariant, SlotsLimited, PTL DEF Spec

-----------------------------------------------------------------------------
(* Answers that come in time are kept                                      *)

\* The shape of a search's channel and of what it has received.
ChannelShape ==
    /\ DOMAIN crawl = Searches /\ \A p \in Searches : DOMAIN crawl[p] = Names
    /\ DOMAIN outcomes = Searches
    /\ DOMAIN collected = Searches
    /\ DOMAIN done = Searches

Answered(messages) == {m.title : m \in messages}

\* Before the crawl there is nothing to receive.
Untouched(p) ==
    /\ outcomes[p] = {} /\ collected[p] = {}
    /\ \A t \in Names : crawl[p][t] # "running"

\* During the crawl each goroutine that has ended has one message, in the channel
\* or received.
Tallied(p) ==
    /\ \A t \in Names : crawl[p][t] = "running" => t \in titles[p]
    /\ \A m \in outcomes[p] \cup collected[p] : m.title \in titles[p] /\ crawl[p][m.title] = "sent"
    /\ \A m, n \in outcomes[p] \cup collected[p] : m.title = n.title => m = n
    /\ outcomes[p] \cap collected[p] = {}
    /\ IsFiniteSet(collected[p])
    /\ Cardinality(Answered(collected[p])) = Cardinality(collected[p])

\* After it only late messages are left in the channel, and no other can come.
Drained(p) ==
    /\ \A m \in outcomes[p] : m.late
    /\ done[p] \/ \A t \in Names : crawl[p][t] # "running"

Books(p) ==
    /\ stage[p] \in {"idle", "looking", "queuing", "relooking"} => Untouched(p)
    /\ stage[p] = "crawling" => Tallied(p)
    /\ stage[p] \in {"storing", "returned"} => Drained(p)

BInv == ChannelShape /\ \A p \in Searches : Books(p)

\* What Books is about.
SameBooks(p) ==
    /\ stage'[p] = stage[p] /\ titles'[p] = titles[p] /\ crawl'[p] = crawl[p]
    /\ outcomes'[p] = outcomes[p] /\ collected'[p] = collected[p]
    /\ done[p] => done'[p]

\* Without a change to it the books stay in order.
LEMMA SameBooksKeeps ==
    ASSUME NEW p \in Searches, Books(p), SameBooks(p)
    PROVE  Books(p)'
  BY DEF Books, SameBooks, Untouched, Tallied, Drained, Answered

\* A search that returns has emptied its channel or left late messages in it.
LEMMA ReturnDrains ==
    ASSUME Shape, ChannelShape, NEW p \in Searches, NEW outcome, Return(p, outcome),
           UNCHANGED <<crawl, outcomes>>, \A m \in outcomes[p] : m.late
    PROVE  ChannelShape' /\ Books(p)' /\ \A q \in Searches \ {p} :
             done'[q] = done[q] /\ collected'[q] = collected[q]
  <1>1. /\ stage'[p] = "returned" /\ done'[p] = TRUE
        /\ DOMAIN done' = Searches /\ DOMAIN collected' = Searches
    BY DEF Return, Shape, ChannelShape
  <1>2. Drained(p)'
    BY <1>1 DEF Drained
  <1>3. QED
    BY <1>1, <1>2 DEF Books, ChannelShape, Return

\* Once every title is received the channel is empty, for each message there is of
\* a title of its own.
LEMMA AllReceived ==
    ASSUME NEW p \in Searches, titles[p] \in SUBSET Names, Tallied(p), NEW m \in outcomes[p],
           Cardinality(collected[p]) + 1 = Cardinality(titles[p])
    PROVE  outcomes[p] \ {m} = {} /\ \A t \in Names : crawl[p][t] # "running"
  <1> DEFINE received == collected[p] \cup {m}
  <1>1. m \notin collected[p] /\ m.title \notin Answered(collected[p])
    BY DEF Tallied, Answered
  <1>2. IsFiniteSet(Names)
    BY SearchAssumption, Zenon
  <1>3. IsFiniteSet(titles[p])
    BY <1>2, FS_Subset
  <1>4. Answered(collected[p]) \subseteq titles[p] /\ IsFiniteSet(Answered(collected[p]))
    <2>1. Answered(collected[p]) \in SUBSET titles[p]
      BY DEF Tallied, Answered
    <2>2. QED
      BY <1>3, <2>1, FS_Subset
  <1>5. Answered(received) = Answered(collected[p]) \cup {m.title}
    BY DEF Answered
  <1>6. /\ Cardinality(Answered(received)) = Cardinality(Answered(collected[p])) + 1
        /\ Answered(received) \in SUBSET titles[p]
    BY <1>1, <1>4, <1>5, FS_AddElement DEF Tallied
  <1>7. Cardinality(Answered(received)) = Cardinality(titles[p])
    BY <1>6 DEF Tallied
  <1>8. Answered(received) = titles[p]
    BY <1>3, <1>6, <1>7, FS_Subset
  <1>9. ASSUME NEW n \in outcomes[p], n # m
        PROVE  FALSE
    <2>1. n.title \in Answered(received)
      BY <1>8 DEF Tallied
    <2>2. PICK r \in received : r.title = n.title
      BY <2>1 DEF Answered
    <2>3. r = n
      BY <2>2 DEF Tallied
    <2>4. QED
      BY <1>9, <2>3 DEF Tallied
  <1>10. ASSUME NEW t \in Names, crawl[p][t] = "running"
         PROVE  FALSE
    <2>1. t \in Answered(received)
      BY <1>8, <1>10 DEF Tallied
    <2>2. PICK r \in received : r.title = t
      BY <2>1 DEF Answered
    <2>3. QED
      BY <1>10, <2>2 DEF Tallied
  <1>11. QED
    BY <1>9, <1>10

\* The steps of a search, of its titles and of its context.
StepOf(p) == SearchNext(p) \/ (\E t \in Names : Answer(p, t)) \/ Expire(p) \/ Cancel(p)

\* They change the books of no other search.
LEMMA OtherBooks ==
    ASSUME Shape, ChannelShape, NEW p \in Searches, StepOf(p)
    PROVE  ChannelShape' /\ \A q \in Searches \ {p} : SameBooks(q)
  <1>1. CASE Arrive(p) \/ GiveUp(p)
    BY <1>1 DEF Arrive, GiveUp, Return, Shape, ChannelShape, SameBooks
  <1>2. CASE Look(p) \/ LookAgain(p)
    BY <1>2 DEF Look, LookAgain, StartCrawl, Return, Shape, ChannelShape, SameBooks
  <1>3. CASE Acquire(p) \/ Expire(p) \/ Cancel(p)
    BY <1>3 DEF Acquire, Expire, Cancel, crawlVars, Shape, ChannelShape, SameBooks
  <1>4. CASE Collect(p) \/ StopCollecting(p)
    BY <1>4 DEF Collect, StopCollecting, Merge, Shape, ChannelShape, SameBooks
  <1>5. CASE Store(p)
    BY <1>5 DEF Store, Return, Shape, ChannelShape, SameBooks
  <1>6. CASE \E t \in Names : Answer(p, t)
    BY <1>6 DEF Answer, Shape, ChannelShape, SameBooks
  <1>7. QED
    BY <1>1, <1>2, <1>3, <1>4, <1>5, <1>6 DEF StepOf, SearchNext

\* A title's goroutine sends one message, which is late once the search has gone on
\* without it.
LEMMA AnswerKeeps ==
    ASSUME Shape, ChannelShape, NEW p \in Searches, Books(p), NEW t \in Names, Answer(p, t)
    PROVE  Books(p)'
  <1>1. PICK m : /\ outcomes' = [outcomes EXCEPT ![p] = @ \cup {m}]
                 /\ m.title = t /\ m.late = done[p]
    <2>1. PICK ok \in BOOLEAN, hits \in SUBSET Records :
            outcomes' = [outcomes EXCEPT ![p] = @ \cup
                          {[title |-> t, ok |-> ok, hits |-> hits, late |-> done[p]]}]
      BY DEF Answer
    <2>2. [title |-> t, ok |-> ok, hits |-> hits, late |-> done[p]].title = t
      OBVIOUS
    <2>3. [title |-> t, ok |-> ok, hits |-> hits, late |-> done[p]].late = done[p]
      BY Zenon
    <2>4. QED
      BY <2>1, <2>2, <2>3, Zenon
  <1>2. /\ crawl[p][t] = "running" /\ crawl' = [crawl EXCEPT ![p][t] = "sent"]
        /\ UNCHANGED <<stage, titles, done, collected>>
    BY DEF Answer
  <1>3. outcomes'[p] = outcomes[p] \cup {m} /\ crawl'[p] = [crawl[p] EXCEPT ![t] = "sent"]
    BY <1>1, <1>2 DEF ChannelShape
  <1>4. /\ crawl'[p][t] = "sent"
        /\ \A u \in Names : u # t => crawl'[p][u] = crawl[p][u]
    BY <1>3 DEF ChannelShape
  <1>5. stage[p] \notin {"idle", "looking", "queuing", "relooking"}
    BY <1>2 DEF Books, Untouched
  <1>6. ASSUME stage[p] = "crawling"
        PROVE  Tallied(p)'
    <2>1. Tallied(p)
      BY <1>6 DEF Books
    <2>2. \A n \in outcomes[p] \cup collected[p] : n.title # t
      BY <1>2, <2>1 DEF Tallied
    <2>3. \A u \in Names : crawl'[p][u] = "running" => u \in titles'[p]
      BY <1>2, <1>4, <2>1 DEF Tallied
    <2>4. \A n \in outcomes'[p] \cup collected'[p] : n.title \in titles'[p] /\ crawl'[p][n.title] = "sent"
      <3>1. ASSUME NEW n \in outcomes[p] \cup collected[p]
            PROVE  n.title \in titles[p] /\ crawl'[p][n.title] = "sent"
        <4>1. n.title \in titles[p] /\ crawl[p][n.title] = "sent" /\ titles[p] \in SUBSET Names
          BY <2>1 DEF Tallied, Shape
        <4>2. QED
          BY <1>4, <2>2, <4>1
      <3>2. m.title \in titles[p]
        BY <1>1, <1>2, <2>1 DEF Tallied
      <3>3. QED
        BY <1>1, <1>2, <1>3, <1>4, <3>1, <3>2
    <2>5. \A n, o \in outcomes'[p] \cup collected'[p] : n.title = o.title => n = o
      BY <1>1, <1>2, <1>3, <2>1, <2>2 DEF Tallied
    <2>6. outcomes'[p] \cap collected'[p] = {}
      BY <1>1, <1>2, <1>3, <2>1, <2>2 DEF Tallied
    <2>7. QED
      BY <1>2, <2>1, <2>3, <2>4, <2>5, <2>6 DEF Tallied, Answered
  <1>7. ASSUME stage[p] \in {"storing", "returned"}
        PROVE  Drained(p)'
    <2>1. done[p] /\ \A n \in outcomes[p] : n.late
      BY <1>2, <1>7 DEF Books, Drained
    <2>2. m.late
      BY <1>1, <2>1, Zenon
    <2>3. QED
      BY <1>2, <1>3, <2>1, <2>2 DEF Drained
  <1>8. stage[p] \in {"crawling", "storing", "returned"} /\ stage'[p] = stage[p]
    BY <1>2, <1>5 DEF Shape, Stages
  <1>9. QED
    BY <1>6, <1>7, <1>8 DEF Books

\* A message is received, and with the last one the search goes on.
LEMMA CollectKeeps ==
    ASSUME Shape, ChannelShape, NEW p \in Searches, Books(p), Collect(p)
    PROVE  Books(p)'
  <1>1. PICK m \in outcomes[p] :
          /\ outcomes' = [outcomes EXCEPT ![p] = @ \ {m}]
          /\ collected' = [collected EXCEPT ![p] = @ \cup {m}]
          /\ \/ /\ Cardinality(collected[p]) + 1 = Cardinality(titles[p])
                /\ stage' = [stage EXCEPT ![p] = "storing"]
             \/ UNCHANGED stage
    BY DEF Collect, Merge
  <1>2. stage[p] = "crawling" /\ Tallied(p) /\ UNCHANGED <<titles, done, crawl>>
    BY DEF Collect, Books
  <1>3. outcomes'[p] = outcomes[p] \ {m} /\ collected'[p] = collected[p] \cup {m}
    BY <1>1 DEF ChannelShape
  <1>4. CASE /\ Cardinality(collected[p]) + 1 = Cardinality(titles[p])
             /\ stage' = [stage EXCEPT ![p] = "storing"]
    <2>1. outcomes'[p] = {} /\ \A t \in Names : crawl'[p][t] # "running"
      BY <1>2, <1>3, <1>4, AllReceived DEF Shape
    <2>2. stage'[p] = "storing"
      BY <1>4 DEF Shape
    <2>3. QED
      BY <2>1, <2>2 DEF Books, Drained
  <1>5. CASE UNCHANGED stage
    <2>1. m \notin collected[p] /\ m.title \notin Answered(collected[p])
      BY <1>2 DEF Tallied, Answered
    <2>2. Answered(collected'[p]) = Answered(collected[p]) \cup {m.title}
      BY <1>3 DEF Answered
    <2>3. IsFiniteSet(Answered(collected[p]))
      <3>1. IsFiniteSet(Names)
        BY SearchAssumption, Zenon
      <3>2. Answered(collected[p]) \in SUBSET Names
        BY <1>2 DEF Tallied, Answered, Shape
      <3>3. QED
        BY <3>1, <3>2, FS_Subset
    <2>4. Cardinality(Answered(collected'[p])) = Cardinality(Answered(collected[p])) + 1
      BY <2>1, <2>2, <2>3, FS_AddElement
    <2>5. /\ IsFiniteSet(collected'[p])
          /\ Cardinality(collected'[p]) = Cardinality(collected[p]) + 1
      <3>1. IsFiniteSet(collected[p])
        BY <1>2 DEF Tallied
      <3>2. /\ IsFiniteSet(collected[p] \cup {m})
            /\ Cardinality(collected[p] \cup {m}) = Cardinality(collected[p]) + 1
        BY <2>1, <3>1, FS_AddElement
      <3>3. QED
        BY <1>3, <3>2
    <2>6. Cardinality(Answered(collected'[p])) = Cardinality(collected'[p])
      BY <1>2, <2>4, <2>5 DEF Tallied
    <2>7. outcomes'[p] \cup collected'[p] = outcomes[p] \cup collected[p]
      BY <1>3
    <2>8. outcomes'[p] \cap collected'[p] = {}
      BY <1>2, <1>3 DEF Tallied
    <2>9. Tallied(p)'
      BY <1>2, <2>5, <2>6, <2>7, <2>8 DEF Tallied, Answered
    <2>10. QED
      BY <1>2, <1>5, <2>9 DEF Books
  <1>6. QED
    BY <1>1, <1>4, <1>5

\* The other steps of a search and of its context.
LEMMA StepKeeps ==
    ASSUME Shape, ChannelShape, NEW p \in Searches, Books(p), StepOf(p)
    PROVE  Books(p)'
  <1>1. CASE Arrive(p)
    <2>1. /\ Untouched(p) /\ UNCHANGED <<crawl, outcomes>>
          /\ \/ \E outcome : Return(p, outcome)
             \/ stage'[p] = "looking" /\ UNCHANGED collected
      BY <1>1 DEF Arrive, Books, Shape
    <2>2. QED
      BY <2>1, ReturnDrains DEF Books, Untouched
  <1>2. CASE Look(p)
    <2>1. /\ Untouched(p) /\ UNCHANGED <<crawl, outcomes>>
          /\ \/ \E outcome : Return(p, outcome)
             \/ stage'[p] = "queuing" /\ UNCHANGED collected
      BY <1>2 DEF Look, Books, Shape
    <2>2. QED
      BY <2>1, ReturnDrains DEF Books, Untouched
  <1>3. CASE Acquire(p)
    <2>1. /\ Untouched(p) /\ UNCHANGED <<crawl, outcomes, collected>>
          /\ stage'[p] = "relooking"
      BY <1>3 DEF Acquire, Books, Shape, crawlVars
    <2>2. QED
      BY <2>1 DEF Books, Untouched
  <1>4. CASE GiveUp(p)
    <2>1. Untouched(p) /\ UNCHANGED <<crawl, outcomes>> /\ \E outcome : Return(p, outcome)
      BY <1>4 DEF GiveUp, Books
    <2>2. QED
      BY <2>1, ReturnDrains DEF Untouched
  <1>5. CASE LookAgain(p)
    <2>1. /\ Untouched(p) /\ UNCHANGED <<titles, outcomes>>
          /\ \/ UNCHANGED crawl /\ \E outcome : Return(p, outcome)
             \/ StartCrawl(p) /\ UNCHANGED collected
      BY <1>5 DEF LookAgain, Books
    <2>2. CASE StartCrawl(p) /\ UNCHANGED collected
      <3>1. /\ stage'[p] = "crawling" /\ outcomes'[p] = {} /\ collected'[p] = {}
            /\ \A t \in Names : crawl'[p][t] = "running" => t \in titles'[p]
        BY <2>1, <2>2 DEF StartCrawl, Untouched, Shape, ChannelShape
      <3>2. Answered(collected'[p]) = {}
        BY <3>1 DEF Answered
      <3>3. Tallied(p)'
        BY <3>1, <3>2, FS_EmptySet DEF Tallied, Answered
      <3>4. QED
        BY <3>1, <3>3 DEF Books
    <2>3. QED
      BY <2>1, <2>2, ReturnDrains DEF Untouched
  <1>6. CASE Collect(p)
    BY <1>6, CollectKeeps
  <1>7. CASE StopCollecting(p)
    <2>1. outcomes'[p] = {} /\ done[p] /\ UNCHANGED done /\ stage'[p] = "storing"
      BY <1>7 DEF StopCollecting, Merge, Shape, ChannelShape
    <2>2. QED
      BY <2>1 DEF Books, Drained
  <1>8. CASE Store(p)
    <2>1. Drained(p) /\ UNCHANGED <<crawl, outcomes>> /\ \E outcome : Return(p, outcome)
      BY <1>8 DEF Store, Books
    <2>2. QED
      BY <2>1, ReturnDrains DEF Drained
  <1>9. CASE \E t \in Names : Answer(p, t)
    BY <1>9, AnswerKeeps
  <1>10. CASE Expire(p) \/ Cancel(p)
    <2>1. SameBooks(p)
      BY <1>10 DEF Expire, Cancel, crawlVars, ChannelShape, SameBooks
    <2>2. QED
      BY <2>1, SameBooksKeeps
  <1>11. QED
    BY <1>1, <1>2, <1>3, <1>4, <1>5, <1>6, <1>7, <1>8, <1>9, <1>10 DEF StepOf, SearchNext

\* What a title had delivered before the deadline is in the result: a search stops
\* receiving only when its channel is empty, and what comes then is late.
THEOREM InTimeIsKept == Spec => []OnTimeAnswersKept
  <1>1. Init => BInv
    <2> SUFFICES ASSUME Init, NEW p \in Searches PROVE ChannelShape /\ Books(p)
      BY DEF Init, BInv, ChannelShape
    <2>1. stage[p] = "idle" /\ Untouched(p)
      BY DEF Init, Untouched
    <2>2. QED
      BY <2>1 DEF Init, ChannelShape, Books
  <1>2. Shape /\ BInv /\ [Next]_vars => BInv'
    <2> SUFFICES ASSUME Shape, BInv, [Next]_vars PROVE BInv'
      OBVIOUS
    <2>1. ASSUME NEW p \in Searches, StepOf(p) PROVE BInv'
      <3>1. ChannelShape' /\ Books(p)'
        BY <2>1, OtherBooks, StepKeeps DEF BInv
      <3>2. ASSUME NEW q \in Searches, q # p PROVE Books(q)'
        BY <2>1, <3>2, OtherBooks, SameBooksKeeps DEF BInv
      <3>3. QED
        BY <3>1, <3>2 DEF BInv
    <2>2. CASE BeginCandidates \/ EndCandidates \/ Tick \/ UNCHANGED vars
      <3>1. UNCHANGED <<stage, titles, done, crawl, outcomes, collected>>
        BY <2>2 DEF BeginCandidates, EndCandidates, Tick, vars, crawlVars
      <3>2. \A p \in Searches : SameBooks(p)
        BY <3>1 DEF SameBooks
      <3>3. ChannelShape'
        BY <3>1 DEF BInv, ChannelShape
      <3>4. QED
        BY <3>2, <3>3, SameBooksKeeps DEF BInv
    <2>3. QED
      BY <2>1, <2>2 DEF Next, StepOf
  <1>3. BInv => OnTimeAnswersKept
    BY DEF BInv, Books, Drained, OnTimeAnswersKept
  <1>4. CInv => Shape
    BY DEF CInv
  <1>5. QED
    BY <1>1, <1>2, <1>3, <1>4, CompletenessInvariant, PTL DEF Spec

-----------------------------------------------------------------------------
(* Lists without repetitions                                               *)

UpTo(S, i) == {j \in S : j <= i}

\* Of two places the later has more places up to it.
LEMMA PlacesApart ==
  ASSUME NEW S, IsFiniteSet(S), S \subseteq Nat, NEW i \in S, NEW j \in S, i < j
  PROVE  Cardinality(UpTo(S, i)) < Cardinality(UpTo(S, j))
<1>1. UpTo(S, i) \subseteq UpTo(S, j) /\ UpTo(S, j) \subseteq S
  <2>1. \A l \in S : l <= i => l <= j
    OBVIOUS
  <2> QED
    BY <2>1 DEF UpTo
<1>2. j \in UpTo(S, j) /\ j \notin UpTo(S, i)
  BY DEF UpTo
<1>3. IsFiniteSet(UpTo(S, j)) /\ IsFiniteSet(UpTo(S, i))
  BY <1>1, FS_Subset
<1>4. Cardinality(UpTo(S, i)) <= Cardinality(UpTo(S, j)) /\ Cardinality(UpTo(S, i)) # Cardinality(UpTo(S, j))
  BY <1>1, <1>2, <1>3, FS_Subset
<1> QED
  BY <1>3, <1>4, FS_CardinalityType

\* A set of places has an n-th one, for every n up to its size.
LEMMA PlacesExist ==
  ASSUME NEW S, IsFiniteSet(S), S \subseteq Nat, NEW n \in 1..Cardinality(S)
  PROVE  \E i \in S : Cardinality(UpTo(S, i)) = n
<1> DEFINE size  == Cardinality(S)
           count == [i \in S |-> Cardinality(UpTo(S, i))]
<1>1. size \in Nat
  BY FS_CardinalityType
<1>2. ASSUME NEW i \in S PROVE count[i] \in 1..size
  <2>1. UpTo(S, i) \subseteq S /\ i \in UpTo(S, i)
    BY DEF UpTo
  <2>2. IsFiniteSet(UpTo(S, i)) /\ Cardinality(UpTo(S, i)) <= size
    BY <2>1, FS_Subset
  <2>3. Cardinality(UpTo(S, i)) \in Nat /\ Cardinality(UpTo(S, i)) # 0
    BY <2>1, <2>2, FS_CardinalityType, FS_EmptySet
  <2> QED
    BY <1>1, <2>2, <2>3
<1>3. ASSUME NEW i \in S, NEW j \in S, i # j PROVE count[i] # count[j]
  <2>1. i < j \/ j < i
    BY <1>3
  <2>2. count[i] < count[j] \/ count[j] < count[i]
    BY <2>1, PlacesApart
  <2> QED
    BY <1>2, <2>2, <1>1
<1>4. count \in [S -> 1..size]
  BY <1>2
<1>5. count \in Injection(S, 1..size)
  BY <1>3, <1>4 DEF Injection, IsInjective
<1>6. IsFiniteSet(1..size) /\ Cardinality(1..size) = size
  BY <1>1, FS_Interval
<1>7. count \in Surjection(S, 1..size)
  BY <1>5, <1>6, FS_Injection
<1>8. \E i \in S : count[i] = n
  BY <1>7 DEF Surjection
<1> QED
  BY <1>8

Kept(list, keys) == {i \in DOMAIN list : list[i] \notin keys}

\* What is left of a list: the kept places, in their order.
LEMMA WithoutIs ==
  ASSUME NEW A, NEW list \in Seq(A), NEW keys
  PROVE  /\ DOMAIN Without(list, keys) = 1..Cardinality(Kept(list, keys))
         /\ Cardinality(Kept(list, keys)) \in Nat
         /\ \E place \in [1..Cardinality(Kept(list, keys)) -> Kept(list, keys)] :
              /\ \A n \in 1..Cardinality(Kept(list, keys)) : Without(list, keys)[n] = list[place[n]]
              /\ \A i \in Kept(list, keys) : \E n \in 1..Cardinality(Kept(list, keys)) : place[n] = i
              /\ \A m, n \in 1..Cardinality(Kept(list, keys)) : m < n => place[m] < place[n]
<1> DEFINE kept  == Kept(list, keys)
           size  == Cardinality(kept)
           Place(n) == CHOOSE i \in kept : Cardinality(UpTo(kept, i)) = n
           place == [n \in 1..size |-> Place(n)]
<1>1. kept \subseteq 1..Len(list) /\ Len(list) \in Nat
  BY DEF Kept
<1>2. IsFiniteSet(kept) /\ kept \subseteq Nat
  <2>1. IsFiniteSet(1..Len(list))
    BY <1>1, FS_Interval
  <2> QED
    BY <1>1, <2>1, FS_Subset
<1>3. size \in Nat
  BY <1>2, FS_CardinalityType
<1>4. Without(list, keys) = [n \in 1..size |-> list[Place(n)]]
  BY DEF Without, Kept, UpTo
<1> HIDE DEF kept
<1>5. ASSUME NEW n \in 1..size PROVE Place(n) \in kept /\ Cardinality(UpTo(kept, Place(n))) = n
  BY <1>2, PlacesExist
<1>6. ASSUME NEW i \in kept PROVE Cardinality(UpTo(kept, i)) \in 1..size
  <2>1. UpTo(kept, i) \subseteq kept /\ i \in UpTo(kept, i)
    BY <1>2 DEF UpTo
  <2>2. IsFiniteSet(UpTo(kept, i)) /\ Cardinality(UpTo(kept, i)) <= size
    BY <1>2, <2>1, FS_Subset
  <2>3. Cardinality(UpTo(kept, i)) \in Nat /\ Cardinality(UpTo(kept, i)) # 0
    BY <2>1, <2>2, FS_CardinalityType, FS_EmptySet
  <2> QED
    BY <1>3, <2>2, <2>3
<1>7. \A i, j \in kept : i < j => Cardinality(UpTo(kept, i)) < Cardinality(UpTo(kept, j))
  BY <1>2, PlacesApart
<1>8. \A i, j \in kept : Cardinality(UpTo(kept, i)) = Cardinality(UpTo(kept, j)) => i = j
  <2> SUFFICES ASSUME NEW i \in kept, NEW j \in kept, i # j
               PROVE  Cardinality(UpTo(kept, i)) # Cardinality(UpTo(kept, j))
    OBVIOUS
  <2>1. i < j \/ j < i
    BY <1>2
  <2> QED
    BY <1>3, <1>6, <1>7, <2>1
<1>9. \A n \in 1..size : place[n] = Place(n)
  OBVIOUS
<1> HIDE DEF Place, place
<1>10. ASSUME NEW i \in kept PROVE \E n \in 1..size : place[n] = i
  BY <1>5, <1>6, <1>8, <1>9
<1>11. ASSUME NEW m \in 1..size, NEW n \in 1..size, m < n PROVE place[m] < place[n]
  <2>1. /\ Place(m) \in kept /\ Cardinality(UpTo(kept, Place(m))) = m
        /\ Place(n) \in kept /\ Cardinality(UpTo(kept, Place(n))) = n
    BY <1>5
  <2>2. ~(Place(n) < Place(m)) /\ Place(n) # Place(m)
    BY <1>3, <1>7, <1>11, <2>1
  <2>3. place[m] = Place(m) /\ place[n] = Place(n)
    BY <1>9
  <2>4. Place(m) \in Nat /\ Place(n) \in Nat
    BY <1>2, <2>1
  <2>5. Place(m) < Place(n)
    BY <2>2, <2>4
  <2> QED
    BY <2>3, <2>5
<1>12. place \in [1..size -> kept]
  BY <1>5 DEF place
<1>13. \A n \in 1..size : Without(list, keys)[n] = list[place[n]]
  BY <1>4, <1>9
<1> QED
  BY <1>3, <1>4, <1>10, <1>11, <1>12, <1>13 DEF kept

Single(list) == \A i, j \in DOMAIN list : list[i] = list[j] => i = j

\* The one key is ahead of the other.
Ahead(list, a, b) == \E i, j \in DOMAIN list : i < j /\ list[i] = a /\ list[j] = b

\* Leaving keys out of a list does not change the order of the others.
LEMMA WithoutKeepsOrder ==
  ASSUME NEW A, NEW list \in Seq(A), NEW keys, NEW shorter, shorter = Without(list, keys)
  PROVE  /\ shorter \in Seq(A)
         /\ KeysOf(shorter) = KeysOf(list) \ keys
         /\ Single(list) => Single(shorter)
         /\ \A a, b : Ahead(shorter, a, b) <=> Ahead(list, a, b) /\ a \notin keys /\ b \notin keys
<1> DEFINE kept == Kept(list, keys)
           size == Cardinality(kept)
<1>1. DOMAIN shorter = 1..size /\ size \in Nat
  BY WithoutIs
<1>2. PICK place \in [1..size -> kept] :
        /\ \A n \in 1..size : shorter[n] = list[place[n]]
        /\ \A i \in kept : \E n \in 1..size : place[n] = i
        /\ \A m, n \in 1..size : m < n => place[m] < place[n]
  BY WithoutIs
<1>3. kept = {i \in DOMAIN list : list[i] \notin keys} /\ kept \subseteq Nat
  BY DEF Kept
<1> HIDE DEF kept, size
<1>4. shorter = [n \in 1..size |-> shorter[n]] /\ \A n \in 1..size : shorter[n] \in A
  <2>1. shorter = [n \in 1..size |-> shorter[n]]
    BY <1>1 DEF Without
  <2>2. \A n \in 1..size : place[n] \in DOMAIN list
    BY <1>2, <1>3
  <2> QED
    BY <1>2, <2>1, <2>2
<1>5. shorter \in Seq(A)
  BY <1>1, <1>4
<1>6. KeysOf(shorter) = KeysOf(list) \ keys
  <2>1. ASSUME NEW n \in 1..size PROVE shorter[n] \in KeysOf(list) \ keys
    <3>1. place[n] \in DOMAIN list /\ list[place[n]] \notin keys
      BY <1>2, <1>3
    <3> QED
      BY <1>2, <3>1 DEF KeysOf
  <2>2. ASSUME NEW i \in DOMAIN list, list[i] \notin keys PROVE list[i] \in KeysOf(shorter)
    <3>1. PICK n \in 1..size : place[n] = i
      BY <1>2, <1>3, <2>2
    <3> QED
      BY <1>1, <1>2, <3>1 DEF KeysOf
  <2> QED
    BY <1>1, <2>1, <2>2 DEF KeysOf
<1>7. ASSUME Single(list) PROVE Single(shorter)
  <2> SUFFICES ASSUME NEW m \in 1..size, NEW n \in 1..size, shorter[m] = shorter[n]
               PROVE  m = n
    BY <1>1 DEF Single
  <2>1. place[m] = place[n] /\ place[m] \in Nat
    BY <1>2, <1>3, <1>7 DEF Single
  <2>2. ~(m < n) /\ ~(n < m)
    BY <1>2, <2>1
  <2> QED
    BY <1>1, <2>2
<1>8. ASSUME NEW a, NEW b, Ahead(shorter, a, b)
      PROVE  Ahead(list, a, b) /\ a \notin keys /\ b \notin keys
  <2>1. PICK m \in 1..size, n \in 1..size : m < n /\ shorter[m] = a /\ shorter[n] = b
    BY <1>1, <1>8 DEF Ahead
  <2>2. place[m] < place[n] /\ list[place[m]] = a /\ list[place[n]] = b
    BY <1>2, <2>1
  <2>3. place[m] \in DOMAIN list /\ place[n] \in DOMAIN list /\ a \notin keys /\ b \notin keys
    BY <1>2, <1>3, <2>2
  <2> QED
    BY <2>2, <2>3 DEF Ahead
<1>9. ASSUME NEW a, NEW b, Ahead(list, a, b), a \notin keys, b \notin keys
      PROVE  Ahead(shorter, a, b)
  <2>1. PICK i \in DOMAIN list, j \in DOMAIN list : i < j /\ list[i] = a /\ list[j] = b
    BY <1>9 DEF Ahead
  <2>2. i \in kept /\ j \in kept /\ i \in Nat /\ j \in Nat
    BY <1>3, <1>9, <2>1
  <2>3. PICK m \in 1..size : place[m] = i
    BY <1>2, <2>2
  <2>4. PICK n \in 1..size : place[n] = j
    BY <1>2, <2>2
  <2>5. ~(n < m) /\ m # n
    BY <1>2, <2>1, <2>2, <2>3, <2>4
  <2>6. m < n
    BY <1>1, <2>5
  <2> QED
    BY <1>1, <1>2, <2>1, <2>3, <2>4, <2>6 DEF Ahead
<1> QED
  BY <1>5, <1>6, <1>7, <1>8, <1>9

\* The list, its key k moved or added to the front: k is ahead of all others,
\* whose order does not change.
MovedToFront(A, list, k, longer) ==
    /\ longer \in Seq(A)
    /\ KeysOf(longer) = KeysOf(list) \cup {k}
    /\ Single(list) => Single(longer)
    /\ \A a, b : Ahead(longer, a, b) <=>
         \/ a = k /\ b # k /\ b \in KeysOf(list)
         \/ Ahead(list, a, b) /\ a # k /\ b # k
    /\ 1 \in DOMAIN longer /\ longer[1] = k

\* AtFront, what the cache's PushFront and MoveToFront do, moves to the front.
LEMMA FrontGoesFirst ==
  ASSUME NEW A, NEW list \in Seq(A), NEW k \in A, NEW longer, longer = AtFront(k, list)
  PROVE  MovedToFront(A, list, k, longer)
<1> DEFINE others == Without(list, {k})
<1>1. /\ others \in Seq(A) /\ KeysOf(others) = KeysOf(list) \ {k}
      /\ Single(list) => Single(others)
      /\ \A a, b : Ahead(others, a, b) <=> Ahead(list, a, b) /\ a # k /\ b # k
  BY WithoutKeepsOrder
<1>2. longer = <<k>> \o others
  BY DEF AtFront
<1> HIDE DEF others
<1>3. /\ longer \in Seq(A) /\ Len(longer) = Len(others) + 1 /\ longer[1] = k
      /\ \A i \in DOMAIN others : i + 1 \in DOMAIN longer /\ longer[i + 1] = others[i]
      /\ \A i \in DOMAIN longer : i # 1 => i - 1 \in DOMAIN others /\ others[i - 1] = longer[i]
  BY <1>1, <1>2
<1>4. DOMAIN longer = 1..(Len(others) + 1) /\ DOMAIN others = 1..Len(others) /\ Len(others) \in Nat
  BY <1>1, <1>3
<1>5. KeysOf(longer) = KeysOf(others) \cup {k}
  <2>1. \A i \in DOMAIN longer : longer[i] \in KeysOf(others) \cup {k}
    BY <1>3 DEF KeysOf
  <2>2. \A i \in DOMAIN others : others[i] \in KeysOf(longer)
    BY <1>3 DEF KeysOf
  <2>3. k \in KeysOf(longer)
    BY <1>3, <1>4 DEF KeysOf
  <2> QED
    BY <2>1, <2>2, <2>3 DEF KeysOf
<1>6. \A i \in DOMAIN longer : longer[i] = k => i = 1
  <2>1. k \notin KeysOf(others)
    BY <1>1
  <2> QED
    BY <1>3, <2>1 DEF KeysOf
<1>7. ASSUME Single(list) PROVE Single(longer)
  <2> SUFFICES ASSUME NEW i \in DOMAIN longer, NEW j \in DOMAIN longer, longer[i] = longer[j]
               PROVE  i = j
    BY DEF Single
  <2>1. CASE i = 1 \/ j = 1
    BY <1>3, <1>6, <2>1
  <2>2. CASE i # 1 /\ j # 1
    <3>1. i - 1 \in DOMAIN others /\ j - 1 \in DOMAIN others /\ others[i - 1] = others[j - 1]
      BY <1>3, <2>2
    <3>2. i - 1 = j - 1
      BY <1>1, <1>7, <3>1 DEF Single
    <3> QED
      BY <1>4, <3>2
  <2> QED
    BY <2>1, <2>2
<1>8. ASSUME NEW a, NEW b, Ahead(longer, a, b)
      PROVE  (a = k /\ b # k /\ b \in KeysOf(list)) \/ (Ahead(list, a, b) /\ a # k /\ b # k)
  <2>1. PICK i \in DOMAIN longer, j \in DOMAIN longer : i < j /\ longer[i] = a /\ longer[j] = b
    BY <1>8 DEF Ahead
  <2>2. j # 1 /\ j - 1 \in DOMAIN others /\ others[j - 1] = b
    BY <1>3, <1>4, <2>1
  <2>3. b \in KeysOf(list) /\ b # k
    BY <1>1, <2>2 DEF KeysOf
  <2>4. CASE i = 1
    BY <1>3, <2>1, <2>3, <2>4
  <2>5. CASE i # 1
    <3>1. i - 1 \in DOMAIN others /\ others[i - 1] = a /\ i - 1 < j - 1
      BY <1>3, <1>4, <2>1, <2>5
    <3>2. Ahead(others, a, b)
      BY <2>2, <3>1 DEF Ahead
    <3> QED
      BY <1>1, <3>2
  <2> QED
    BY <2>4, <2>5
<1>9. ASSUME NEW a, NEW b, Ahead(list, a, b), a # k, b # k PROVE Ahead(longer, a, b)
  <2>1. Ahead(others, a, b)
    BY <1>1, <1>9
  <2>2. PICK i \in DOMAIN others, j \in DOMAIN others : i < j /\ others[i] = a /\ others[j] = b
    BY <2>1 DEF Ahead
  <2>3. i + 1 \in DOMAIN longer /\ j + 1 \in DOMAIN longer /\ i + 1 < j + 1 /\ longer[i + 1] = a /\ longer[j + 1] = b
    BY <1>3, <1>4, <2>2
  <2> QED
    BY <2>3 DEF Ahead
<1>10. ASSUME NEW b, b # k, b \in KeysOf(list) PROVE Ahead(longer, k, b)
  <2>1. b \in KeysOf(others)
    BY <1>1, <1>10
  <2>2. PICK j \in DOMAIN others : others[j] = b
    BY <2>1 DEF KeysOf
  <2>3. 1 \in DOMAIN longer /\ j + 1 \in DOMAIN longer /\ 1 < j + 1 /\ longer[1] = k /\ longer[j + 1] = b
    BY <1>3, <1>4, <2>2
  <2> QED
    BY <2>3 DEF Ahead
<1> QED
  BY <1>1, <1>3, <1>4, <1>5, <1>7, <1>8, <1>9, <1>10 DEF MovedToFront

\* The keys before a place are as many as the places.
LEMMA PlacesCount ==
  ASSUME NEW A, NEW list \in Seq(A), Single(list), NEW n \in 0..Len(list)
  PROVE  IsFiniteSet({list[i] : i \in 1..n}) /\ Cardinality({list[i] : i \in 1..n}) = n
<1> DEFINE S == {list[i] : i \in 1..n}
           place == [i \in 1..n |-> list[i]]
<1>1. n \in Nat /\ \A i \in 1..n : i \in DOMAIN list
  OBVIOUS
<1>2. place \in [1..n -> S] /\ \A x \in S : \E i \in 1..n : place[i] = x
  OBVIOUS
<1>3. \A i, j \in 1..n : place[i] = place[j] => i = j
  BY <1>1 DEF Single
<1>4. place \in Surjection(1..n, S) /\ place \in Injection(1..n, S)
  BY <1>2, <1>3 DEF Surjection, Injection, IsInjective
<1>5. IsFiniteSet(1..n) /\ Cardinality(1..n) = n
  BY <1>1, FS_Interval
<1> QED
  BY <1>4, <1>5, FS_Surjection

\* A key is no further back in a list than in one where at least as many are ahead of it.
LEMMA NoFurther ==
  ASSUME NEW A, NEW list \in Seq(A), NEW other \in Seq(A), Single(list), Single(other),
         NEW p \in DOMAIN list, NEW q \in DOMAIN other, list[p] = other[q],
         \A a : Ahead(list, a, list[p]) => Ahead(other, a, list[p])
  PROVE  p <= q
<1> DEFINE before == {list[i] : i \in 1..p - 1}
           sooner == {other[i] : i \in 1..q - 1}
<1>1. p \in Nat /\ p >= 1 /\ p <= Len(list) /\ q \in Nat /\ q >= 1 /\ q <= Len(other)
  OBVIOUS
<1>2. Cardinality(before) = p - 1 /\ Cardinality(sooner) = q - 1 /\ IsFiniteSet(sooner)
  <2>1. p - 1 \in 0..Len(list) /\ q - 1 \in 0..Len(other)
    BY <1>1
  <2>2. Cardinality(before) = p - 1
    BY <2>1, PlacesCount
  <2>3. Cardinality(sooner) = q - 1 /\ IsFiniteSet(sooner)
    BY <2>1, PlacesCount
  <2> QED
    BY <2>2, <2>3
<1>3. ASSUME NEW a \in before PROVE a \in sooner
  <2>1. PICK i \in 1..p - 1 : a = list[i]
    OBVIOUS
  <2>2. Ahead(list, a, list[p])
    BY <1>1, <2>1 DEF Ahead
  <2>3. PICK m, n \in DOMAIN other : m < n /\ other[m] = a /\ other[n] = list[p]
    BY <2>2 DEF Ahead
  <2>4. n = q
    BY <2>3 DEF Single
  <2>5. m \in 1..q - 1
    BY <1>1, <2>3, <2>4
  <2> QED
    BY <2>3, <2>5
<1>4. p - 1 <= q - 1
  <2> HIDE DEF before, sooner
  <2> QED
    BY <1>2, <1>3, FS_Subset
<1> QED
  BY <1>1, <1>4

\* A list has as many places as keys.
LEMMA LengthCounts ==
  ASSUME NEW A, NEW list \in Seq(A), Single(list)
  PROVE  IsFiniteSet(KeysOf(list)) /\ Cardinality(KeysOf(list)) = Len(list)
<1>1. Len(list) \in 0..Len(list) /\ DOMAIN list = 1..Len(list)
  OBVIOUS
<1>2. KeysOf(list) = {list[i] : i \in 1..Len(list)}
  BY <1>1 DEF KeysOf
<1> QED
  BY <1>1, <1>2, PlacesCount

\* What is left when the keys behind the first ones are evicted.
LEMMA FirstStay ==
  ASSUME NEW A, NEW list \in Seq(A), Single(list), NEW limit \in Nat,
         NEW evicted, evicted = {list[i] : i \in limit + 1 .. Len(list)}
  PROVE  /\ \A i \in DOMAIN list : i <= limit => list[i] \notin evicted
         /\ Len(Without(list, evicted)) <= limit
<1>1. ASSUME NEW i \in DOMAIN list, i <= limit, list[i] \in evicted PROVE FALSE
  <2>1. PICK j \in limit + 1 .. Len(list) : list[i] = list[j]
    BY <1>1
  <2>2. i = j
    BY <2>1 DEF Single
  <2> QED
    BY <1>1, <2>1, <2>2
<1>2. Kept(list, evicted) \subseteq 1..limit
  <2> SUFFICES ASSUME NEW i \in DOMAIN list, list[i] \notin evicted PROVE i \in 1..limit
    BY DEF Kept
  <2>1. i \in 1..Len(list) /\ i \notin limit + 1 .. Len(list)
    OBVIOUS
  <2> QED
    BY <2>1
<1>3. Cardinality(Kept(list, evicted)) <= limit
  <2>1. IsFiniteSet(1..limit) /\ Cardinality(1..limit) = limit
    BY FS_Interval
  <2> QED
    BY <1>2, <2>1, FS_Subset
<1>4. Len(Without(list, evicted)) = Cardinality(Kept(list, evicted))
  <2>1. Without(list, evicted) \in Seq(A)
    BY WithoutKeepsOrder
  <2>2. DOMAIN Without(list, evicted) = 1..Cardinality(Kept(list, evicted))
        /\ Cardinality(Kept(list, evicted)) \in Nat
    BY WithoutIs
  <2> QED
    BY <2>1, <2>2
<1> QED
  BY <1>1, <1>3, <1>4

-----------------------------------------------------------------------------
(* The cache keeps its two halves together                                 *)

\* A list of distinct keys, no more than the limit, the map's keys, and entries of
\* the right kind.
CacheOK(keys, results) ==
    /\ order \in Seq(keys) /\ Single(order) /\ Len(order) <= Limit
    /\ KeysOf(order) = DOMAIN entries
    /\ entries \in [DOMAIN entries -> Entries(results)]

\* The empty cache is in order.
LEMMA CacheStarts ==
    ASSUME NEW keys, NEW results, CacheInit
    PROVE  CacheOK(keys, results)
  <1>1. DOMAIN <<>> = {} /\ Len(<<>>) = 0 /\ <<>> \in Seq(keys)
    OBVIOUS
  <1>2. entries = <<>> /\ order = <<>> /\ 0 <= Limit
    BY LimitAssumption DEF CacheInit
  <1>3. entries \in [DOMAIN entries -> Entries(results)]
    BY <1>1, <1>2
  <1>4. QED
    BY <1>1, <1>2, <1>3 DEF CacheOK, Single, KeysOf

\* A hit only moves its key.
LEMMA HitKeepsCache ==
    ASSUME NEW keys, NEW results, CacheOK(keys, results), NEW k \in keys, NEW t, Hit(k, t)
    PROVE  CacheOK(keys, results)'
  <1>1. k \in DOMAIN entries /\ order' = AtFront(k, order) /\ entries' = entries
    BY DEF Hit, Live
  <1>2. MovedToFront(keys, order, k, order')
    BY <1>1, FrontGoesFirst DEF CacheOK
  <1>3. order' \in Seq(keys) /\ Single(order') /\ KeysOf(order') = DOMAIN entries
    BY <1>1, <1>2 DEF MovedToFront, CacheOK
  <1>4. Len(order') <= Limit
    <2>1. Len(order) = Cardinality(DOMAIN entries)
      BY LengthCounts DEF CacheOK
    <2>2. Len(order') = Cardinality(DOMAIN entries)
      BY <1>3, LengthCounts
    <2>3. QED
      BY <2>1, <2>2 DEF CacheOK
  <1>5. QED
    BY <1>1, <1>3, <1>4 DEF CacheOK

\* A miss drops the key from the list and from the map.
LEMMA MissKeepsCache ==
    ASSUME NEW keys, NEW results, CacheOK(keys, results), NEW k, NEW t, Miss(k, t)
    PROVE  CacheOK(keys, results)'
  <1>1. /\ entries' = [j \in DOMAIN entries \ {k} |-> entries[j]]
        /\ order' = Without(order, {k})
    BY DEF Miss
  <1>2. order' \in Seq(keys) /\ Single(order') /\ KeysOf(order') = DOMAIN entries \ {k}
    BY <1>1, WithoutKeepsOrder DEF CacheOK
  <1>3. Len(order') <= Limit
    <2>1. IsFiniteSet(DOMAIN entries) /\ Cardinality(DOMAIN entries) = Len(order)
      BY LengthCounts DEF CacheOK
    <2>2. Cardinality(DOMAIN entries \ {k}) <= Cardinality(DOMAIN entries)
      BY <2>1, FS_Subset
    <2>3. Cardinality(DOMAIN entries \ {k}) = Len(order')
      BY <1>2, LengthCounts
    <2>4. Len(order) \in Nat /\ Len(order') \in Nat /\ Len(order) <= Limit
      BY <1>2 DEF CacheOK
    <2>5. QED
      BY <2>1, <2>2, <2>3, <2>4, LimitAssumption
  <1>4. DOMAIN entries' = DOMAIN entries \ {k} /\ entries' \in [DOMAIN entries' -> Entries(results)]
    BY <1>1 DEF CacheOK
  <1>5. QED
    BY <1>2, <1>3, <1>4 DEF CacheOK

\* A store sweeps, adds and evicts in both halves alike.
LEMMA PutKeepsCache ==
    ASSUME NEW keys, NEW results, CacheOK(keys, results), NEW k \in keys, NEW r \in results,
           NEW t \in Nat, NEW ttl \in Nat, Put(k, r, t, ttl)
    PROVE  CacheOK(keys, results)'
  <1> DEFINE swept   == {j \in DOMAIN entries : Expired(j, t)}
             rest    == Without(order, swept)
             used    == AtFront(k, rest)
             evicted == {used[i] : i \in Limit + 1 .. Len(used)}
             entry   == [releases |-> r, expires |-> t + ttl]
  <1>1. /\ order' = Without(used, evicted)
        /\ entries' = [j \in ((DOMAIN entries \ swept) \cup {k}) \ evicted |->
                         IF j = k THEN entry ELSE entries[j]]
    BY DEF Put
  <1>2. rest \in Seq(keys) /\ Single(rest) /\ KeysOf(rest) = DOMAIN entries \ swept
    BY WithoutKeepsOrder DEF CacheOK
  <1> HIDE DEF rest
  <1>3. used \in Seq(keys) /\ Single(used) /\ KeysOf(used) = (DOMAIN entries \ swept) \cup {k}
    <2>1. MovedToFront(keys, rest, k, used)
      BY <1>2, FrontGoesFirst
    <2>2. QED
      BY <1>2, <2>1 DEF MovedToFront
  <1> HIDE DEF used
  <1>4. Len(Without(used, evicted)) <= Limit
    BY <1>3, FirstStay, LimitAssumption
  <1>5. entry \in Entries(results)
    BY DEF Entries
  <1> HIDE DEF evicted, entry
  <1>6. order' \in Seq(keys) /\ Single(order') /\ KeysOf(order') = KeysOf(used) \ evicted
    BY <1>1, <1>3, WithoutKeepsOrder
  <1>7. DOMAIN entries' = ((DOMAIN entries \ swept) \cup {k}) \ evicted
    BY <1>1
  <1>8. entries' \in [DOMAIN entries' -> Entries(results)]
    BY <1>1, <1>5, <1>7 DEF CacheOK
  <1>9. QED
    BY <1>1, <1>3, <1>4, <1>6, <1>7, <1>8 DEF CacheOK

\* The types of the searches' variables, and the shared cache in order.
Typed ==
    /\ clock \in 0..MaxTime
    /\ ttlCap \in Caps
    /\ CacheOK(Keys, Releases)
    /\ stage \in [Searches -> Stages]
    /\ titles \in [Searches -> SUBSET Names]
    /\ now \in [Searches -> Nat]
    /\ expiry \in [Searches -> Nat]
    /\ done \in [Searches -> BOOLEAN]
    /\ crawl \in [Searches -> [Names -> {"none", "running", "sent"}]]
    /\ outcomes \in [Searches -> SUBSET Outcome]
    /\ collected \in [Searches -> SUBSET Outcome]
    /\ result \in [Searches -> Result]

\* The durations of the configuration are numbers.
LEMMA TimesAreNumbers ==
    /\ Deadline \in Nat /\ FullTTL \in Nat /\ EmptyTTL \in Nat /\ MaxTime \in Nat
    /\ Caps \subseteq Nat
  BY SearchAssumption, Zenon

\* Every lifetime is a number.
LEMMA LifetimeIsANumber ==
    ASSUME ttlCap \in Caps, NEW empty
    PROVE  TTL(empty) \in Nat
  BY TimesAreNumbers DEF TTL

\* A failure is a result.
LEMMA FailureIsAResult ==
    ASSUME NEW err \in {"none", "invalid", "context", "search"}
    PROVE  Failure(err) \in Result
  <1>1. NoReleases \in Releases
    BY DEF NoReleases, Releases
  <1>2. QED
    BY <1>1 DEF Failure, Result

\* What a lookup finds is a result.
LEMMA FoundIsAResult ==
    ASSUME CacheOK(Keys, Releases), NEW p \in Searches, NEW t, Hit(titles[p], t)
    PROVE  Found(p) \in Result
  <1>1. titles[p] \in DOMAIN entries
    BY DEF Hit, Live
  <1>2. entries[titles[p]].releases \in Releases
    BY <1>1 DEF CacheOK, Entries
  <1>3. QED
    BY <1>2 DEF Found, Result

\* Merging outcomes gives a result.
LEMMA MergedIsAResult ==
    ASSUME NEW p \in Searches, NEW received \in SUBSET Outcome
    PROVE  Merged(p, received) \in Result
  <1> DEFINE answered == {m \in received : m.ok}
             released == [answered |-> {m.title : m \in answered},
                          hits |-> UNION {m.hits : m \in answered}]
  <1>1. \A m \in answered : m.title \in Names /\ m.hits \in SUBSET Records
    BY DEF Outcome
  <1>2. {m.title : m \in answered} \in SUBSET Names
    BY <1>1
  <1>3. UNION {m.hits : m \in answered} \in SUBSET Records
    BY <1>1
  <1>4. released \in Releases
    BY <1>2, <1>3 DEF Releases
  <1> DEFINE err == IF {m.title : m \in answered} = titles[p] THEN "none" ELSE "search"
  <1>5. Merged(p, received) = [releases |-> released, cached |-> FALSE, err |-> err]
    BY DEF Merged
  <1>6. err \in {"none", "invalid", "context", "search"}
    OBVIOUS
  <1> HIDE DEF released, err
  <1>7. QED
    BY <1>4, <1>5, <1>6 DEF Result

\* The types of what a search keeps for itself.
LocalTypes ==
    /\ stage \in [Searches -> Stages]
    /\ now \in [Searches -> Nat]
    /\ expiry \in [Searches -> Nat]
    /\ done \in [Searches -> BOOLEAN]
    /\ collected \in [Searches -> SUBSET Outcome]
    /\ result \in [Searches -> Result]

\* Returning keeps them.
LEMMA ReturnKeepsTypes ==
    ASSUME Typed, NEW p \in Searches, NEW outcome \in Result, Return(p, outcome)
    PROVE  LocalTypes'
  BY DEF Typed, Return, LocalTypes, Stages

\* So does the end of a crawl.
LEMMA MergeKeepsTypes ==
    ASSUME Typed, NEW p \in Searches, NEW received \in SUBSET Outcome, Merge(p, received)
    PROVE  /\ stage' \in [Searches -> Stages]
           /\ result' \in [Searches -> Result]
           /\ now' \in [Searches -> Nat]
  <1>1. Merged(p, received) \in Result
    BY MergedIsAResult
  <1>2. clock \in Nat
    BY TimesAreNumbers DEF Typed
  <1>3. QED
    BY <1>1, <1>2 DEF Typed, Merge, Stages

\* Every step of a search keeps the types.
LEMMA SearchKeepsTypes ==
    ASSUME Typed, NEW p \in Searches, SearchNext(p)
    PROVE  Typed'
  <1>a. clock \in Nat /\ Deadline \in Nat
    BY TimesAreNumbers DEF Typed
  <1>b. titles[p] \in Keys
    BY DEF Typed, Keys
  <1>1. CASE Arrive(p)
    <2>1. PICK list \in TitleLists :
            /\ titles' = [titles EXCEPT ![p] = Normalized(list)]
            /\ \/ Return(p, Failure("invalid"))
               \/ /\ stage' = [stage EXCEPT ![p] = "looking"]
                  /\ now' = [now EXCEPT ![p] = clock]
                  /\ UNCHANGED <<result, done, expiry, collected>>
      BY <1>1 DEF Arrive
    <2>2. Normalized(list) \in SUBSET Names
      BY SearchAssumption DEF Normalized
    <2>3. titles' \in [Searches -> SUBSET Names]
      BY <2>1, <2>2 DEF Typed
    <2>4. LocalTypes'
      <3>1. CASE Return(p, Failure("invalid"))
        BY <3>1, FailureIsAResult, ReturnKeepsTypes
      <3>2. CASE /\ stage' = [stage EXCEPT ![p] = "looking"]
                 /\ now' = [now EXCEPT ![p] = clock]
                 /\ UNCHANGED <<result, done, expiry, collected>>
        BY <1>a, <3>2 DEF Typed, LocalTypes, Stages
      <3>3. QED
        BY <2>1, <3>1, <3>2
    <2>5. UNCHANGED <<clock, ttlCap, cacheVars, crawl, outcomes>>
      BY <1>1 DEF Arrive
    <2>6. QED
      BY <2>3, <2>4, <2>5 DEF Typed, LocalTypes, cacheVars, CacheOK
  <1>2. CASE Look(p)
    <2>1. CacheOK(Keys, Releases)'
      BY <1>2, <1>b, HitKeepsCache, MissKeepsCache DEF Look, Typed
    <2>2. LocalTypes'
      <3>1. CASE Hit(titles[p], now[p]) /\ Return(p, Found(p))
        BY <3>1, FoundIsAResult, ReturnKeepsTypes DEF Typed
      <3>2. CASE /\ stage' = [stage EXCEPT ![p] = "queuing"]
                 /\ expiry' = [expiry EXCEPT ![p] = clock + Deadline]
                 /\ UNCHANGED <<result, done, now, collected>>
        BY <1>a, <3>2 DEF Typed, LocalTypes, Stages
      <3>3. QED
        BY <1>2, <3>1, <3>2 DEF Look
    <2>3. UNCHANGED <<clock, ttlCap, titles, crawl, outcomes>>
      BY <1>2 DEF Look
    <2>4. QED
      BY <2>1, <2>2, <2>3 DEF Typed, LocalTypes
  <1>3. CASE Acquire(p)
    <2>1. /\ stage' = [stage EXCEPT ![p] = "relooking"]
          /\ now' = [now EXCEPT ![p] = clock]
          /\ UNCHANGED <<clock, ttlCap, cacheVars, titles, expiry, done, crawlVars, result>>
      BY <1>3 DEF Acquire
    <2>2. QED
      BY <1>a, <2>1 DEF Typed, Stages, cacheVars, crawlVars, CacheOK
  <1>4. CASE GiveUp(p)
    <2>1. LocalTypes'
      BY <1>4, FailureIsAResult, ReturnKeepsTypes DEF GiveUp
    <2>2. UNCHANGED <<clock, ttlCap, cacheVars, titles, crawl, outcomes>>
      BY <1>4 DEF GiveUp
    <2>3. QED
      BY <2>1, <2>2 DEF Typed, LocalTypes, cacheVars, CacheOK
  <1>5. CASE LookAgain(p)
    <2>1. CacheOK(Keys, Releases)'
      BY <1>5, <1>b, HitKeepsCache, MissKeepsCache DEF LookAgain, Typed
    <2>2. LocalTypes' /\ crawl' \in [Searches -> [Names -> {"none", "running", "sent"}]]
      <3>1. CASE Hit(titles[p], now[p]) /\ Return(p, Found(p)) /\ UNCHANGED crawl
        BY <3>1, FoundIsAResult, ReturnKeepsTypes DEF Typed
      <3>2. CASE StartCrawl(p) /\ UNCHANGED <<result, done, now, expiry, collected>>
        BY <3>2 DEF Typed, LocalTypes, Stages, StartCrawl
      <3>3. QED
        BY <1>5, <3>1, <3>2 DEF LookAgain
    <2>3. UNCHANGED <<clock, ttlCap, titles, outcomes>>
      BY <1>5 DEF LookAgain
    <2>4. QED
      BY <2>1, <2>2, <2>3 DEF Typed, LocalTypes
  <1>6. CASE Collect(p)
    <2>1. PICK m \in outcomes[p] :
            /\ outcomes' = [outcomes EXCEPT ![p] = @ \ {m}]
            /\ collected' = [collected EXCEPT ![p] = @ \cup {m}]
            /\ Merge(p, collected[p] \cup {m}) \/ UNCHANGED <<stage, result, now>>
      BY <1>6 DEF Collect
    <2>2. collected[p] \cup {m} \in SUBSET Outcome
      BY DEF Typed
    <2>3. /\ stage' \in [Searches -> Stages]
          /\ result' \in [Searches -> Result]
          /\ now' \in [Searches -> Nat]
      BY <2>1, <2>2, MergeKeepsTypes DEF Typed
    <2>4. UNCHANGED <<clock, ttlCap, cacheVars, titles, expiry, done, crawl>>
      BY <1>6 DEF Collect
    <2>5. /\ outcomes' \in [Searches -> SUBSET Outcome]
          /\ collected' \in [Searches -> SUBSET Outcome]
      BY <2>1 DEF Typed
    <2>6. QED
      BY <2>3, <2>4, <2>5 DEF Typed, cacheVars, CacheOK
  <1>7. CASE StopCollecting(p)
    <2>1. /\ outcomes' \in [Searches -> SUBSET Outcome]
          /\ collected' \in [Searches -> SUBSET Outcome]
      BY <1>7 DEF StopCollecting, Typed
    <2>2. /\ stage' \in [Searches -> Stages]
          /\ result' \in [Searches -> Result]
          /\ now' \in [Searches -> Nat]
      BY <1>7, <2>1, MergeKeepsTypes DEF StopCollecting
    <2>3. UNCHANGED <<clock, ttlCap, cacheVars, titles, expiry, done, crawl>>
      BY <1>7 DEF StopCollecting
    <2>4. QED
      BY <2>1, <2>2, <2>3 DEF Typed, cacheVars, CacheOK
  <1>8. CASE Store(p)
    <2>1. result[p] \in Result /\ result[p].releases \in Releases /\ now[p] \in Nat
      BY DEF Typed, Result
    <2>2. LocalTypes'
      BY <1>8, <2>1, ReturnKeepsTypes DEF Store
    <2>3. CacheOK(Keys, Releases)'
      <3>1. CASE Put(titles[p], result[p].releases, now[p], TTL(result[p].releases.hits = {}))
        BY <1>b, <2>1, <3>1, LifetimeIsANumber, PutKeepsCache DEF Typed
      <3>2. CASE UNCHANGED cacheVars
        BY <3>2 DEF cacheVars, Typed, CacheOK
      <3>3. QED
        BY <1>8, <3>1, <3>2 DEF Store
    <2>4. UNCHANGED <<clock, ttlCap, titles, crawl, outcomes>>
      BY <1>8 DEF Store
    <2>5. QED
      BY <2>2, <2>3, <2>4 DEF Typed, LocalTypes
  <1>9. QED
    BY <1>1, <1>2, <1>3, <1>4, <1>5, <1>6, <1>7, <1>8 DEF SearchNext

\* A title's goroutine reports one outcome.
LEMMA AnswerKeepsTypes ==
    ASSUME Typed, NEW p \in Searches, NEW t \in Names, Answer(p, t)
    PROVE  Typed'
  <1>1. PICK ok \in BOOLEAN, hits \in SUBSET Records :
          outcomes' = [outcomes EXCEPT ![p] = @ \cup
                         {[title |-> t, ok |-> ok, hits |-> hits, late |-> done[p]]}]
    BY DEF Answer
  <1>2. done[p] \in BOOLEAN
    BY DEF Typed
  <1>3. [title |-> t, ok |-> ok, hits |-> hits, late |-> done[p]] \in Outcome
    BY <1>2 DEF Outcome
  <1>4. outcomes' \in [Searches -> SUBSET Outcome]
    BY <1>1, <1>3 DEF Typed
  <1>5. crawl' \in [Searches -> [Names -> {"none", "running", "sent"}]]
    BY DEF Answer, Typed
  <1>6. UNCHANGED <<clock, ttlCap, cacheVars, stage, titles, now, expiry, done, collected, result>>
    BY DEF Answer
  <1>7. QED
    BY <1>4, <1>5, <1>6 DEF Typed, cacheVars, CacheOK

\* So do time, the contexts and the source's other calls.
LEMMA OthersKeepTypes ==
    ASSUME Typed,
           \/ \E p \in Searches : Expire(p) \/ Cancel(p)
           \/ BeginCandidates
           \/ EndCandidates
           \/ Tick
           \/ UNCHANGED vars
    PROVE  Typed'
  <1>1. UNCHANGED <<ttlCap, entries, order, stage, titles, now, expiry, crawl, outcomes, collected, result>>
    BY DEF Expire, Cancel, BeginCandidates, EndCandidates, Tick, vars, cacheVars, crawlVars
  <1>2. CacheOK(Keys, Releases)'
    BY <1>1 DEF Typed, CacheOK
  <1>3. done' \in [Searches -> BOOLEAN]
    BY DEF Typed, Expire, Cancel, BeginCandidates, EndCandidates, Tick, vars
  <1>4. clock' \in 0..MaxTime
    <2>1. MaxTime \in Nat /\ clock \in 0..MaxTime
      BY TimesAreNumbers DEF Typed
    <2>2. \/ clock' = clock
          \/ clock < MaxTime /\ clock' = clock + 1
      BY DEF Expire, Cancel, BeginCandidates, EndCandidates, Tick, vars
    <2>3. QED
      BY <2>1, <2>2
  <1>5. QED
    BY <1>1, <1>2, <1>3, <1>4 DEF Typed

\* The types hold at first and every step keeps them.
LEMMA TypesInvariant == Spec => []Typed
  <1>1. Init => Typed
    <2> SUFFICES ASSUME Init PROVE Typed
      OBVIOUS
    <2>1. CacheOK(Keys, Releases)
      BY CacheStarts DEF Init
    <2>2. Failure("none") \in Result
      BY FailureIsAResult
    <2>3. 0 \in 0..MaxTime
      BY TimesAreNumbers
    <2>4. QED
      BY <2>1, <2>2, <2>3 DEF Init, Typed, Stages
  <1>2. Typed /\ [Next]_vars => Typed'
    <2> SUFFICES ASSUME Typed, [Next]_vars PROVE Typed'
      OBVIOUS
    <2>1. QED
      BY SearchKeepsTypes, AnswerKeepsTypes, OthersKeepTypes DEF Next
  <1>3. QED
    BY <1>1, <1>2, PTL DEF Spec

(***************************************************************************)
(* Whatever the searches do to the cache they share, its map and its list  *)
(* hold the same keys and no more than the limit, the slots are never more *)
(* than limits.concurrency, and every variable keeps its type.             *)
(***************************************************************************)
THEOREM TypeCorrect == Spec => []TypeOK
  <1>1. Typed /\ SInv /\ WithinCapacity => TypeOK
    <2> SUFFICES ASSUME Typed, SInv, WithinCapacity PROVE TypeOK
      OBVIOUS
    <2>1. Consistent /\ DOMAIN entries \subseteq Keys /\ entries \in [DOMAIN entries -> Entries(Releases)]
      <3>1. KeysOf(order) \subseteq Keys
        BY DEF Typed, CacheOK, KeysOf
      <3>2. QED
        BY <3>1 DEF Typed, CacheOK, Consistent, Single
    <2>2. semaphore \in 0..Concurrency /\ resolving \in 0..Concurrency
      BY HoldersFinite, SomeSlot DEF SInv, SemaphoreAccounting, WithinCapacity
    <2>3. QED
      BY <2>1, <2>2 DEF Typed, TypeOK
  <1>2. QED
    BY <1>1, TypesInvariant, SlotInvariant, SlotsLimited, PTL

-----------------------------------------------------------------------------
(* The most recent entries are remembered                                  *)

\* The list is the recency of the keys in the cache, and the map holds what was
\* stored last; a live entry is missing only behind Limit more recent keys.
Remembered ==
    /\ time \in Nat
    /\ order \in Seq(CacheKeys) /\ Single(order) /\ Len(order) <= Limit
    /\ recency \in Seq(CacheKeys) /\ Single(recency)
    /\ KeysOf(order) = DOMAIN entries
    /\ KeysOf(recency) = DOMAIN stored
    /\ \A k \in DOMAIN stored : stored[k].expires \in Nat
    /\ \A k \in DOMAIN entries : k \in DOMAIN stored /\ entries[k] = stored[k]
    /\ \A a, b : Ahead(order, a, b) => Ahead(recency, a, b)
    /\ \A i \in DOMAIN recency :
         i <= Limit /\ stored[recency[i]].expires > time => recency[i] \in DOMAIN entries

\* Using a key takes it to the front of the recency, and no other key further to it.
LEMMA UseMovesToFront ==
    ASSUME Remembered, NEW k \in CacheKeys, recency' = AtFront(k, recency)
    PROVE  /\ recency' \in Seq(CacheKeys) /\ Single(recency')
           /\ KeysOf(recency') = DOMAIN stored \cup {k}
           /\ \A a, b : Ahead(recency', a, b) <=> \/ a = k /\ b # k /\ b \in DOMAIN stored
                                                  \/ Ahead(recency, a, b) /\ a # k /\ b # k
           /\ \A i \in DOMAIN recency' : recency'[i] # k =>
                \E j \in DOMAIN recency : j <= i /\ recency[j] = recency'[i]
  <1>1. recency \in Seq(CacheKeys) /\ Single(recency) /\ KeysOf(recency) = DOMAIN stored
    BY DEF Remembered
  <1>2. /\ recency' \in Seq(CacheKeys) /\ Single(recency')
        /\ KeysOf(recency') = DOMAIN stored \cup {k}
        /\ \A a, b : Ahead(recency', a, b) <=> \/ a = k /\ b # k /\ b \in DOMAIN stored
                                               \/ Ahead(recency, a, b) /\ a # k /\ b # k
    <2>1. MovedToFront(CacheKeys, recency, k, recency')
      BY <1>1, FrontGoesFirst
    <2> QED
      BY <1>1, <2>1 DEF MovedToFront
  <1>3. ASSUME NEW i \in DOMAIN recency', recency'[i] # k
        PROVE  \E j \in DOMAIN recency : j <= i /\ recency[j] = recency'[i]
    <2> DEFINE x == recency'[i]
    <2>1. x \in KeysOf(recency')
      BY DEF KeysOf
    <2>2. x \in KeysOf(recency)
      BY <1>1, <1>2, <1>3, <2>1
    <2>3. PICK j \in DOMAIN recency : recency[j] = x
      BY <2>2 DEF KeysOf
    <2>4. ASSUME NEW a, Ahead(recency, a, recency[j]) PROVE Ahead(recency', a, recency[j])
      <3>1. recency[j] # k /\ recency[j] \in DOMAIN stored
        BY <1>1, <1>3, <2>2, <2>3
      <3> QED
        BY <1>2, <2>4, <3>1
    <2>5. j <= i
      BY <1>1, <1>2, <2>3, <2>4, NoFurther
    <2> QED
      BY <2>3, <2>5
  <1> QED
    BY <1>2, <1>3

\* A lookup that finds an entry.
LEMMA HitRemembers ==
    ASSUME Remembered, NEW k \in CacheKeys, GetHit(k)
    PROVE  Remembered'
  <1>1. /\ k \in DOMAIN entries /\ UNCHANGED <<time, stored, entries>>
        /\ order' = AtFront(k, order) /\ recency' = AtFront(k, recency)
    BY DEF GetHit, Hit, Use, Live
  <1>2. order \in Seq(CacheKeys) /\ Single(order) /\ Len(order) <= Limit /\ KeysOf(order) = DOMAIN entries
    BY DEF Remembered
  <1>3. k \in DOMAIN stored /\ DOMAIN entries \subseteq DOMAIN stored
    BY <1>1 DEF Remembered
  <1>4. /\ order' \in Seq(CacheKeys) /\ Single(order') /\ KeysOf(order') = DOMAIN entries \cup {k}
        /\ \A a, b : Ahead(order', a, b) <=> \/ a = k /\ b # k /\ b \in DOMAIN entries
                                             \/ Ahead(order, a, b) /\ a # k /\ b # k
    <2>1. MovedToFront(CacheKeys, order, k, order')
      BY <1>1, <1>2, FrontGoesFirst
    <2> QED
      BY <1>2, <2>1 DEF MovedToFront
  <1>5. /\ recency' \in Seq(CacheKeys) /\ Single(recency')
        /\ KeysOf(recency') = DOMAIN stored \cup {k}
        /\ \A a, b : Ahead(recency', a, b) <=> \/ a = k /\ b # k /\ b \in DOMAIN stored
                                               \/ Ahead(recency, a, b) /\ a # k /\ b # k
        /\ \A i \in DOMAIN recency' : recency'[i] # k =>
             \E j \in DOMAIN recency : j <= i /\ recency[j] = recency'[i]
    BY <1>1, UseMovesToFront
  <1>6. KeysOf(order') = DOMAIN entries' /\ KeysOf(recency') = DOMAIN stored'
    BY <1>1, <1>3, <1>4, <1>5
  <1>7. Len(order') <= Limit
    BY <1>1, <1>2, <1>4, <1>6, LengthCounts
  <1>8. \A a, b : Ahead(order', a, b) => Ahead(recency', a, b)
    <2>1. \A a, b : Ahead(order, a, b) => Ahead(recency, a, b)
      BY DEF Remembered
    <2> QED
      BY <1>3, <1>4, <1>5, <2>1
  <1>9. ASSUME NEW i \in DOMAIN recency', i <= Limit, stored'[recency'[i]].expires > time'
        PROVE  recency'[i] \in DOMAIN entries'
    <2>1. CASE recency'[i] = k
      BY <1>1, <2>1
    <2>2. CASE recency'[i] # k
      <3>1. PICK j \in DOMAIN recency : j <= i /\ recency[j] = recency'[i]
        BY <1>5, <2>2
      <3>2. i \in Nat /\ j \in Nat
        BY <1>5 DEF Remembered
      <3>3. j <= Limit /\ stored[recency[j]].expires > time
        BY <1>1, <1>9, <3>1, <3>2, LimitAssumption
      <3> QED
        BY <1>1, <3>1, <3>3 DEF Remembered
    <2> QED
      BY <2>1, <2>2
  <1> QED
    BY <1>1, <1>4, <1>5, <1>6, <1>7, <1>8, <1>9 DEF Remembered

\* A lookup that finds none, or drops one that has expired.
LEMMA MissRemembers ==
    ASSUME Remembered, NEW k \in CacheKeys, GetMiss(k)
    PROVE  Remembered'
  <1>1. PICK instant \in Instants : Miss(k, instant)
    BY DEF GetMiss
  <1>2. UNCHANGED <<time, stored, recency>>
    BY DEF GetMiss
  <1>3. instant \in Nat /\ instant <= time
    BY DEF Instants, Remembered
  <1>4. /\ k \in DOMAIN entries => entries[k].expires <= instant
        /\ entries' = [j \in DOMAIN entries \ {k} |-> entries[j]]
        /\ order' = Without(order, {k})
    BY <1>1 DEF Miss, Live, Expired
  <1>5. order \in Seq(CacheKeys) /\ Single(order) /\ Len(order) <= Limit /\ KeysOf(order) = DOMAIN entries
    BY DEF Remembered
  <1>6. /\ order' \in Seq(CacheKeys) /\ Single(order') /\ KeysOf(order') = DOMAIN entries \ {k}
        /\ \A a, b : Ahead(order', a, b) => Ahead(order, a, b)
    BY <1>4, <1>5, WithoutKeepsOrder
  <1>7. Len(order') <= Limit
    <2>1. IsFiniteSet(DOMAIN entries) /\ Cardinality(DOMAIN entries) <= Limit
      BY <1>5, LengthCounts
    <2>2. Cardinality(DOMAIN entries \ {k}) <= Cardinality(DOMAIN entries)
      BY <2>1, FS_Subset
    <2>3. Cardinality(DOMAIN entries \ {k}) = Len(order')
      BY <1>6, LengthCounts
    <2>4. Len(order') \in Nat /\ Cardinality(DOMAIN entries) \in Nat
      BY <1>6, <2>1, FS_CardinalityType
    <2> QED
      BY <2>1, <2>2, <2>3, <2>4, LimitAssumption
  <1>8. ASSUME NEW i \in DOMAIN recency', i <= Limit, stored'[recency'[i]].expires > time'
        PROVE  recency'[i] \in DOMAIN entries'
    <2>1. recency[i] \in DOMAIN entries /\ stored[recency[i]].expires > time
      BY <1>2, <1>8 DEF Remembered
    <2>2. recency[i] # k
      BY <1>3, <1>4, <2>1 DEF Remembered
    <2> QED
      BY <1>2, <1>4, <2>1, <2>2
  <1>9. DOMAIN entries' = DOMAIN entries \ {k} /\ \A j \in DOMAIN entries' : entries'[j] = entries[j]
    BY <1>4
  <1> QED
    BY <1>2, <1>6, <1>7, <1>8, <1>9 DEF Remembered

\* A store: what is swept has expired, what is evicted is behind Limit others.
LEMMA StoreRemembers ==
    ASSUME Remembered, NEW k \in CacheKeys, StoreAs(k)
    PROVE  Remembered'
  <1>1. PICK releases \in Results, instant \in Instants, ttl \in TTLs :
          /\ Put(k, releases, instant, ttl)
          /\ stored' = [j \in DOMAIN stored \cup {k} |->
                          IF j = k THEN [releases |-> releases, expires |-> instant + ttl] ELSE stored[j]]
    BY DEF StoreAs
  <1>2. UNCHANGED time /\ recency' = AtFront(k, recency)
    BY DEF StoreAs, Use
  <1>3. instant \in Nat /\ instant <= time /\ time \in Nat
    BY DEF Instants, Remembered
  <1> DEFINE swept   == {j \in DOMAIN entries : entries[j].expires <= instant}
             rest    == Without(order, swept)
             used    == AtFront(k, rest)
             evicted == {used[i] : i \in Limit + 1 .. Len(used)}
             entry   == [releases |-> releases, expires |-> instant + ttl]
  <1>4. /\ order' = Without(used, evicted)
        /\ entries' = [j \in ((DOMAIN entries \ swept) \cup {k}) \ evicted |->
                         IF j = k THEN entry ELSE entries[j]]
    BY <1>1 DEF Put, Expired
  <1>5. \A j \in DOMAIN entries : j \in swept <=> entries[j].expires <= instant
    OBVIOUS
  <1>6. stored' = [j \in DOMAIN stored \cup {k} |-> IF j = k THEN entry ELSE stored[j]]
        /\ entry.expires \in Nat
    BY <1>1, <1>3, TimesAssumption
  <1> HIDE DEF swept, entry
  <1>7. order \in Seq(CacheKeys) /\ Single(order) /\ KeysOf(order) = DOMAIN entries
    BY DEF Remembered
  <1>8. /\ rest \in Seq(CacheKeys) /\ Single(rest) /\ KeysOf(rest) = DOMAIN entries \ swept
        /\ \A a, b : Ahead(rest, a, b) => Ahead(order, a, b)
    BY <1>7, WithoutKeepsOrder
  <1> HIDE DEF rest
  <1>9. /\ used \in Seq(CacheKeys) /\ Single(used) /\ KeysOf(used) = (DOMAIN entries \ swept) \cup {k}
        /\ \A a, b : Ahead(used, a, b) => \/ a = k /\ b # k /\ b \in DOMAIN entries
                                          \/ Ahead(order, a, b) /\ a # k /\ b # k
        /\ 1 \in DOMAIN used /\ used[1] = k
    <2>1. MovedToFront(CacheKeys, rest, k, used)
      BY <1>8, FrontGoesFirst
    <2> QED
      BY <1>8, <2>1 DEF MovedToFront
  <1> HIDE DEF used
  <1>10. /\ recency' \in Seq(CacheKeys) /\ Single(recency')
         /\ KeysOf(recency') = DOMAIN stored \cup {k}
         /\ \A a, b : Ahead(recency', a, b) <=> \/ a = k /\ b # k /\ b \in DOMAIN stored
                                                \/ Ahead(recency, a, b) /\ a # k /\ b # k
         /\ \A i \in DOMAIN recency' : recency'[i] # k =>
              \E j \in DOMAIN recency : j <= i /\ recency[j] = recency'[i]
    BY <1>2, UseMovesToFront
  <1>11. \A a, b : Ahead(used, a, b) => Ahead(recency', a, b)
    <2>1. DOMAIN entries \subseteq DOMAIN stored /\ \A a, b : Ahead(order, a, b) => Ahead(recency, a, b)
      BY DEF Remembered
    <2> QED
      BY <1>9, <1>10, <2>1
  <1>12. (\A i \in DOMAIN used : i <= Limit => used[i] \notin evicted) /\ Len(Without(used, evicted)) <= Limit
    BY <1>9, FirstStay, LimitAssumption
  <1> HIDE DEF evicted
  <1>13. /\ order' \in Seq(CacheKeys) /\ Single(order') /\ KeysOf(order') = KeysOf(used) \ evicted
         /\ \A a, b : Ahead(order', a, b) => Ahead(used, a, b)
    BY <1>4, <1>9, WithoutKeepsOrder
  <1>14. Len(order') <= Limit
    BY <1>4, <1>12
  <1>15. k \notin evicted
    BY <1>9, <1>12, LimitAssumption
  <1>16. DOMAIN entries' = ((DOMAIN entries \ swept) \cup {k}) \ evicted
         /\ \A j \in DOMAIN entries' : entries'[j] = IF j = k THEN entry ELSE entries[j]
    BY <1>4
  <1>17. DOMAIN stored' = DOMAIN stored \cup {k}
         /\ \A j \in DOMAIN stored' : stored'[j] = IF j = k THEN entry ELSE stored[j]
    BY <1>6
  <1>18. ASSUME NEW i \in DOMAIN recency', i <= Limit, stored'[recency'[i]].expires > time'
         PROVE  recency'[i] \in DOMAIN entries'
    <2> DEFINE x == recency'[i]
    <2>1. CASE x = k
      BY <1>15, <1>16, <2>1
    <2>2. CASE x # k
      <3>1. PICK j \in DOMAIN recency : j <= i /\ recency[j] = x
        BY <1>10, <2>2
      <3>2. i \in Nat /\ j \in Nat /\ j <= Limit
        BY <1>10, <1>18, <3>1, LimitAssumption DEF Remembered
      <3>3. x \in DOMAIN stored /\ stored'[x] = stored[x]
        <4>1. x \in KeysOf(recency)
          BY <3>1 DEF KeysOf
        <4> QED
          BY <1>17, <2>2, <4>1 DEF Remembered
      <3>4. stored[x].expires > time
        BY <1>2, <1>18, <3>3
      <3>5. x \in DOMAIN entries /\ entries[x] = stored[x] /\ stored[x].expires \in Nat
        BY <3>1, <3>2, <3>3, <3>4 DEF Remembered
      <3>6. x \notin swept
        BY <1>3, <1>5, <3>4, <3>5
      <3>7. PICK p \in DOMAIN used : used[p] = x
        <4>1. x \in KeysOf(used)
          BY <1>9, <3>5, <3>6
        <4> QED
          BY <4>1 DEF KeysOf
      <3>8. p <= i
        BY <1>9, <1>10, <1>11, <3>7, NoFurther
      <3>9. p <= Limit
        BY <1>9, <1>18, <3>2, <3>8, LimitAssumption
      <3> QED
        BY <1>12, <1>16, <3>5, <3>6, <3>7, <3>9
    <2> QED
      BY <2>1, <2>2
  <1>19. \A a, b : Ahead(order', a, b) => Ahead(recency', a, b)
    BY <1>11, <1>13
  <1>20. \A j \in DOMAIN entries' : j \in DOMAIN stored' /\ entries'[j] = stored'[j]
    BY <1>16, <1>17 DEF Remembered
  <1>21. \A j \in DOMAIN stored' : stored'[j].expires \in Nat
    BY <1>6, <1>17 DEF Remembered
  <1>22. KeysOf(order') = DOMAIN entries' /\ KeysOf(recency') = DOMAIN stored'
    BY <1>9, <1>10, <1>13, <1>16, <1>17
  <1> QED
    BY <1>2, <1>3, <1>10, <1>13, <1>14, <1>18, <1>19, <1>20, <1>21, <1>22 DEF Remembered

(***************************************************************************)
(* releaseCache under any calls of get and put, with any lifetimes and     *)
(* with instants however old: what was stored under a key is forgotten     *)
(* only when it has expired or Limit other keys were used since.           *)
(***************************************************************************)
THEOREM RecentIsRemembered == UseSpec => []RemembersRecent
  <1>1. UseInit => Remembered
    <2> SUFFICES ASSUME UseInit PROVE Remembered
      OBVIOUS
    <2>1. entries = <<>> /\ order = <<>> /\ time = 0 /\ stored = <<>> /\ recency = <<>>
      BY DEF UseInit, CacheInit
    <2>2. DOMAIN <<>> = {} /\ Len(<<>>) = 0 /\ <<>> \in Seq(CacheKeys)
      OBVIOUS
    <2> QED
      BY <2>1, <2>2, LimitAssumption DEF Remembered, Single, Ahead, KeysOf
  <1>2. Remembered /\ [UseNext]_useVars => Remembered'
    <2> SUFFICES ASSUME Remembered, [UseNext]_useVars PROVE Remembered'
      OBVIOUS
    <2>1. CASE UNCHANGED useVars
      BY <2>1 DEF useVars, cacheVars, Remembered
    <2>2. CASE Passes
      <3>1. time' = time + 1 /\ UNCHANGED <<entries, order, stored, recency>>
        BY <2>2 DEF Passes, cacheVars
      <3>2. ASSUME NEW i \in DOMAIN recency, i <= Limit, stored[recency[i]].expires > time + 1
            PROVE  recency[i] \in DOMAIN entries
        <4>1. recency[i] \in DOMAIN stored
          BY DEF Remembered, KeysOf
        <4>2. stored[recency[i]].expires \in Nat /\ time \in Nat
          BY <4>1 DEF Remembered
        <4>3. stored[recency[i]].expires > time
          BY <3>2, <4>2
        <4> QED
          BY <3>2, <4>3 DEF Remembered
      <3> QED
        BY <3>1, <3>2 DEF Remembered
    <2>3. ASSUME NEW k \in CacheKeys, GetHit(k) \/ GetMiss(k) \/ StoreAs(k) PROVE Remembered'
      BY <2>3, HitRemembers, MissRemembers, StoreRemembers
    <2> QED
      BY <2>1, <2>2, <2>3 DEF UseNext
  <1>3. Remembered => RemembersRecent
    BY DEF Remembered, Single, RemembersRecent, Consistent
  <1> QED
    BY <1>1, <1>2, <1>3, PTL DEF UseSpec

-----------------------------------------------------------------------------
(* The searches are callers of the cache as ReleaseCacheUse has them       *)

\* The callers of the cache, where the keys are sets of titles, the time is the
\* searches' clock and a lifetime is any that is not zero.
Calls == INSTANCE ReleaseCacheUse
           WITH CacheKeys <- Keys, Results <- Releases, TTLs <- Nat \ {0},
                Lag <- MaxTime, LastInstant <- MaxTime, time <- clock

ServedTo(p) == (Look(p) \/ LookAgain(p)) /\ Hit(titles[p], now[p])
StoredBy(p) == Store(p) /\ Cacheable(p)
Lifetime(p) == TTL(result[p].releases.hits = {})

\* What the history variables remember of the searches' steps.
Remember ==
    \/ \E p \in Searches : ServedTo(p) /\ Use(titles[p]) /\ UNCHANGED stored
    \/ \E p \in Searches :
         /\ StoredBy(p)
         /\ Use(titles[p])
         /\ stored' = [k \in DOMAIN stored \cup {titles[p]} |->
                         IF k = titles[p]
                         THEN [releases |-> result[p].releases, expires |-> now[p] + Lifetime(p)]
                         ELSE stored[k]]
    \/ /\ \A p \in Searches : ~ServedTo(p) /\ ~StoredBy(p)
       /\ UNCHANGED <<stored, recency>>

\* The searches with that history.
RememberingSpec ==
    Spec /\ stored = <<>> /\ recency = <<>> /\ [][Remember]_<<vars, stored, recency>>

\* Every instant a search has read is past.
ReadBefore == \A p \in Searches : now[p] <= clock

\* Time only passes, and a search reads the clock or forgets.
LEMMA ReadBeforeKept ==
    ASSUME Typed, ReadBefore, [Next]_vars
    PROVE  ReadBefore'
  <1>1. /\ now \in [Searches -> Nat]
        /\ clock \in Nat
    BY TimesAreNumbers DEF Typed
  <1>2. ASSUME NEW p \in Searches, SearchNext(p)
        PROVE  ReadBefore'
    <2>1. /\ UNCHANGED clock
          /\ \/ UNCHANGED now
             \/ now' = [now EXCEPT ![p] = 0]
             \/ now' = [now EXCEPT ![p] = clock]
      BY <1>2 DEF SearchNext, Arrive, Look, Acquire, GiveUp, LookAgain, Collect, StopCollecting,
         Store, Return, Merge, StartCrawl
    <2>2. QED
      BY <1>1, <2>1 DEF ReadBefore
  <1>3. CASE \/ \E p \in Searches : (\E t \in Names : Answer(p, t)) \/ Expire(p) \/ Cancel(p)
             \/ BeginCandidates \/ EndCandidates \/ Tick \/ UNCHANGED vars
    <2>1. /\ UNCHANGED now
          /\ clock' = clock \/ clock' = clock + 1
      BY <1>3 DEF Answer, Expire, Cancel, BeginCandidates, EndCandidates, Tick, vars
    <2>2. QED
      BY <1>1, <2>1 DEF ReadBefore
  <1>4. QED
    BY <1>2, <1>3 DEF Next

\* What is left of a list is the same.
LEMMA SameLists == \A list, keys : Calls!Without(list, keys) = Without(list, keys)
  BY Zenon DEF Without, Calls!Without, Cardinality, Calls!Cardinality

\* The operations are the same ones.
LEMMA SameOperations ==
    ASSUME NEW k, NEW r, NEW t, NEW ttl
    PROVE  /\ Hit(k, t) => Calls!Hit(k, t)
           /\ Miss(k, t) => Calls!Miss(k, t)
           /\ Put(k, r, t, ttl) => Calls!Put(k, r, t, ttl)
           /\ Use(k) => Calls!Use(k)
  <1>1. \A list : Calls!AtFront(k, list) = AtFront(k, list)
    BY SameLists DEF AtFront, Calls!AtFront
  <1>2. Hit(k, t) => Calls!Hit(k, t)
    BY <1>1 DEF Hit, Calls!Hit, Live, Calls!Live, Expired, Calls!Expired
  <1>3. Miss(k, t) => Calls!Miss(k, t)
    BY SameLists DEF Miss, Calls!Miss, Live, Calls!Live, Expired, Calls!Expired
  <1>4. Put(k, r, t, ttl) => Calls!Put(k, r, t, ttl)
    <2> DEFINE swept == {j \in DOMAIN entries : Expired(j, t)}
               used  == AtFront(k, Without(order, swept))
    <2>1. Calls!AtFront(k, Calls!Without(order, swept)) = used
      BY <1>1, SameLists
    <2>2. swept = {j \in DOMAIN entries : Calls!Expired(j, t)}
      BY DEF Expired, Calls!Expired
    <2> DEFINE Stored(front) ==
                 LET evicted == {front[i] : i \in Limit + 1 .. Len(front)}
                 IN  /\ order' = Without(front, evicted)
                     /\ entries' = [j \in ((DOMAIN entries \ swept) \cup {k}) \ evicted |->
                                      IF j = k THEN [releases |-> r, expires |-> t + ttl]
                                      ELSE entries[j]]
               Again(front) ==
                 LET evicted == {front[i] : i \in Limit + 1 .. Len(front)}
                 IN  /\ order' = Calls!Without(front, evicted)
                     /\ entries' = [j \in ((DOMAIN entries \ swept) \cup {k}) \ evicted |->
                                      IF j = k THEN [releases |-> r, expires |-> t + ttl]
                                      ELSE entries[j]]
    <2>3. Put(k, r, t, ttl) => Stored(used)
      BY Zenon DEF Put
    <2>4. ASSUME NEW front PROVE Stored(front) => Again(front)
      BY SameLists
    <2>5. Again(Calls!AtFront(k, Calls!Without(order, swept))) => Calls!Put(k, r, t, ttl)
      BY Zenon DEF Calls!Put, Expired, Calls!Expired
    <2> HIDE DEF Stored, Again, swept, used
    <2>6. QED
      BY <2>1, <2>3, <2>4, <2>5
  <1>5. Use(k) => Calls!Use(k)
    BY <1>1 DEF Use, Calls!Use
  <1>6. QED
    BY <1>2, <1>3, <1>4, <1>5

\* A caller's instant is one that ReleaseCacheUse allows.
LEMMA InstantAllowed ==
    ASSUME Typed, ReadBefore, NEW p \in Searches
    PROVE  now[p] \in Calls!Instants /\ titles[p] \in Keys
  <1>1. now[p] \in Nat /\ clock \in 0..MaxTime /\ MaxTime \in Nat /\ now[p] <= clock
    BY TimesAreNumbers DEF Typed, ReadBefore
  <1>2. now[p] \in 0..clock /\ clock <= now[p] + MaxTime
    BY <1>1
  <1>3. QED
    BY <1>2 DEF Calls!Instants, Typed, Keys

\* A search that is served gets a hit.
LEMMA ServedIsAHit ==
    ASSUME Typed, ReadBefore, NEW p \in Searches, ServedTo(p), Use(titles[p]), UNCHANGED stored
    PROVE  Calls!UseNext
  <1>1. Calls!Hit(titles[p], now[p]) /\ Calls!Use(titles[p])
    BY SameOperations DEF ServedTo
  <1>2. UNCHANGED clock
    BY DEF ServedTo, Look, LookAgain
  <1>3. Calls!GetHit(titles[p])
    BY <1>1, <1>2, InstantAllowed DEF Calls!GetHit
  <1>4. QED
    BY <1>3, InstantAllowed DEF Calls!UseNext

\* A search that stores its result puts it, for a lifetime that is not zero.
LEMMA StoredIsAPut ==
    ASSUME Typed, ReadBefore, NEW p \in Searches, StoredBy(p), Use(titles[p]),
           stored' = [k \in DOMAIN stored \cup {titles[p]} |->
                        IF k = titles[p]
                        THEN [releases |-> result[p].releases, expires |-> now[p] + Lifetime(p)]
                        ELSE stored[k]]
    PROVE  Calls!UseNext
  <1>1. Put(titles[p], result[p].releases, now[p], Lifetime(p)) /\ UNCHANGED clock
    BY DEF StoredBy, Store, Lifetime
  <1>2. Lifetime(p) \in Nat \ {0}
    <2>1. Lifetime(p) \in Nat
      BY LifetimeIsANumber DEF Typed, Lifetime
    <2>2. Lifetime(p) > 0
      BY DEF StoredBy, Cacheable, Lifetime
    <2>3. QED
      BY <2>1, <2>2
  <1>3. result[p].releases \in Releases
    BY DEF Typed, Result
  <1>4. Calls!Put(titles[p], result[p].releases, now[p], Lifetime(p)) /\ Calls!Use(titles[p])
    BY <1>1, SameOperations
  <1> HIDE DEF Lifetime
  <1>5. Calls!StoreAs(titles[p])
    BY <1>1, <1>2, <1>3, <1>4, InstantAllowed DEF Calls!StoreAs
  <1>6. QED
    BY <1>5, InstantAllowed DEF Calls!UseNext

\* The other steps miss, let time pass, or leave the cache alone.
LEMMA OtherStepsUse ==
    ASSUME Typed, ReadBefore, [Next]_vars, UNCHANGED <<stored, recency>>,
           \A p \in Searches : ~ServedTo(p) /\ ~StoredBy(p)
    PROVE  [Calls!UseNext]_Calls!useVars
  <1> DEFINE Alone == UNCHANGED <<entries, order, clock>>
  <1>1. Alone => UNCHANGED Calls!useVars
    BY DEF Calls!useVars, Calls!cacheVars
  <1>2. ASSUME NEW p \in Searches, SearchNext(p)
        PROVE  Alone \/ Calls!UseNext
    <2>1. CASE Look(p) \/ LookAgain(p)
      <3>1. Miss(titles[p], now[p]) /\ UNCHANGED clock
        BY <2>1 DEF Look, LookAgain, ServedTo
      <3>2. Calls!GetMiss(titles[p])
        BY <3>1, SameOperations, InstantAllowed DEF Calls!GetMiss
      <3>3. QED
        BY <3>2, InstantAllowed DEF Calls!UseNext
    <2>2. CASE Store(p)
      BY <2>2 DEF Store, StoredBy, cacheVars
    <2>3. CASE Arrive(p) \/ Acquire(p) \/ GiveUp(p) \/ Collect(p) \/ StopCollecting(p)
      BY <2>3 DEF Arrive, Acquire, GiveUp, Collect, StopCollecting, cacheVars
    <2>4. QED
      BY <1>2, <2>1, <2>2, <2>3 DEF SearchNext
  <1>3. CASE Tick
    <2>1. Calls!Passes
      BY <1>3 DEF Tick, Calls!Passes, cacheVars, Calls!cacheVars
    <2>2. QED
      BY <2>1 DEF Calls!UseNext
  <1>4. CASE \/ \E p \in Searches : (\E t \in Names : Answer(p, t)) \/ Expire(p) \/ Cancel(p)
             \/ BeginCandidates \/ EndCandidates \/ UNCHANGED vars
    <2>1. Alone
      BY <1>4 DEF Answer, Expire, Cancel, BeginCandidates, EndCandidates, vars, cacheVars
    <2>2. QED
      BY <1>1, <2>1
  <1>5. QED
    BY <1>1, <1>2, <1>3, <1>4 DEF Next

(***************************************************************************)
(* The searches use their cache in no way that ReleaseCacheUse leaves out: *)
(* under titles as keys, with an instant already past, and for a lifetime  *)
(* that is not zero.  So what RecentIsRemembered says of any such calls    *)
(* holds of the cache that concurrent searches share.                      *)
(***************************************************************************)
THEOREM SearchesUseTheCache == RememberingSpec => Calls!UseSpec
  <1>1. Init /\ stored = <<>> /\ recency = <<>> => Calls!UseInit
    BY DEF Init, CacheInit, Calls!UseInit, Calls!CacheInit
  <1>2. Init => ReadBefore
    BY DEF Init, ReadBefore
  <1>3. Typed /\ ReadBefore /\ [Next]_vars => ReadBefore'
    BY ReadBeforeKept
  <1>4. Typed /\ ReadBefore /\ [Next]_vars /\ [Remember]_<<vars, stored, recency>>
        => [Calls!UseNext]_Calls!useVars
    <2> SUFFICES ASSUME Typed, ReadBefore, [Next]_vars, [Remember]_<<vars, stored, recency>>
                 PROVE  [Calls!UseNext]_Calls!useVars
      OBVIOUS
    <2>1. CASE UNCHANGED <<vars, stored, recency>>
      BY <2>1 DEF vars, cacheVars, Calls!useVars, Calls!cacheVars
    <2>2. CASE Remember
      BY <2>2, ServedIsAHit, StoredIsAPut, OtherStepsUse DEF Remember
    <2>3. QED
      BY <2>1, <2>2
  <1>5. QED
    BY <1>1, <1>2, <1>3, <1>4, TypesInvariant, PTL DEF RememberingSpec, Spec, Calls!UseSpec
=============================================================================
