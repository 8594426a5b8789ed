---------------------------- MODULE ReleaseSearch ----------------------------
(***************************************************************************)
(* SpecRunner.Releases of one BT source: concurrent whole-title searches   *)
(* that share the source's semaphore (with its Candidates calls) and its   *)
(* release cache.  A search crawls each of its titles in a goroutine of    *)
(* its own, collects their outcomes from a buffered channel until its      *)
(* deadline, and caches a complete result.                                 *)
(*                                                                         *)
(* A result is known by the titles that answered it and by the records     *)
(* found, so that a partial one can be told from a complete one.           *)
(***************************************************************************)
EXTENDS ReleaseCache

CONSTANTS
    Searches,     \* calls of Releases
    Names,        \* titles, trimmed and in lower case; "" is a blank one
    LowerCase,    \* from a title as written to its name
    TitleLists,   \* the lists of titles requests may carry
    TitleLimit,   \* releaseTitleLimit
    Records,      \* releases the site may return
    Concurrency,  \* limits.concurrency, the capacity of the semaphore
    Deadline,     \* releaseDeadline
    FullTTL,      \* releaseCacheTTL
    EmptyTTL,     \* releaseCacheEmptyTTL
    Caps,         \* values cache.ttl_ms may have
    MaxTime       \* bound: the last instant

VARIABLES
    clock,
    ttlCap,     \* cache.ttl_ms of the source
    semaphore,  \* tokens in runner.semaphore
    resolving,  \* Candidates calls that hold one
    stage,      \* where each search is
    titles,     \* the names it searches
    now,        \* the instant it read last
    expiry,     \* the instant searchContext times out
    done,       \* searchContext is done
    crawl,      \* each title's goroutine: none, running, sent
    outcomes,   \* what is in the channel outcomes
    collected,  \* what the search has received
    result      \* what Releases returns

Keys == SUBSET Names
Releases == [answered : SUBSET Names, hits : SUBSET Records]

ASSUME SearchAssumption ==
    /\ IsFiniteSet(Searches)
    /\ IsFiniteSet(Names)
    /\ Concurrency \in Nat \ {0}
    /\ TitleLimit \in Nat
    /\ {Deadline, FullTTL, EmptyTTL, MaxTime} \subseteq Nat
    /\ Caps \subseteq Nat
    /\ \A list \in TitleLists : \A i \in DOMAIN list : LowerCase[list[i]] \in Names \cup {""}

crawlVars == <<crawl, outcomes, collected>>
sharedVars == <<semaphore, resolving>>
vars == <<clock, ttlCap, cacheVars, sharedVars, stage, titles, now, expiry, done, crawlVars,
          result>>

Stages == {"idle", "looking", "queuing", "relooking", "crawling", "storing", "returned"}

\* What a title's goroutine reports; late if the deadline had passed by then.
Outcome == [title : Names, ok : BOOLEAN, hits : SUBSET Records, late : BOOLEAN]

\* Why a search reports an error: nothing to search, its context ended before
\* it had a slot, or a title failed or was not answered in time.
Result == [releases : Releases, cached : BOOLEAN, err : {"none", "invalid", "context", "search"}]

NoReleases == [answered |-> {}, hits |-> {}]
Failure(err) == [releases |-> NoReleases, cached |-> FALSE, err |-> err]

TypeOK ==
    /\ clock \in 0..MaxTime
    /\ ttlCap \in Caps
    /\ Consistent
    /\ DOMAIN entries \subseteq Keys
    /\ entries \in [DOMAIN entries -> Entries(Releases)]
    /\ semaphore \in 0..Concurrency
    /\ resolving \in 0..Concurrency
    /\ stage \in [Searches -> Stages]
    /\ titles \in [Searches -> SUBSET Names]
    /\ now \in [Searches -> Nat]
    /\ expiry \in [Searches -> Nat]
    /\ done \in [Searches -> BOOLEAN]
    /\ crawl \in [Searches -> [Names -> {"none", "running", "sent"}]]
    /\ outcomes \in [Searches -> SUBSET Outcome]
    /\ collected \in [Searches -> SUBSET Outcome]
    /\ result \in [Searches -> Result]

-----------------------------------------------------------------------------
(* NormalizeReleaseTitles and the lifetime of a result                     *)

\* NormalizeReleaseTitles: the first TitleLimit distinct names that are not blank.
Normalized(list) ==
    LET wanted == {LowerCase[list[i]] : i \in DOMAIN list} \ {""}
        Before(m, n) == \E i \in DOMAIN list :
                          /\ LowerCase[list[i]] = m
                          /\ \A j \in 1..i : LowerCase[list[j]] # n
    IN  {n \in wanted : Cardinality({m \in wanted \ {n} : Before(m, n)}) < TitleLimit}

\* releaseCacheTTL: a declared cache.ttl_ms is an upper bound.
TTL(empty) ==
    LET ttl == IF empty THEN EmptyTTL ELSE FullTTL
    IN  IF ttlCap < ttl THEN ttlCap ELSE ttl

-----------------------------------------------------------------------------

Init ==
    /\ clock = 0
    /\ ttlCap \in Caps
    /\ CacheInit
    /\ semaphore = 0
    /\ resolving = 0
    /\ stage = [p \in Searches |-> "idle"]
    /\ titles = [p \in Searches |-> {}]
    /\ now = [p \in Searches |-> 0]
    /\ expiry = [p \in Searches |-> 0]
    /\ done = [p \in Searches |-> FALSE]
    /\ crawl = [p \in Searches |-> [t \in Names |-> "none"]]
    /\ outcomes = [p \in Searches |-> {}]
    /\ collected = [p \in Searches |-> {}]
    /\ result = [p \in Searches |-> Failure("none")]

\* Returning runs the deferred cancel and ends the life of the locals.
Return(p, outcome) ==
    /\ stage' = [stage EXCEPT ![p] = "returned"]
    /\ result' = [result EXCEPT ![p] = outcome]
    /\ done' = [done EXCEPT ![p] = TRUE]
    /\ now' = [now EXCEPT ![p] = 0]
    /\ expiry' = [expiry EXCEPT ![p] = 0]
    /\ collected' = [collected EXCEPT ![p] = {}]

\* Releases up to its first reading of the clock.  (Bound: no search arrives
\* whose deadline is past MaxTime.)
Arrive(p) ==
    /\ stage[p] = "idle"
    /\ clock + Deadline <= MaxTime
    /\ \E list \in TitleLists :
         /\ titles' = [titles EXCEPT ![p] = Normalized(list)]
         /\ \/ /\ Normalized(list) = {}
               /\ Return(p, Failure("invalid"))
            \/ /\ Normalized(list) # {}
               /\ stage' = [stage EXCEPT ![p] = "looking"]
               /\ now' = [now EXCEPT ![p] = clock]
               /\ UNCHANGED <<result, done, expiry, collected>>
    /\ UNCHANGED <<clock, ttlCap, cacheVars, sharedVars, crawl, outcomes>>

\* The result a lookup finds.
Found(p) == [releases |-> entries[titles[p]].releases, cached |-> TRUE, err |-> "none"]

\* The first lookup; the deadline runs from here, the wait for a slot included.
Look(p) ==
    /\ stage[p] = "looking"
    /\ \/ /\ Hit(titles[p], now[p])
          /\ Return(p, Found(p))
       \/ /\ Miss(titles[p], now[p])
          /\ stage' = [stage EXCEPT ![p] = "queuing"]
          /\ expiry' = [expiry EXCEPT ![p] = clock + Deadline]
          /\ UNCHANGED <<result, done, now, collected>>
    /\ UNCHANGED <<clock, ttlCap, sharedVars, titles, crawl, outcomes>>

\* case runner.semaphore <- struct{}{}
Acquire(p) ==
    /\ stage[p] = "queuing"
    /\ semaphore < Concurrency
    /\ semaphore' = semaphore + 1
    /\ stage' = [stage EXCEPT ![p] = "relooking"]
    /\ now' = [now EXCEPT ![p] = clock]
    /\ UNCHANGED <<clock, ttlCap, cacheVars, resolving, titles, expiry, done, crawlVars, result>>

\* case <-searchContext.Done() while waiting for a slot
GiveUp(p) ==
    /\ stage[p] = "queuing"
    /\ done[p]
    /\ Return(p, Failure("context"))
    /\ UNCHANGED <<clock, ttlCap, cacheVars, sharedVars, titles, crawl, outcomes>>

StartCrawl(p) ==
    /\ stage' = [stage EXCEPT ![p] = "crawling"]
    /\ crawl' = [crawl EXCEPT ![p] = [t \in Names |-> IF t \in titles[p] THEN "running" ELSE "none"]]

\* Mutant of LookAgain: no second lookup.
LookAgain_Skipped(p) ==
    /\ stage[p] = "relooking"
    /\ StartCrawl(p)
    /\ UNCHANGED <<clock, ttlCap, cacheVars, semaphore, resolving, titles, now, expiry, done,
                   outcomes, collected, result>>

\* Mutant of LookAgain: a hit returns without giving the slot back.
LookAgain_KeepsSlot(p) ==
    /\ stage[p] = "relooking"
    /\ \/ /\ Hit(titles[p], now[p])
          /\ Return(p, Found(p))
          /\ UNCHANGED <<semaphore, crawl>>
       \/ /\ Miss(titles[p], now[p])
          /\ StartCrawl(p)
          /\ UNCHANGED <<semaphore, result, done, now, expiry, collected>>
    /\ UNCHANGED <<clock, ttlCap, resolving, titles, outcomes>>

\* The search before this one may have filled the cache meanwhile.  Otherwise
\* crawlReleaseTitles starts one goroutine per title.
LookAgain(p) ==
    /\ stage[p] = "relooking"
    /\ \/ /\ Hit(titles[p], now[p])
          /\ Return(p, Found(p))
          /\ semaphore' = semaphore - 1
          /\ UNCHANGED crawl
       \/ /\ Miss(titles[p], now[p])
          /\ StartCrawl(p)
          /\ UNCHANGED <<semaphore, result, done, now, expiry, collected>>
    /\ UNCHANGED <<clock, ttlCap, resolving, titles, outcomes>>

-----------------------------------------------------------------------------
(* The titles' goroutines: crawlReleaseTitle                               *)

\* Mutant of Answer: the channel is not buffered.
Answer_Unbuffered(p, t) ==
    /\ crawl[p][t] = "running"
    /\ stage[p] = "crawling"
    /\ \E ok \in BOOLEAN, hits \in SUBSET Records :
         /\ ~ok => hits = {}
         /\ outcomes' = [outcomes EXCEPT ![p] = @ \cup
                           {[title |-> t, ok |-> ok, hits |-> hits, late |-> done[p]]}]
    /\ crawl' = [crawl EXCEPT ![p][t] = "sent"]
    /\ UNCHANGED <<clock, ttlCap, cacheVars, sharedVars, stage, titles, now, expiry, done,
                   collected, result>>

\* A title's records, or its failure: the site's, one of extraction, a panic,
\* or the end of the context.  The channel has room for every title.
Answer(p, t) ==
    /\ crawl[p][t] = "running"
    /\ \E ok \in BOOLEAN, hits \in SUBSET Records :
         /\ ~ok => hits = {}
         /\ outcomes' = [outcomes EXCEPT ![p] = @ \cup
                           {[title |-> t, ok |-> ok, hits |-> hits, late |-> done[p]]}]
    /\ crawl' = [crawl EXCEPT ![p][t] = "sent"]
    /\ UNCHANGED <<clock, ttlCap, cacheVars, sharedVars, stage, titles, now, expiry, done,
                   collected, result>>

-----------------------------------------------------------------------------
(* crawlReleaseTitles, mergeTitleOutcomes and the end of Releases          *)

\* Mutant of Merged: a title without an outcome is not a failure.
Merged_SkipsMissing(p, received) ==
    LET answered == {m \in received : m.ok}
    IN  [releases |-> [answered |-> {m.title : m \in answered},
                       hits |-> UNION {m.hits : m \in answered}],
         cached |-> FALSE,
         err |-> IF received = answered THEN "none" ELSE "search"]

\* The titles that answered are merged; one that failed or is missing makes
\* the result partial.
Merged(p, received) ==
    LET answered == {m \in received : m.ok}
    IN  [releases |-> [answered |-> {m.title : m \in answered},
                       hits |-> UNION {m.hits : m \in answered}],
         cached |-> FALSE,
         err |-> IF {m.title : m \in answered} = titles[p] THEN "none" ELSE "search"]

\* crawlReleaseTitles returns: releases are made of the records, and the clock
\* is read for the cache.
Merge(p, received) ==
    /\ stage' = [stage EXCEPT ![p] = "storing"]
    /\ result' = [result EXCEPT ![p] = Merged(p, received)]
    /\ now' = [now EXCEPT ![p] = clock]

\* case outcome := <-outcomes
Collect(p) ==
    /\ stage[p] = "crawling"
    /\ \E m \in outcomes[p] :
         /\ outcomes' = [outcomes EXCEPT ![p] = @ \ {m}]
         /\ collected' = [collected EXCEPT ![p] = @ \cup {m}]
         /\ \/ /\ Cardinality(collected[p]) + 1 = Cardinality(titles[p])
               /\ Merge(p, collected[p] \cup {m})
            \/ /\ Cardinality(collected[p]) + 1 # Cardinality(titles[p])
               /\ UNCHANGED <<stage, result, now>>
    /\ UNCHANGED <<clock, ttlCap, cacheVars, sharedVars, titles, expiry, done, crawl>>

\* Mutant of StopCollecting: what is already in the channel is left there.
StopCollecting_NoDrain(p) ==
    /\ stage[p] = "crawling"
    /\ done[p]
    /\ Merge(p, collected[p])
    /\ UNCHANGED <<clock, ttlCap, cacheVars, sharedVars, titles, expiry, done, crawl, outcomes,
                   collected>>

\* case <-ctx.Done(): drainTitleOutcomes takes what is already in the channel.
StopCollecting(p) ==
    /\ stage[p] = "crawling"
    /\ done[p]
    /\ collected' = [collected EXCEPT ![p] = @ \cup outcomes[p]]
    /\ outcomes' = [outcomes EXCEPT ![p] = {}]
    /\ Merge(p, collected'[p])
    /\ UNCHANGED <<clock, ttlCap, cacheVars, sharedVars, titles, expiry, done, crawl>>

\* Mutant of Cacheable: a partial result is cached too.
Cacheable_Partial(p) == TTL(result[p].releases.hits = {}) > 0

Cacheable(p) == result[p].err = "none" /\ TTL(result[p].releases.hits = {}) > 0

\* The end of Releases, with the deferred release of the semaphore.
Store(p) ==
    /\ stage[p] = "storing"
    /\ \/ /\ Cacheable(p)
          /\ Put(titles[p], result[p].releases, now[p], TTL(result[p].releases.hits = {}))
       \/ /\ ~Cacheable(p)
          /\ UNCHANGED cacheVars
    /\ Return(p, result[p])
    /\ semaphore' = semaphore - 1
    /\ UNCHANGED <<clock, ttlCap, resolving, titles, crawl, outcomes>>

-----------------------------------------------------------------------------
(* Time, the request and the source's Candidates calls                     *)

\* Mutant of Expire: the deadline runs from the acquisition of the slot.
Expire_AfterSlot(p) ==
    /\ stage[p] \in {"relooking", "crawling", "storing"}
    /\ ~done[p]
    /\ expiry[p] <= clock
    /\ done' = [done EXCEPT ![p] = TRUE]
    /\ UNCHANGED <<clock, ttlCap, cacheVars, sharedVars, stage, titles, now, expiry, crawlVars,
                   result>>

\* The context times out at its deadline, or the request is cancelled.
Expire(p) ==
    /\ stage[p] \in {"queuing", "relooking", "crawling", "storing"}
    /\ ~done[p]
    /\ expiry[p] <= clock
    /\ done' = [done EXCEPT ![p] = TRUE]
    /\ UNCHANGED <<clock, ttlCap, cacheVars, sharedVars, stage, titles, now, expiry, crawlVars,
                   result>>

Cancel(p) ==
    /\ stage[p] \notin {"idle", "returned"}
    /\ ~done[p]
    /\ done' = [done EXCEPT ![p] = TRUE]
    /\ UNCHANGED <<clock, ttlCap, cacheVars, sharedVars, stage, titles, now, expiry, crawlVars,
                   result>>

BeginCandidates ==
    /\ semaphore < Concurrency
    /\ semaphore' = semaphore + 1
    /\ resolving' = resolving + 1
    /\ UNCHANGED <<clock, ttlCap, cacheVars, stage, titles, now, expiry, done, crawlVars, result>>

EndCandidates ==
    /\ resolving > 0
    /\ semaphore' = semaphore - 1
    /\ resolving' = resolving - 1
    /\ UNCHANGED <<clock, ttlCap, cacheVars, stage, titles, now, expiry, done, crawlVars, result>>

Tick ==
    /\ clock < MaxTime
    /\ \A p \in Searches : stage[p] = "looking" => clock + 1 + Deadline <= MaxTime
    /\ clock' = clock + 1
    /\ UNCHANGED <<ttlCap, cacheVars, sharedVars, stage, titles, now, expiry, done, crawlVars,
                   result>>

SearchNext(p) ==
    \/ Arrive(p)
    \/ Look(p)
    \/ Acquire(p)
    \/ GiveUp(p)
    \/ LookAgain(p)
    \/ Collect(p)
    \/ StopCollecting(p)
    \/ Store(p)

Next ==
    \/ \E p \in Searches :
         \/ SearchNext(p)
         \/ \E t \in Names : Answer(p, t)
         \/ Expire(p)
         \/ Cancel(p)
    \/ BeginCandidates
    \/ EndCandidates
    \/ Tick

Spec == Init /\ [][Next]_vars

\* A search that can go on does, time passes, and Candidates ends by its own
\* deadline.  A site may never answer: only the end of the context, which the
\* HTTP client watches, makes a title's goroutine end.
Fairness ==
    /\ \A p \in Searches :
         /\ WF_vars(Look(p))
         /\ WF_vars(Acquire(p) \/ GiveUp(p))
         /\ WF_vars(LookAgain(p))
         /\ WF_vars(Collect(p) \/ StopCollecting(p))
         /\ WF_vars(Store(p))
         /\ WF_vars(Expire(p))
         /\ \A t \in Names : WF_vars(done[p] /\ Answer(p, t))
    /\ WF_vars(Tick)
    /\ WF_vars(EndCandidates)

FairSpec == Spec /\ Fairness

-----------------------------------------------------------------------------
(* Safety                                                                  *)

\* Every token of the semaphore is held by a search past its acquisition or by
\* a Candidates call: hits, failures and deadlines all give theirs back.
Holders == {p \in Searches : stage[p] \in {"relooking", "crawling", "storing"}}
SemaphoreAccounting == semaphore = Cardinality(Holders) + resolving

\* The cache holds complete results only: whatever a search that failed, ran
\* into its deadline or was cancelled had, is not served to a later one.
CacheHoldsComplete == \A k \in DOMAIN entries : entries[k].releases.answered = k

\* A result without an error answers every title of its own search, also when
\* another search, for the titles in another order or case, has filled the cache.
NoSilentGaps ==
    \A p \in Searches :
        stage[p] = "returned" /\ result[p].err = "none" => result[p].releases.answered = titles[p]

\* What a title had delivered before the deadline is in the result, whichever
\* of the two the search sees first.
OnTimeAnswersKept ==
    \A p \in Searches : stage[p] \in {"storing", "returned"} => \A m \in outcomes[p] : m.late

\* With one slot, titles another search has just answered are not crawled again.
NoRepeatedCrawl ==
    Concurrency = 1 =>
        \A p \in Searches : stage[p] = "crawling" => titles[p] \notin DOMAIN entries

-----------------------------------------------------------------------------
(* Liveness                                                                *)

\* A search returns although a site never answers and the slots are taken, and
\* its titles' goroutines end although nobody receives their outcomes any more.
SearchesReturn ==
    \A p \in Searches :
        stage[p] = "looking" ~> stage[p] = "returned" /\ \A t \in Names : crawl[p][t] # "running"
=============================================================================
