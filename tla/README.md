# Formal verification of Nagare Source

Nagare Source is a Go program that runs as a local plugin of the Nagare player:
it loads declarative source rules, searches web and BitTorrent sources with
them, resolves media pages in a sandboxed browser and streams what it finds to
the player as NDJSON. The same repository holds the tools that import, check,
build and publish the rules. This directory holds TLA+ models of its
concurrent and failure-prone parts, the TLC runs that check them on small
instances and TLAPS proofs about them.

## Inventory

| Component | Source | State it keeps | Operations | What makes it correct |
| --- | --- | --- | --- | --- |
| Candidate stream | `internal/pluginapi/handler.go`, `scheduler.go` | per request: message channel, per-source state, IDs seen; per process: 2 browser slots | start sources, dispatch browser sources, emit, finish, write, cancel | no slot lost or doubled, unique IDs, at most one error per source, `done` last and consistent with the stream, every goroutine ends |
| Release stream | `internal/pluginapi/releases.go` | per request: outcome channel | search every BT source, write its releases and its result | one `source_result` per source, its events contiguous, counts agree |
| Self-check and health endpoints | `internal/pluginapi/handler.go` | none | run self-checks in ID order, report uptime | requests are validated before any self-check runs |
| Source runner, candidates | `internal/sourceruntime/runner.go` | semaphore, rate gate | search, choose subject, match episode, resolve, emit | returns by its deadline, an error or at least one candidate, concurrency and rate bounds hold |
| Source runner, releases | `internal/sourceruntime/releases.go` | semaphore, release cache | search all titles in parallel, merge, cache | a partial or failed result is never cached, the semaphore is given back |
| Release cache | `internal/sourceruntime/release_cache.go` | map, LRU list | get, put | never serves an expired entry, bounded, evicts the least recently used |
| Rate gate | `internal/sourceruntime/runner.go` | next permitted instant | wait | starts at least one interval apart |
| Pure matching | `subject_match.go`, `search_titles.go`, helpers of `sourceruntime` | none | choose the subject of a search, match episodes | no work of another season, an exact match is not passed over |
| Rule extraction | `internal/sourceruntime/extract.go`, `internal/btcrawler/extract.go` | per row: fields resolved and fields begun | resolve fields that refer to each other, alternatives, defaults, lines and their variables | a row is what its definitions say in any order of evaluation, a failed line leaves no trace in the next |
| BT crawler | `internal/btcrawler/crawler.go`, `http.go` | records by key, temporary file | fetch, extract, dedupe, filter by episode, write | an item costs or changes only itself, the file can be loaded |
| BT index | `internal/btindex/btindex.go` | files | check and key records, load a file, build the index | unique keys, what is written loads |
| Browser resolver | `internal/webresolver/resolver.go` | event buffer, visited set, navigation count | observe, navigate nested players, verify and return media | bounded depth, media only under policy, events not lost |
| Browser backends | `chrome.go`, `native_webview.go`, `native/macos/main.m` | process, profile, 2 native sessions | start, stop | session and profile are gone when it returns |
| Browser proxy | `internal/webresolver/proxy.go`, `policy.go` | tunnels, first violation | connect, close | no tunnel survives close, addresses checked |
| Importers | `internal/importer`, `cmd/nagare-source/main.go` | sources converted, diagnostics, IDs given | convert rules of three ecosystems, apply overlays, validate, write | all or nothing, unsafe rules stay off, overlays bind to the version they were written for |
| Approved sync | `cmd/nagare-source/sync.go` | generated rule directories | stage, install with rollback | an install is complete or absent, the previous one survives a failure |
| Repository | `internal/repository/repository.go` | rule tree, dist directory | load, validate, build | no duplicate IDs, a release is of one piece whatever was made before it |
| Health reports | `internal/healthreport` | report files, workers | check all sources in a worker pool, replace both reports | one status per source, a failed run loses no report |
| Process lifecycle | `cmd/nagare-source/serve.go` | listener, signal context | listen, serve, shut down | shutdown cancels every request |
| Command line, schemas, scripts, rule data | `cmd/nagare-source/main.go`, `schema/`, `scripts/`, `sources/` | none | parsing and packaging | pure I/O |

How they meet: an HTTP request runs the candidate stream, which calls one
source runner per source in its own goroutine and gets candidates through a
callback into a bounded channel; a browser source additionally holds one of two
process-wide slots. A runner is bounded by its own deadline, semaphore and rate
gate, and calls the browser resolver, which listens to events of a backend on
another goroutine. The release stream calls the runners' whole-title search,
which goes through the per-source cache. The repository tools share only files
with the plugin process: `import` and `sync-approved` write `sources/`, `crawl-bt`
writes a file of records, `health` two reports, and `build` puts a release
together from what the others left, each of them made at another time.

The hard behaviours are the interleavings of a request's goroutines with its
cancellation and with the other requests that share its slots; a browser's exit
and a deadline that race the answers they end; a cache shared by searches that
may be partial; repository tools that move directories about and may die in
between; and conversions where one bad rule, row, line or item lies among good
ones and must cost only itself, or everything. `PROJECT.json` lists each hazard
at its line with the property that would catch it going wrong, or the reason no
property does yet.

## Modules

| Module | Models | Checked by |
| --- | --- | --- |
| `CandidateContract` | what a client of `POST /v1/candidates` may rely on | `candidates_safety`, as a property |
| `CandidateStream` | `streamCandidates`, `startSources`, `runSource` | `MCCandidateStream`, two runs |
| `CandidateStreamProofs` | theorems about it; it implements the contract | `tlapm` |
| `ReleaseCache` | `releaseCache.get` and `put`, as actions other modules conjoin | |
| `ReleaseCacheUse` | the cache alone, with callers whose instant is stale | `MCReleaseCache` |
| `ReleaseSearch` | `SpecRunner.Releases`, which extends `ReleaseCache` | `MCReleaseSearch` |
| `ReleaseSearchProofs` | theorems about it | `tlapm` |
| `ReleaseContract` | what a client of `POST /v1/releases` may rely on | `release_stream`, as a property |
| `ReleaseStream` | `streamReleases` and its search goroutines | `MCReleaseStream` |
| `ReleaseStreamProofs` | it implements the contract and tells sources in full | `tlapm` |
| `SyncInstall` | `syncApproved`, `installApprovedSources` and the tree `LoadSources` walks | `MCSyncInstall`, two runs |
| `SyncInstallProofs` | theorems about it | `tlapm` |
| `SourceRunner` | `SpecRunner.Candidates` with `rateGate` and `limitedFetcher` | `MCSourceRunner` |
| `SourceRunnerProofs` | theorems about it | `tlapm` |
| `BrowserResolve` | `Runtime.Resolve`, `browseOnce` and the sessions | `MCBrowserResolve`, two runs |
| `BrowserResolveProofs` | theorems about it | `tlapm` |
| `SourceLint` | `ValidateSource`, as far as a converted source can fail it | within `RuleImport` |
| `KazumiRule`, `AnimekoRule`, `NagareRule` | the conversion of one rule of each ecosystem | within `RuleImport` |
| `RuleImport` | the command `import`: importers' loops, overlays, validation, writing | `MCRuleImport` |
| `RuleImportProofs` | theorems about it | `tlapm` |
| `Texts` | texts as rules take them from a response, and what is made of one | within `RulePipeline` |
| `BTRecords` | records, their keys and order, the checks of `btindex.go` | within `Publishing` |
| `BTCrawl` | the command `crawl-bt` over it, row by row | within `Publishing` |
| `SubjectMatch` | `chooseSubject` | within `Publishing` |
| `Publishing` | `crawl-bt`, `health` and `build` in a row, with edits, crashes and failures | within `RulePipeline` |
| `PublishingProofs` | theorems about it | `tlapm` |
| `FieldExtraction` | the fields of one row, as both `extract.go` resolve them | within `RulePipeline` |
| `WebExtraction` | collections, lines and episodes of a page; the data of `SelfCheck` | within `RulePipeline` |
| `RulePipeline` | `Publishing` with the rules' own extraction | `MCPublishing` |

`PROJECT.json` "map" gives the lines of every definition. Operators whose name
ends in `_Something` and whose comment says "mutant" are no part of a
specification: each is the definition of that name with a plausible mistake in
it, kept so that a property can be seen to fail when the mistake is made.

**CandidateStream.** Per request there is a `writer` (the handler's own
goroutine), a `dispatcher` (the goroutine that queues browser sources for
`handler.browserSlots`), and per source a goroutine whose `stage` goes from
queued or running to exited. `chan` is the bounded channel between them; a
source that meets it full waits, and only the request's context frees it. The
writer takes one message per action, with everything the code does before it
takes the next (`AcceptCandidate`, `RejectCandidate`, `IgnoreCandidate`, `CompleteSource`,
...). A `Runner` is seen through its interface: it emits up to `MaxEmits`
candidates, valid or not, and returns with an error or without. `Shutdown`
cancels every request, as the server's base context does; `Disconnect` is the
client leaving, which the server notices later or at a failing write.

**ReleaseSearch** over **ReleaseCache.** A search looks in the cache, waits for
the source's semaphore, looks again, starts a goroutine per title, collects from
a buffered channel until its own deadline and stores only a result without an
error. A result is represented by the titles that answered it and the records
found, so a partial one differs from a complete one. `clock` is the wall clock;
`now` the instant a search has read, which may be out of date when it is used.
`BeginCandidates` and `EndCandidates` stand for the calls of `Candidates` that
share the semaphore.

**ReleaseStream.** Each source's goroutine sends one outcome; the writer tells
one outcome whole, release by release, before it takes the next.

**SyncInstall.** One process at a time runs a sequence of file operations, each
an action; between any two it may die (`Crash`), which leaves its temporary
directory under `sources/`. A directory of rules is a function from source IDs
to contents. `abandoned` are the directories left by runs that died, were
refused their rollback (`NotPutBack`) or could not remove them; `Under` is
everything `LoadSources` would walk into. `committed` is the last validated
snapshot. A rollback that is refused once more gives up the one before, which the
run then removes with its directory: the code ignores those errors
(`sync.go:194`, `203-205`), and `committed` is `Missing` from there on.

**BrowserResolve.** The loop of `Resolve` opens a session (`OpenSession`), whose
goroutine reports events into a bounded channel (`Emit`) until it ends
(`EndSession`), and `browseOnce` reads them one per action: the actions `Read...`
are its branches in their order. `wait` is the step `stopping`, which may be left
at any time because the wait is over after a second. Rules and policies are sets
of URLs; a URL inside the policy may still be refused, since its host is looked
up anew at each event.

**SourceRunner.** `stage` says where a call of `Candidates` is, `job` where each
of its fetches: a BT source starts one for every page of every title at once
(`Acquire`) and merges them when the last is over (`MergeRecords`), a web source
has one at a time (`Search`, `Choose`, `Resolve`). `Reserve` is the critical
section of `rateGate.Wait`, `PassGate` and `LeaveGate` the two ways its wait
ends; `reserved` is a history of the instants given out. A browser resolves
without the gate. `emitting` is the time inside the callback, during which the
token is held: `Emit` and `EmitRefused` are the handler's two answers. `done` is
the call's own context, `callerDone` the request's.

**RuleImport** over **KazumiRule**, **AnimekoRule**, **NagareRule** and
**SourceLint.** A rule is a record of the parts a converter's guards and results
tell apart: a URL is its host, its scheme and the variables in it, a selector or
pattern one of a few classes. `...OK` are a converter's refusals, `...Warnings`
its diagnostics, `...Source` the Source Spec it writes, reduced in the same way
to what `ValidateSource` and the properties read. The actions follow
`importSources`: `ListFile` and `EndListing` gather the files, `ImportEntry` is one turn of an
importer's loop with the choice of an ID, `EndDocument` closes a file,
`CheckDuplicates`, `ApplyOverlay` (any overlay a maintainer may have left),
`Validate`, and `WriteSource` file by file. Where Go's map order decides which of
two old Nagare fields with one new name stays, the model allows both (`Kept`).

**FieldExtraction** and **WebExtraction** over **Texts.** A text is its class and what of that
class it is, so that a title that names an episode, an infohash in another
encoding or a relative address is told from others without its characters.
`Resolve` is the recursive closure of `extractFieldMap`, with its two states per
field passed along as a memo: a field that failed stays half resolved, exactly as
in the code. `ExtractEpisodes` reads line after line with the variables copied
for each; `SelfCheck` is what the runner's self-check makes of a whole source.

**BTCrawl** over **BTRecords.** `StartSource` fetches the response of one source,
`ReadItem` is one turn of the loop of `Crawl` over its rows, with `kept` as the
records by key so far, `EndSource` its self-test; the records of all sources go to
one temporary file that is renamed (`WriteTemporary`, `RenameRecords`), and the
process may die before.

**Publishing** runs an `agenda` of commands. `health` is a pool of workers
(`TakeSource`, `CheckSource`) and then two files replaced one after the other, at
once or with the old one moved aside (`MoveAside`, `ReplaceReport`,
`ReportFails`). `build` checks what the commands before it left (`Buildable`),
assembles a release and puts it in place of the last, which is removed file by
file (`RemoveSource`, `RemovePart`, `Publish`). The index has the digests of the
other files, as the code takes them, so that files of two releases would be told
apart. `refusals` counts what a rollback met: at three renames refused the report
is lost (`ReportFails`). `EditSources` changes `sources/` between commands,
`Crash` ends one anywhere.

What the rules take from a response reaches `Publishing` through three constant
operators: `Extract`, the fields of a row; `FoundRows`, what a search finds;
`SelfCheckStatus`. The runs give them their definitions in `FieldExtraction` and
`WebExtraction` (`RulePipeline`, with the properties of the extraction itself);
the proofs hold for any, as long as fields are texts and rows have titles
(`CrawlsAssumption`, `SearchesAssumption`, which the runs evaluate).

## Runs

| Run | Instance | What it shows |
| --- | --- | --- |
| `candidates_safety` | two requests, one of which only competes for the slot, a browser and a BT source, one slot, one ID, two candidates a request | slots are accounted for, IDs are unique, nothing follows a source's error, and the stream implements `CandidateContract` |
| `candidates_live` | two requests, one browser source that emits up to three candidates, one slot | streams end, and a cancelled request unwinds with its source blocked on the full channel or its dispatcher waiting for the slot |
| `release_cache` | three keys, a cache of two, two lifetimes, instants one behind | map and list agree; a live entry is forgotten only for `Limit` more recent ones |
| `release_search` | two searches, two titles in several spellings, one slot, a cache of one entry, sites that never answer | tokens come back, only complete results are cached, a result without an error is complete, answers in time are kept, titles just answered are not crawled again, searches return |
| `release_stream` | two sources, up to two releases each, well formed or not, repeated or not | each source is told in full and in one piece; the stream implements `ReleaseContract` and ends |
| `sync_install` | two IDs, two contents, up to two runs that die, are refused their rollback or leave files | a validated snapshot is lost only where its own rollback is refused, never mixed, and success means the repository loads |
| `sync_resync` | the same | expected violation, see Findings |
| `source_runner` | two calls of a BT, a direct or a browser source, one token, two titles or pages, two records or matching episodes | the token is accounted for, the gate's instants are an interval apart and nothing goes out early, errors and candidates exclude each other as they should, and calls progress although another holds the token in its callback |
| `browser_resolve` | three sessions, three events each of eight kinds, a channel of one | no page is opened twice, nothing outside the policies is opened or returned, a delivered media response counts, resolves return, sessions close |
| `browser_cleanup` | the same with one event | expected violation, see Findings |
| `rule_import` | every rule that differs from a usable one in one field, lists of two and three rules whose names meet, directories with unreadable, empty and catalogue files, any overlay | an import writes all or nothing, unsafe rules stay off with a warning for each reason and credentials out, overlays bind and leave identities alone, links can be followed, conversions fit the schema and what they alter of a tier, a lifetime or a pattern is warned of |
| `publishing` | every pair of fifteen items through four feeds, every page of two lines through four stages, searches of two works, six commands over two sources edited in between | rows mean their definitions, items and lines do not affect each other, works of the right season are chosen, written files load, reports agree and survive failures but a refused rollback, a release is of one piece file by file |

The bounds, and why they are enough for what they are for:

- `MaxEmits`, `MaxReleases`, `MaxEvents` cap what a source, a search or a browser
  produces. One more than the channel or the limit it meets is where behaviour
  changes: `candidates_live` fills the candidate channel of a single source,
  `browser_resolve` overflows the event channel and passes the page limit. In
  `candidates_safety` one source sends twice or both once (`FewCandidates`): the
  repeated ID, the late error and the candidate behind a rejected one all occur.
  A third candidate only repeats them.
- `Quiet` requests (`QuietCompete`) take and return slots and find nothing. They
  stand for other clients in the accounting of the slots, the only thing two
  requests share. The proofs are without either constraint.
- `Slots = 1` and `Concurrency = 1` make every pair of holders compete;
  `Concurrency = 2` in `publishing` is one worker per source, so that checks
  overlap.
- `Records = {}` in `release_search`: a result is told from another by the titles
  that answered, so what they found would only multiply states. Its results live
  for `EmptyTTL`; the choice of the other lifetime is covered by the proofs, which
  hold for any `Records`.
- `Limit` is 4 in the browser resolver and 3 in the instance; the code uses it
  only in comparisons, and three sessions already hold a loop of two pages.
  `Capacity` is 1024 there and 1 here, so that a full channel occurs.
- `rule_import` varies one field of a rule at a time (two where guards read them
  together). Each guard of a converter is met from both sides; combinations of
  mistakes in one rule refuse it for either.
- The narrow plans of `publishing` run one command over every input; the wide ones
  run six commands over one input. An extraction depends on nothing but its input,
  so their product would add no case.
- `MaxTime` ends the clock after the longest lifetime in the instance has passed
  once, so entries expire, are replaced and are evicted. A search that is under
  way when the clock stops still reads it.
- In `source_runner` the clock ends at 2, the length of one `Interval`: the first
  fetch goes at once, the second waits for its timer, and a third is booked past
  the end, so that only its deadline ends its wait.
- `MaxDebris = 2`: a death or a refused rollback in a repository that already has
  the remains of one.
- In `publishing` the release of two sources has five files, removed in any order
  with a death or an error after each; half a million states are the interleavings
  of these with the six commands.

`CHECK_DEADLOCK FALSE` stands where a system really stops: requests that have
been answered, searches and resolves that have returned, commands that are over. `release_cache` and the
sync runs never stop and are checked for deadlock.

Fairness. Every goroutine that can go on does (weak fairness of its steps); a
`Runner` returns, since `Candidates` and `Releases` run under a deadline of their
own, which `release_search` shows for `Releases`. A dispatcher waiting to send to
`browserSlots` gets strong fairness, because Go serves the senders blocked on a
channel in their order. A title's fetch gets fairness only once its context is
done: a site may never answer. In `SourceRunner` the deadline of a call passes,
while a site may stay silent until it has and the callback may never return. In `BrowserResolve` a session ends only once its
context is done (Chrome's allocator and the native helper are killed with it, and
removing the profile and closing the proxy are bounded), and the deadline itself
is not assumed to pass: `SessionsClose` says that leaving a session ends it
without the deadline. No run assumes that a client connects, stays or leaves, or
that a browser reports or stops.

## Theorems

All for any values of the constants that satisfy the named assumptions, which
say that sets of requests, sources, searches and IDs are finite, that limits are
naturals, and that tables are functions of the right shape.

- `CandidateStreamProofs`: `TypeCorrect`, `SlotsAccounted`, `UniqueIds`,
  `ErrorIsFinal`. `SlotAccounting` counts holders by `stage`, so its induction
  needs to know that a request nobody started holds nothing (`FreshRequests`),
  and that only browser sources have a deferred release (`OnlyBrowserReturns`):
  these with the types are `IInv`. That `browserSlots` stays below the capacity
  is part of `TypeOK` and follows from the accounting, not the other way round.
  The two theorems about the response need that the writer remembers what it has
  written (`Remembered`): every ID on the wire is in `candidateIDs`, every
  source with an error is in `errorEmitted` (`WireInv`).
- `CandidateStreamProofs`, its second half: `ImplementsTheContract`. The contract's `done` may be
  written only when every source of the request has a candidate or an error on
  the wire, and counts them. So the invariant follows a source's results from the
  source to the wire: a `done` message is the last one of its source and follows
  a candidate unless it failed (`Ordered`), a candidate that was sent is in the
  channel or known to the writer (`Accounted`), a source the writer has counted
  as complete is settled (`Settled`), and what the writer counts is what it wrote
  (`Written`).
- `ReleaseSearchProofs`: `OnlyCompleteCached`, `SuccessIsComplete`,
  `SlotsGivenBack`, `InTimeIsKept`, `AnsweredOnce`. The first two hold each other
  up: a hit is complete because the cache is, and the cache is because a search
  that is about to store has an error or an answer for every title
  (`MergedHonestly`), together `CInv`. The third is an accounting of holders as
  above (`SInv`). `InTimeIsKept` needs the book-keeping of the channel: an answer
  in the channel or received, once (`BInv`). `AnsweredOnce` is about one slot:
  the semaphore stays within its capacity (`SlotsLimited`), so while one search
  crawls no other can store, and its own second lookup found nothing.
- `ReleaseSearchProofs`: `TypeCorrect`. Its heart is the cache: the map and the
  list have the same keys, each once, and no more than `Limit` (`CacheOK`). The
  operations are taken one at a time (`HitKeepsCache`, `MissKeepsCache`,
  `PutKeepsCache`), from any cache that has this; a `put` sweeps before it stores
  and evicts one key only if the list has grown past the limit.
- `ReleaseSearchProofs`, then: `RecentIsRemembered`, of the cache alone
  under any calls (`ReleaseCacheUse`, a second specification over the same two
  variables), with any lifetimes and instants however old.
  The list is never looked at as a sequence but as an order of keys (`Ahead`):
  leaving keys out keeps the order of the others (`WithoutKeepsOrder`), which
  takes the n-th of the places that are kept and so that there is one
  (`PlacesExist`). The cache's order agrees with that of all uses (`Remembered`);
  so a key is no further back in the cache than in the history (`NoFurther`), and
  one that `put` evicts has `Limit` others before it in both. Sweeping takes only
  what has expired by the clock, since no instant is later than it.
  `SearchesUseTheCache` ties the two together: given a history of what they store
  and look up (`Remember`), every step of the searches is a call of
  `ReleaseCacheUse` or leaves its variables alone. A search looks and stores with
  the instant it read a step before, which may be old by then but never to come
  (`ReadBefore`), and hands `put` a lifetime that is not zero. So `RecentIsRemembered`, which assumes
  nothing of its keys, lifetimes and instants that the searches do not meet, holds
  of the cache they share. `release_cache` and `release_search` check the two
  specifications apart; only the theorem relates them.
- `ReleaseStreamProofs`: `ImplementsTheContract`, `SourcesToldInFull`. A source
  stands in one of three places: its outcome waits, it is being told, it has been
  told (`Queue`, `Order`); what the writer has seen and counted is on the wire
  (`Seen`, `Counted`). For the second, the releases of the source on its turn are
  split into those told and those left (`Split`). `TypeCorrect` is about sizes: a
  source sends at most once (`OneEach`), hence the channel, made as long as there
  are sources, never makes a goroutine wait (`ChannelHasRoom`); the messages are
  mapped one to one to their sources, and counting those bounds them.
- `SourceRunnerProofs`: `TypeCorrect`, `TokensBalance`, `Spaced`, `HonestCalls`.
  The invariant is kept call by call (`Steady`): which stages have fetches
  (`FetchesAt`), that a counter is positive where a step takes from it
  (`CountedAt`), what has been emitted before the last stages (`HonestAt`) and
  that a fetch on its way was due (`PunctualAt`); a step of one call leaves the
  others alone (`CallFrame`, `FetchFrame`). The spacing needs that `next` is an
  interval after every instant given out (`Gate`).
- `SyncInstallProofs`: `TypeCorrect`, `NothingLost`, `NoMixture`, `LoadsAgain`.
  The strengthening `Swap` says, for each step of the process, where the snapshot
  it began with is: in place, in `previous`, or already replaced by one that was
  validated. `NothingLost` also needs that a death moves the temporary directory
  to the abandoned ones without losing any.
- `BrowserResolveProofs`: `TypeCorrect`, `PagesStayInside`, `MediaIsNotOverlooked`. The pages
  opened are counted by the sessions of one backend and by the navigations of the
  other (`Counted`); both stay within the limit, and the page to be opened next
  was found inside (`Sound`). Media that reached the channel are read before the
  end of the browser counts, since that end is looked at with the channel drained
  (`Delivered`). `TypeCorrect` adds the numbers (`Bounded`): each session visits a
  page not visited before, so there are as many of the one as of the other, and the
  redirects of a page stop at the first one past `MaxRedirects`.
- `RuleImportProofs`: `TypeCorrect`, `UnsafeRulesStayOff`, `LinksAreOpen`,
  `ImportsAreAllOrNothing`, `OverlaysAreBound`, `ConversionsFit`. A source before its
  overlay is exactly what `KazumiSource` makes of its rule (`Fresh`), one after it
  differs only where it was patched (`Reviewed`); its warnings are with it from
  the step that converts it (`Told`). What is written has been validated
  (`Checked`). For the last three, `Whole`: the list has the input's documents
  (`Listed`), a converted source is one that the rule at its place can become and a
  patched one still has that rule's kind and origin (`Origins`), a rule the loops
  have passed has a source or the run an error (`Progress`), and nothing is
  written by a run with an error (`Writes`). The ranges are lemmas about each
  clamp; they assume that the numbers of an Animeko rule are integers, as its
  decoder does (`NumbersAssumption`). What an Animeko source has lost to a clamp
  that warns, or to a rewritten pattern, has its warning among the rule's
  (`AlteredIsWarnedOf`), and a warning stays with its source up to the report
  (`Reported`), also when the rule is renamed.
- `PublishingProofs`: `ItemsStandAlone`, `WrittenFilesAreGood`,
  `ReportsAreOfOneRun`, `ReportsAreKept`, `ReleaseIsOfOnePiece`, `SubjectsFit`,
  `ChoicesAreRight`. That at most one command is under way, with its job at the
  head of the agenda, is `Control`. Of a crawl, `kept` gathers the records of the
  items read so far (`Gathered`, `Reading`): a record displaced by one with a
  smaller JSON cannot come back, because that order is total on normalized records
  with one key (`KeyAndRankSay`), so what is left are the least whatever the order
  of the items (`GatheredAreLeast`, `Harvested`). A file is then well written
  (`Files`), which with the checks of `build` makes the release it assembles of
  one piece (`AssembledOfOnePiece`) and whole; removing any of its files keeps the
  one, and a build that ends well leaves the other (`Pieces`). Of a health run, `Checks` says where each source is: waiting, with
  a worker, or done; `Reports` dates the reports by the commands still to come,
  also those moved aside, and knows that only while the page is being written the
  JSON report may be of this run. The choice of a subject is a lemma about any
  list of rows (`GoodScoresFit`, `ExactScores`): the fallback for sequels given
  by a bare number, the guard against later seasons and the score for inclusion
  together leave no title of another season above the threshold. The first of
  the best rows exists since a set of naturals has a least element
  (`LeastNumber`).

Model-checked only: what the rules' extraction makes of a row or a page
(`RowsMeanTheirDefinitions`, `LinesKeepApart`), whose fields are resolved by
RECURSIVE operators: what a recursive definition computes for every input needs
an induction the installed provers cannot do. Nor can they prove liveness under
fairness: `StreamsEnd`, `CancelledRequestsUnwind`, `SearchesReturn`, `StreamEnds`,
`ResolveReturns`, `SessionsClose`, `CallsProgress`.

## Findings

- `sync_resync`: a second sync of an upstream moves the installed snapshot to
  `sources/.../.sync-<id>-*/previous` and then validates everything under
  `sources/`, that directory included; any ID in both is a duplicate, so a
  regular re-sync fails and is rolled back (`sync.go:200`).
- `browser_cleanup`: `docs/browser-runtime.md:16` promises that the profile is
  removed and the proxy closed before media are returned; `waitBrowser` gives up
  after a second (`resolver.go:541`).

## Differences

Smaller differences between the code and what its documents say, met while the
models were written. No run is given to them; the models do what the code does where they reach it.

- Importers. `docs/changelog.md:190` says that what cannot be carried over is
  diagnosed. Of a Kazumi XPath rule with `usePost`, a variable in the search URL
  outside its query is not converted; of two old Nagare fields with one new name
  one replaces the other. Neither gives a diagnostic: `NothingLost` of `RuleImport`
  states it and does not hold.
- BT crawler. `docs/bt-crawler.md:42` says an item with only a `.torrent` address
  and no infohash is rejected; it is accepted. Two such records of one source can
  be written by `crawl-bt` and then refuse to load, because the key they are
  collapsed by has the address and the one that is checked has not:
  `WrittenFilesLoad` is about files whose records have infohashes. `parseSize`
  takes a KB for 1024 bytes, `sourceruntime` for 1000.
- Extraction. `docs/source-spec-v1.md:106` lets the shortest array bound zipped
  columns; the code, and `docs/changelog.md:110`, the shortest required one. A
  transform that fails on one value fails its whole column. `absolute_url` of a
  blank text is the address of the response. `parseEpisode` of `sourceruntime`
  refuses `[01v2]`, which `docs/source-spec-v1.md:115` reads as 1.
- Matching. A request for a later season whose title is found exactly, but names
  no season, is refused (`subject_match.go:81`), and a request for `X 2` may get
  `X` when its season is not given.
- Self-check. `docs/plugin-api-v1.md:219` refuses an unknown ID before any
  self-check; `postSelfCheck` meets it in its loop, after those of the IDs before
  it (`handler.go:430`).
- Health reports. `docs/changelog.md:90` and `docs/community-publishing.md:31` call
  them atomic; where the rename over an existing file is refused there is no
  report between the two renames of the fallback, and a run that dies there leaves
  none. Where the second try and the rename that puts the old report back are
  refused too, the deferred removal of the backup deletes the last copy
  (`report.go:239-245`). `FailedRunsKeepReports` names both exceptions.
- Builds. `validateHealthReport` compares IDs and totals (`repository.go:450`): a
  report with the status of an earlier version of a source, or of one that has
  been switched off since, is published with the new version.
- Importers again. Against the same line of the changelog, `animeko.go:266-308`
  brings `channelTiers`, `searchUseSubjectNamesCount`, `requestInterval` into range
  and drops a negative `searchCacheTtl` without a diagnostic, and the old Nagare
  converter a timeout below one. `ConversionFits` asks for a warning where the
  code means to give one: for the tier, the upper limit of the lifetime and the
  patterns.

## Assumptions and what is left out

- Candidates, releases, rules and URLs are opaque; validation against a schema
  is a Boolean of the value.
- Two syncs at the same time are left out: the command takes no lock, and the
  scheduled workflow runs one at a time
  (`.github/workflows/sync-upstreams.yml:11-13`).
- `BrowserResolve` leaves out the checks of a source before the first session,
  which return without state, and the headers and cookies of media.
- A panic in a `Runner` is an error of that source, as `runSource` recovers it;
  one in a goroutine of `btCandidates` is not, and would end the process.
- `SourceRunner` knows a response by what the code makes of it. Which subject is
  chosen is left to `SubjectMatch`, which records match to `BTRecords`.
- What a selector finds in a document and what a transform makes of characters are
  classes of values. Case, entities and blanks are not told apart.
- `RuleImport` takes the converters' diagnostics by category, and the digest of a
  rule as the rule itself.
- In `Publishing` a health run is not cancelled: the command's context never is.
  A BT source's self-check may find anything; that of a web source is computed
  from its pages, with the number of episodes that can be resolved left open. In
  fixture mode it is degraded, as web sources have no fixture fetcher
  (`serve.go:155-158`). The license notices of a release are left out.
- An episode 0 in a title (`第0话`), which `parseEpisode` of `sourceruntime` returns
  and that of the crawler refuses, does not occur among the texts.
- `LinksAreOpen` and, but for its clause on credential headers, `UnsafeRulesStayOff`
  are about Kazumi rules, the ones with credentials, captchas and pages of their
  own. `ConversionsFit` is about Kazumi and Animeko rules: a Nagare rule is carried
  over field by field and may be refused. The other theorems about `RuleImport`
  are about all three ecosystems.

Not modelled: command lines, JSON schemas beyond the ranges in `SourceLint`, the
rule data, licences and packaging are data or pure I/O. The contents of the SQLite
index and its digest are data. The variants of a title that are searched for
(`search_titles.go`) work on characters. The proxy, the native backend's slots
and the loop of `postSelfCheck` are not modelled either; the plan below begins
with them.

## Plan

Done: candidate stream, release cache and search, release stream, sync, browser
resolver, source runner; the importers; extraction, matching, crawl, health and
build as `Publishing`; both contracts with their refinements proved; every safety
invariant of the runs proved but the two named above. Left, in this order:

1. `BrowserProxy`: tunnels against `Close` (`proxy.go:123`), and the two native
   slots with the start of the helper and its failures.
2. The composition of `SourceRunner` with `CandidateStream`: the runner's calls
   implement the `Runner` interface that the stream assumes.
3. Runs for the differences above that have none: `postSelfCheck` against
   `docs/plugin-api-v1.md`, `NothingLost`, the category a resolve reports at its
   deadline.
