------------------------------ MODULE BTCrawl ------------------------------
(***************************************************************************)
(* The command crawl-bt: crawlBT of src/cmd/nagare-source/main.go with     *)
(* Crawl and WriteJSONL of src/internal/btcrawler/crawler.go.  The sources *)
(* named are searched in order, the records of all of them written to one  *)
(* file.  The process may die at any step.                                 *)
(*                                                                         *)
(* A source is a record with the fields id, kind, enabled, valid (it       *)
(* passes ValidateSource), request (one can be built that is within its    *)
(* allowed hosts), definitions, matching [episode, subject] and selftest   *)
(* [query, episode, minimum, torrent].  A response is [arrives, parses,    *)
(* items, document], its items and document as in a context of             *)
(* FieldExtraction, whose ExtractFieldMap is the constant Extract.         *)
(***************************************************************************)
EXTENDS BTRecords, SequencesExt

CONSTANTS
  Absent,         \* no file
  Extract(_, _)   \* the fields of a row, from its context and their names

VARIABLES
  agenda,    \* the commands still to be run, the current one first
  step,      \* where the current command is
  result,    \* how the last command ended
  batches,   \* the records of the sources crawled so far
  next,      \* the item of the current source to be read next
  kept,      \* the records of its items so far
  staged,    \* the temporary file
  file       \* the file of records, a set

crawlLocals == <<batches, next, kept, staged>>
crawlVars   == <<crawlLocals, file>>

job == Head(agenda)
At  == Len(batches) + 1

Fields == <<"download_url", "episode", "info_hash", "magnet", "title", "torrent_url">>

\* The current command is over and its locals are gone.
End(r) ==
  /\ step' = "idle" /\ result' = r /\ agenda' = Tail(agenda)
  /\ batches' = <<>> /\ next' = 1 /\ kept' = {} /\ staged' = Absent

Context(source, response, item) ==
  [kind |-> "bt", definitions |-> source.definitions, item |-> item, document |-> response.document,
   variables |-> <<>>, position |-> 0]

Extracted(source, response, i) ==
  Extract(Context(source, response, response.items[i]), Fields)

\* Mutant: of the rows with one key the first stays.
Collapse_First(records, r) ==
  IF \E q \in records : Key(q) = Key(r) THEN records ELSE records \cup {r}

\* byKey: of the rows with one key the one with the smallest JSON stays.
Collapse(records, r) ==
  {q \in records : Key(q) # Key(r) \/ Precedes(q, r)}
  \cup (IF \E q \in records : Key(q) = Key(r) /\ Precedes(q, r) THEN {} ELSE {r})

AddRecord(records, source, query, r) ==
  IF MatchesQuery(source.matching, r, query) THEN Collapse(records, r) ELSE records

\* A row that is no record is passed over.
AddRow(records, source, query, record) ==
  IF Acceptable(record) THEN AddRecord(records, source, query, NormalizeRecord(record)) ELSE records

AddExtracted(records, source, query, extracted) ==
  IF extracted.ok THEN AddRow(records, source, query, RecordFromRow(source.id, extracted.memo.row)) ELSE records

\* The self-test of a source asks for its own title and episode.
Query(source) ==
  IF job.selftest THEN [titled |-> TRUE, episode |-> source.selftest.episode] ELSE job.query

StartCrawl ==
  /\ step = "idle" /\ agenda # <<>> /\ job.command = "crawl-bt"
  /\ \/ /\ job.sources = <<>> \/ (job.offline /\ Len(job.sources) # 1)
        /\ End("failed") /\ UNCHANGED file
     \/ /\ job.sources # <<>> /\ (job.offline => Len(job.sources) = 1)
        /\ step' = "crawling"
        /\ UNCHANGED <<agenda, result, crawlVars>>

\* The guards of crawlBT and Crawl for one source and its response.
Crawlable(source, response) ==
  /\ source.valid /\ source.kind = "bt"
  /\ job.selftest => source.selftest.query
  /\ source.enabled \/ job.offline
  /\ source.request /\ response.arrives /\ response.parses

CheckSelfTest(source, records) ==
  job.selftest => /\ Cardinality(records) >= source.selftest.minimum
                  /\ source.selftest.torrent

StartSource ==
  /\ step = "crawling" /\ At <= Len(job.sources)
  /\ Crawlable(job.sources[At], job.responses[At])
  /\ step' = "reading"
  /\ UNCHANGED <<agenda, result, crawlVars>>

\* The loop of Crawl over the rows.
ReadItem ==
  /\ step = "reading" /\ next <= Len(job.responses[At].items)
  /\ kept' = AddExtracted(kept, job.sources[At], Query(job.sources[At]),
                          Extracted(job.sources[At], job.responses[At], next))
  /\ next' = next + 1
  /\ UNCHANGED <<agenda, step, result, batches, staged, file>>

EndSource ==
  /\ step = "reading" /\ next > Len(job.responses[At].items)
  /\ CheckSelfTest(job.sources[At], kept)
  /\ batches' = Append(batches, kept) /\ next' = 1 /\ kept' = {}
  /\ step' = "crawling"
  /\ UNCHANGED <<agenda, result, staged, file>>

CrawlFails ==
  /\ \/ step = "crawling" /\ At <= Len(job.sources) /\ ~Crawlable(job.sources[At], job.responses[At])
     \/ step = "reading" /\ next > Len(job.responses[At].items) /\ ~CheckSelfTest(job.sources[At], kept)
  /\ End("failed")
  /\ UNCHANGED file

\* Two sources of one ID may not both have found a release.
RepeatedKey ==
  \E i, j \in DOMAIN batches : i < j /\ \E r \in batches[i], s \in batches[j] : Key(r) = Key(s)

\* WriteJSONL, up to the temporary file.
WriteTemporary ==
  /\ step = "crawling" /\ At > Len(job.sources)
  /\ ~RepeatedKey
  /\ staged' = UNION ToSet(batches)
  /\ step' = "renaming"
  /\ UNCHANGED <<agenda, result, batches, next, kept, file>>

WriteFails ==
  /\ \/ step = "crawling" /\ At > Len(job.sources)
     \/ step = "renaming"
  /\ End("failed")
  /\ UNCHANGED file

RenameRecords ==
  /\ step = "renaming"
  /\ file' = staged
  /\ End("ok")

CrawlNext ==
  \/ StartCrawl \/ StartSource \/ ReadItem \/ EndSource \/ CrawlFails
  \/ WriteTemporary \/ WriteFails \/ RenameRecords
-----------------------------------------------------------------------------
(***************************************************************************)
(* Properties                                                              *)
(***************************************************************************)

Least(records) == {r \in records : \A s \in records : Key(s) = Key(r) => s = r \/ Precedes(r, s)}

\* What the item i gives when it is the whole response.
Alone(source, response, query, i) ==
  AddExtracted({}, source, query,
               Extracted(source, [items |-> <<response.items[i]>>, document |-> response.document], 1))

(***************************************************************************)
(* A bad item costs nothing but itself, and the order of the items does    *)
(* not matter: a source's records are, key by key, the least of those its  *)
(* items give when each is the whole response.                             *)
(***************************************************************************)
ItemsAreIndependent ==
  \A b \in DOMAIN batches :
    batches[b] = Least(UNION {Alone(job.sources[b], job.responses[b], Query(job.sources[b]), i)
                                : i \in DOMAIN job.responses[b].items})

\* A file of records whose releases all have an infohash can be loaded, and
\* its magnets name the infohash beside them.
WrittenFilesLoad ==
  file # Absent /\ (\A r \in file : r.infoHash # Blank) =>
    /\ LoadJSONL(file) /\ Indexable(file)
    /\ \A r \in file : NormalizeRecord(r) = r /\ (r.magnet # Blank => r.magnet.of = r.infoHash.of)
=============================================================================
