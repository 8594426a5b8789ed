----------------------------- MODULE Publishing -----------------------------
(***************************************************************************)
(* From the rules to a release: the commands crawl-bt (BTCrawl), health    *)
(* and build, one after the other as the workflows run them, while the     *)
(* sources change between two of them.                                     *)
(*                                                                         *)
(*   health  Generate, a pool of workers that check the sources, and       *)
(*           WriteAtomic, of src/internal/healthreport/report.go, for the  *)
(*           JSON report and then the page                                 *)
(*   build   src/internal/repository/repository.go: check the sources,     *)
(*           the records and the report, assemble the release in a         *)
(*           temporary directory and put it in the place of the last one   *)
(*                                                                         *)
(* The process may die at any step, and any operation on a file may be     *)
(* refused, those of a rollback included, whose errors the code ignores.   *)
(***************************************************************************)
EXTENDS BTCrawl, SubjectMatch

CONSTANTS
  Plans,                   \* [repository, file, agenda]: what there is to do
  Subjects,                \* works a request may name
  Concurrency,             \* workers of a health run
  SelfCheckStatus(_, _),   \* what SelfCheck of a web source may find, in fixture or network mode
  FoundRows(_, _)          \* what the searches of a web source find for a subject

VARIABLES
  repository,  \* the documents under sources/, by ID
  waiting,     \* sources no worker has taken, busy: sources being checked
  busy,
  checked,     \* the statuses of the report being made, by ID
  reports,     \* health.json and health.html, [at, statuses], as far as they exist
  aside,       \* a report moved out of its place, if there is one
  refusals,    \* renames refused to the last run of health over one report
  assembled,   \* the release in the temporary directory
  release      \* the parts of the release directory, its files as far as they exist

healthVars  == <<waiting, busy, checked, reports, aside, refusals>>
releaseVars == <<assembled, release>>
publishVars == <<agenda, step, result, crawlVars, repository, healthVars, releaseVars>>

None  == [x \in {} |-> x]

\* A map with one entry put in or replaced.
With(map, key, value) == [k \in DOMAIN map \cup {key} |-> IF k = key THEN value ELSE map[k]]

Parts == {"index", "sources", "health", "btIndex"}

\* An earlier run of the workflow has written the file of records, if there is one.
ASSUME PlansAssumption ==
  \A plan \in Plans :
    plan.agenda \in Seq(ToSet(plan.agenda)) /\ (plan.file # Absent => WellWritten(plan.file))

\* The sources of a crawl, and the texts the rules take from the items of their responses.
GivesTexts(source, response) ==
  /\ response.items \in Seq(ToSet(response.items))
  /\ \A i \in DOMAIN response.items :
       \A extracted \in {Extracted(source, response, i)} :
         extracted.ok => \A name \in DOMAIN extracted.memo.row : IsText(extracted.memo.row[name])

ASSUME CrawlsAssumption ==
  \A plan \in Plans : \A j \in ToSet(plan.agenda) : j.command = "crawl-bt" =>
    /\ j.sources \in Seq(ToSet(j.sources))
    /\ \A k \in DOMAIN j.sources : GivesTexts(j.sources[k], j.responses[k])

\* Requests name works by their titles, and the searches of web sources find
\* rows with titles.
GivesTitles(documents) ==
  \A id \in DOMAIN documents : documents[id].kind = "web" /\ documents[id].enabled =>
    /\ IsSubject(SelfTestSubject(documents[id]))
    /\ \A subject \in Subjects \cup {SelfTestSubject(documents[id])} : AreRows(FoundRows(documents[id], subject))

ASSUME SearchesAssumption ==
  /\ \A subject \in Subjects : IsSubject(subject)
  /\ \A plan \in Plans :
       /\ GivesTitles(plan.repository)
       /\ \A j \in ToSet(plan.agenda) : j.command = "edit" => GivesTitles(j.repository)

Init ==
  /\ \E plan \in Plans :
       /\ agenda = plan.agenda /\ repository = plan.repository /\ file = plan.file
  /\ step = "idle" /\ result = "none"
  /\ batches = <<>> /\ next = 1 /\ kept = {} /\ staged = Absent
  /\ waiting = {} /\ busy = {} /\ checked = None
  /\ reports = None /\ aside = {} /\ refusals = 0
  /\ assembled = None /\ release = None

Crawl == CrawlNext /\ UNCHANGED <<repository, healthVars, releaseVars>>

\* A commit or an import changes the sources; their files are all of one run.
EditSources ==
  /\ step = "idle" /\ agenda # <<>> /\ job.command = "edit"
  /\ repository' = job.repository
  /\ End("ok")
  /\ UNCHANGED <<file, healthVars, releaseVars>>

RepositoryLoads == \A id \in DOMAIN repository : repository[id].valid
-----------------------------------------------------------------------------
(* health                                                                  *)

\* The command is over: the runners and the unfinished report are gone.
EndHealth(r) == End(r) /\ waiting' = {} /\ busy' = {} /\ checked' = None

StartHealth ==
  /\ step = "idle" /\ agenda # <<>> /\ job.command = "health"
  /\ \/ /\ RepositoryLoads
        /\ step' = "checking" /\ waiting' = DOMAIN repository
        /\ UNCHANGED <<agenda, result, crawlLocals, busy, checked>>
     \/ ~RepositoryLoads /\ EndHealth("failed")
  /\ refusals' = 0
  /\ UNCHANGED <<file, repository, reports, aside, releaseVars>>

TakeSource(id) ==
  /\ step = "checking" /\ id \in waiting
  /\ Cardinality(busy) < Concurrency
  /\ waiting' = waiting \ {id} /\ busy' = busy \cup {id}
  /\ UNCHANGED <<agenda, step, result, crawlVars, repository, checked, reports, aside, refusals, releaseVars>>

\* checkSource; a self-check that panics or answers nonsense is unavailable.
Status(source, mode) ==
  CASE ~source.enabled                          -> {"disabled"}
    [] source.enabled /\ source.kind = "web"    -> SelfCheckStatus(source, mode)
    [] OTHER                                    -> {"healthy", "degraded", "unavailable"}

CheckSource(id) ==
  /\ step = "checking" /\ id \in busy
  /\ busy' = busy \ {id}
  /\ \E status \in Status(repository[id], job.mode) : checked' = With(checked, id, status)
  /\ UNCHANGED <<agenda, step, result, crawlVars, repository, waiting, reports, aside, refusals, releaseVars>>

\* Mutant: a worker that finds the queue empty ends the run for all.
EndChecks_FirstIdle ==
  /\ step = "checking" /\ waiting = {}
  /\ step' = "json"
  /\ UNCHANGED <<agenda, result, crawlVars, repository, healthVars, releaseVars>>

EndChecks ==
  /\ step = "checking" /\ waiting = {} /\ busy = {}
  /\ step' = "json"
  /\ UNCHANGED <<agenda, result, crawlVars, repository, healthVars, releaseVars>>

\* The report is stamped with the time of its run: the commands still to come.
Report == [at |-> Len(agenda), statuses |-> checked]

Written(f) ==
  \/ f = "json" /\ step' = "html" /\ UNCHANGED <<agenda, result, crawlLocals, waiting, busy, checked>>
  \/ f = "html" /\ EndHealth("ok")

\* WriteAtomic: the temporary file takes the place of the report, at once or
\* when the old report is out of its way.
ReplaceReport(f) ==
  /\ step = f
  /\ reports' = With(reports, f, Report)
  /\ aside' = {} /\ refusals' = 0
  /\ Written(f)
  /\ UNCHANGED <<file, repository, releaseVars>>

\* The rename was refused: the old report is moved aside for another try.
MoveAside(f) ==
  /\ step = f /\ aside = {} /\ f \in DOMAIN reports
  /\ aside' = {reports[f]} /\ refusals' = 1
  /\ reports' = [g \in DOMAIN reports \ {f} |-> reports[g]]
  /\ UNCHANGED <<agenda, step, result, crawlVars, repository, waiting, busy, checked, releaseVars>>

\* Mutant: the old report is not put back.
ReportFails_Discards(f) ==
  /\ step = f
  /\ refusals' = IF aside = {} THEN 0 ELSE 2
  /\ aside' = {}
  /\ EndHealth("failed")
  /\ UNCHANGED <<file, repository, reports, releaseVars>>

\* The temporary file cannot be made or takes no place.  A report that was moved
\* aside is put back; if that is refused as well, it is removed all the same.
ReportFails(f) ==
  /\ step = f
  /\ \/ aside = {} /\ reports' = reports /\ refusals' = 0
     \/ \E old \in aside : reports' = With(reports, f, old) /\ refusals' = 2
     \/ aside # {} /\ reports' = reports /\ refusals' = 3
  /\ aside' = {}
  /\ EndHealth("failed")
  /\ UNCHANGED <<file, repository, releaseVars>>

Health ==
  \/ StartHealth \/ EndChecks
  \/ \E id \in DOMAIN repository : TakeSource(id) \/ CheckSource(id)
  \/ \E f \in {"json", "html"} :
       ReplaceReport(f) \/ MoveAside(f) \/ ReportFails(f)
-----------------------------------------------------------------------------
(* build                                                                   *)

\* The records of the release, as LoadJSONL normalizes them: build is called
\* with a file of them or without.
BTRecordsOf(j) == IF j.records THEN {NormalizeRecord(r) : r \in file} ELSE {}

ValidateBTRecordSources(records) ==
  \A r \in records : r.source \in DOMAIN repository /\ repository[r.source].kind = "bt"

\* Mutant: the report only has to be there.
ValidateHealthReport_Present == "json" \in DOMAIN reports

\* Its totals are those Generate counted; it covers exactly the sources.
ValidateHealthReport ==
  "json" \in DOMAIN reports /\ DOMAIN reports["json"].statuses = DOMAIN repository

Buildable ==
  /\ job.records => file # Absent /\ LoadJSONL(file)
  /\ RepositoryLoads
  /\ ValidateBTRecordSources(BTRecordsOf(job))
  /\ ValidateHealthReport
  /\ Indexable(BTRecordsOf(job))

\* A digest stands for what it was taken of.
Digest(content) == [of |-> content]

IndexEntry(source) == [kind |-> source.kind, digest |-> Digest(source)]

\* The index names the sources, and the report and the BT index of its release.
Index(report, records) ==
  [sources |-> [id \in DOMAIN repository |-> IndexEntry(repository[id])],
   health  |-> Digest(report), btIndex |-> Digest(records)]

StartBuild ==
  /\ step = "idle" /\ agenda # <<>> /\ job.command = "build"
  /\ Buildable
  /\ assembled' = [index   |-> Index(reports["json"], BTRecordsOf(job)), sources |-> repository,
                   health  |-> reports["json"], btIndex |-> BTRecordsOf(job)]
  /\ step' = "replacing"
  /\ UNCHANGED <<agenda, result, crawlVars, repository, healthVars, release>>

\* An input is refused, or a part cannot be written.
BuildFails ==
  /\ \/ step = "idle" /\ agenda # <<>> /\ job.command = "build"
     \/ step = "replacing"
  /\ End("failed")
  /\ assembled' = None
  /\ UNCHANGED <<file, repository, healthVars, release>>

\* RemoveAll of the release directory, one file at a time and in any order; the
\* directory sources goes when it is empty.
SourceFiles == IF "sources" \in DOMAIN release THEN DOMAIN release.sources ELSE {}

RemovePart(part) ==
  /\ step = "replacing" /\ part \in DOMAIN release
  /\ part = "sources" => SourceFiles = {}
  /\ release' = [p \in DOMAIN release \ {part} |-> release[p]]
  /\ UNCHANGED <<agenda, step, result, crawlVars, repository, healthVars, assembled>>

RemoveSource(id) ==
  /\ step = "replacing" /\ id \in SourceFiles
  /\ release' = [release EXCEPT !.sources = [i \in SourceFiles \ {id} |-> release.sources[i]]]
  /\ UNCHANGED <<agenda, step, result, crawlVars, repository, healthVars, assembled>>

Publish ==
  /\ step = "replacing" /\ release = None
  /\ release' = assembled
  /\ End("ok")
  /\ assembled' = None
  /\ UNCHANGED <<file, repository, healthVars>>

Build ==
  \/ StartBuild \/ BuildFails \/ Publish
  \/ \E part \in Parts : RemovePart(part)
  \/ \E id \in SourceFiles : RemoveSource(id)
-----------------------------------------------------------------------------

\* The process dies; only files outlive it, and nobody looks for the hidden ones.
Crash ==
  /\ step # "idle"
  /\ EndHealth("crashed")
  /\ assembled' = None
  /\ aside' = {} /\ refusals' = 0
  /\ UNCHANGED <<file, repository, reports, release>>

Next == Crawl \/ EditSources \/ Health \/ Build \/ Crash

Spec == Init /\ [][Next]_publishVars
-----------------------------------------------------------------------------
(***************************************************************************)
(* Properties                                                              *)
(***************************************************************************)

(***************************************************************************)
(* Whatever changed between the commands and whichever of them failed or   *)
(* died, the files that are in the release directory are of one release.   *)
(* A source's file is the one its entry of the index has the digest of,    *)
(* and has a status in the report; the index names the sources that the    *)
(* report covers, and has the digests of the report and of the records;    *)
(* the records are of BT sources of the release, one at most for each      *)
(* infohash of a source.  A build that ends well leaves every file that    *)
(* its index names.                                                        *)
(***************************************************************************)
OnePiece(parts) ==
  LET Has(part) == part \in DOMAIN parts
  IN /\ Has("index") /\ Has("sources") => \A id \in DOMAIN parts.sources :
          /\ id \in DOMAIN parts.index.sources
          /\ parts.index.sources[id] = IndexEntry(parts.sources[id])
     /\ Has("health") /\ Has("sources") => DOMAIN parts.sources \subseteq DOMAIN parts.health.statuses
     /\ Has("index") /\ Has("health") =>
          /\ DOMAIN parts.index.sources = DOMAIN parts.health.statuses
          /\ parts.index.health = Digest(parts.health)
     /\ Has("index") /\ Has("btIndex") => parts.index.btIndex = Digest(parts.btIndex)
     /\ Has("btIndex") => \A r \in parts.btIndex :
          /\ Has("index") =>
               r.source \in DOMAIN parts.index.sources /\ parts.index.sources[r.source].kind = "bt"
          /\ Has("sources") /\ r.source \in DOMAIN parts.sources => parts.sources[r.source].kind = "bt"
          /\ r.infoHash.is = "hash"
          /\ \A s \in parts.btIndex : s.source = r.source /\ s.infoHash = r.infoHash => s = r

Whole(parts) == DOMAIN parts = Parts /\ DOMAIN parts.sources = DOMAIN parts.index.sources

ReleaseOfOnePiece ==
  /\ [](OnePiece(release))
  /\ [][step = "replacing" /\ step' = "idle" /\ result' = "ok" => Whole(release')]_publishVars

(***************************************************************************)
(* Of what the searches of a web source find, a work of another season     *)
(* than the one asked for is never chosen, unless the request names it by  *)
(* this very title or by its key; and where a row has a wanted title and   *)
(* its season, an exact match is.                                          *)
(***************************************************************************)
ChosenSubjectsFit ==
  \A id \in busy : repository[id].kind = "web" /\ repository[id].enabled =>
    \A subject \in Subjects \cup {SelfTestSubject(repository[id])} :
      ChoiceIsRight(FoundRows(repository[id], subject), subject)

(***************************************************************************)
(* The report that is about to be written covers each source of the        *)
(* repository with a status it can have, whichever workers checked them;   *)
(* and where both reports are in place the page is of the run of the JSON  *)
(* report or of an earlier one, never of a later.                          *)
(***************************************************************************)
ReportsAgree ==
  /\ step \in {"json", "html"} =>
       /\ DOMAIN checked = DOMAIN repository
       /\ \A id \in DOMAIN checked : checked[id] \in Status(repository[id], job.mode)
  /\ {"json", "html"} \subseteq DOMAIN reports =>
       /\ reports["html"].at >= reports["json"].at
       /\ reports["html"].at = reports["json"].at => reports["html"] = reports["json"]

(***************************************************************************)
(* A report leaves its place only by being moved aside, in the step of the *)
(* run on this report.  A run that goes on has then put the new one in its *)
(* place, and one that fails the old one, unless three renames of the      *)
(* report were refused to it, the last of them the one that puts it back;  *)
(* otherwise only a run that dies leaves none.                             *)
(***************************************************************************)
FailedRunsKeepReports ==
  [][\A f \in {"json", "html"} :
       LET Ends(r)      == step' = "idle" /\ result' = r
           Has(version) == f \in DOMAIN reports' /\ reports'[f] = version
       IN /\ f \in DOMAIN reports /\ f \notin DOMAIN reports' =>
               step = f /\ step' = f /\ aside' = {reports[f]}
          /\ step = f /\ aside # {} /\ step' # f =>
               \/ Has(Report) /\ ~Ends("failed")
               \/ Ends("failed") /\ ((\E old \in aside : Has(old)) \/ refusals' = 3)
               \/ Ends("crashed")]_publishVars
=============================================================================
