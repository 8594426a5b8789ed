----------------------------- MODULE RuleImport -----------------------------
(***************************************************************************)
(* One run of the command "import": importSources of                       *)
(* src/cmd/nagare-source/main.go with the importers and overlays of        *)
(* src/internal/importer.  Documents of one ecosystem are read in order,   *)
(* the rules of each converted in order, then overlays applied, every      *)
(* source validated, and only then the sources written.                    *)
(*                                                                         *)
(* A name is [words, lossy, short]: its parts between dashes, blanks and   *)
(* dots, whether it has characters beyond ASCII or is too long, and        *)
(* whether one character is left of it; stableID adds a digest of the rule *)
(* to the last two.  An id is [words, digest]; the digest of an object is  *)
(* the object itself.                                                      *)
(***************************************************************************)
EXTENDS KazumiRule, AnimekoRule, NagareRule, TLC

CONSTANTS Inputs,     \* what the command is called on, see Init
          Patches,    \* the overlays a maintainer may have written
          NoRule,     \* no digest, and an entry that is not an object
          NoOverlay,  \* a source without an overlay file
          OldDigest   \* the digest of an earlier version of an object

Documents == UNION {{i.documents[n] : n \in DOMAIN i.documents} : i \in Inputs}

ASSUME InputsAssumption ==
  /\ \A i \in Inputs : i.documents \in Seq(Documents)
  /\ \A i \in Inputs : i.ecosystem \in {"kazumi", "animeko", "nagare-v1"}
  /\ \A d \in Documents : d.entries \in Seq({d.entries[e] : e \in DOMAIN d.entries})

\* The decoder of Animeko's documents reads every number as an integer.
ASSUME NumbersAssumption ==
  \A i \in Inputs : i.ecosystem = "animeko" =>
    \A n \in DOMAIN i.documents : \A e \in DOMAIN i.documents[n].entries :
      LET rule == i.documents[n].entries[e]
      IN rule # NoRule => {rule.tier, rule.titleCount, rule.interval, rule.cacheTTL} \cup rule.channelTiers \subseteq Int

VARIABLES
  input,        \* [ecosystem, options, directory, documents]
  documents,    \* the documents to be read, in the order of their paths
  place,        \* <<document, entry>> the loops have reached
  seen,         \* ids given in the current document
  found,        \* diagnostics of the current document
  sources,      \* sources converted so far, each with the place it is from
  patched,      \* sources the overlays have been through
  diagnostics,  \* diagnostics of the run
  files,        \* sources whose file is in the output directory
  phase

importVars == <<input, documents, place, seen, found, sources, patched, diagnostics, files, phase>>

Error(id)      == [severity |-> "error", source |-> id, category |-> "error"]
Warning(id, w) == [severity |-> "warning", source |-> id, category |-> w]
HasErrors(ds)  == \E d \in ds : d.severity = "error"

StableID(name, rule) ==
  [words |-> name.words,
   digest |-> IF name.lossy \/ name.short \/ name.words = <<>> THEN rule ELSE NoRule]

\* A name already used in this document is retried once with its position, which
\* makes it longer than one character unless there was none.
Renamed(name, n) ==
  [name EXCEPT !.words = Append(@, ToString(n)), !.short = (name.words = <<>> /\ n < 10)]

IDs(rule, n) == {StableID(rule.name, rule), StableID(Renamed(rule.name, n), rule)}

RuleID(rule, n) ==
  IF StableID(rule.name, rule) \in seen
  THEN StableID(Renamed(rule.name, n), rule)
  ELSE StableID(rule.name, rule)

RuleOK(rule) ==
  /\ rule.name.words # <<>>
  /\ CASE input.ecosystem = "kazumi"    -> KazumiOK(rule)
       [] input.ecosystem = "animeko"   -> AnimekoOK(rule)
       [] input.ecosystem = "nagare-v1" -> NagareOK(rule)

\* What a rule can be converted to; only Nagare's schema 1 leaves a choice.
RuleSources(id, rule) ==
  CASE input.ecosystem = "kazumi"    -> {KazumiSource(id, rule)}
    [] input.ecosystem = "animeko"   -> {AnimekoSource(id, rule)}
    [] input.ecosystem = "nagare-v1" -> {NagareSource(id, rule, kept) : kept \in Kept(rule)}

RuleWarnings(rule) ==
  CASE input.ecosystem = "kazumi"    -> KazumiWarnings(rule)
    [] input.ecosystem = "animeko"   -> AnimekoWarnings(rule)
    [] input.ecosystem = "nagare-v1" -> NagareWarnings(rule)

Init ==
  /\ input \in Inputs
  /\ documents = <<>> /\ place = <<1, 1>>
  /\ seen = {} /\ found = {} /\ sources = {} /\ patched = {} /\ diagnostics = {} /\ files = {}
  /\ phase = "listing"

(***************************************************************************)
(* readImportInputs: the files of a directory in the order of their paths, *)
(* Kazumi's catalogue index.json left out.                                 *)
(***************************************************************************)
IsRules(document) ==
  ~(input.directory /\ input.ecosystem = "kazumi" /\ document.index)

ListFile ==
  /\ phase = "listing" /\ place[1] \in DOMAIN input.documents
  /\ documents' = IF IsRules(input.documents[place[1]])
                  THEN Append(documents, input.documents[place[1]]) ELSE documents
  /\ place' = <<place[1] + 1, 1>>
  /\ UNCHANGED <<input, seen, found, sources, patched, diagnostics, files, phase>>

EndListing ==
  /\ phase = "listing" /\ place[1] \notin DOMAIN input.documents
  /\ phase' = IF documents = <<>> THEN "failed" ELSE "reading"
  /\ place' = <<1, 1>>
  /\ UNCHANGED <<input, documents, seen, found, sources, patched, diagnostics, files>>

document == documents[place[1]]

\* A document that does not decode, is empty, or is read with bad options.
RefuseDocument ==
  /\ phase = "reading" /\ place[1] \in DOMAIN documents
  /\ place[2] = 1 /\ found = {}
  /\ \/ ~input.options \/ ~document.readable
     \/ document.entries = <<>>
  /\ diagnostics' = diagnostics \cup {Error(NoRule)}
  /\ place' = <<place[1] + 1, 1>>
  /\ UNCHANGED <<input, documents, seen, found, sources, patched, files, phase>>

(***************************************************************************)
(* The body of the importers' loops.  A source is kept only when no error  *)
(* of this document carries its id, be it of an earlier rule.              *)
(***************************************************************************)
ImportEntry ==
  /\ phase = "reading" /\ place[1] \in DOMAIN documents
  /\ input.options /\ document.readable
  /\ place[2] \in 1..Len(document.entries)
  /\ LET rule == document.entries[place[2]] IN
     \/ /\ rule = NoRule
        /\ found' = found \cup {Error(NoRule)}
        /\ UNCHANGED <<seen, sources>>
     \/ /\ rule # NoRule
        /\ LET id == RuleID(rule, place[2]) IN
           /\ seen' = IF rule.name.words = <<>> /\ input.ecosystem # "kazumi" THEN seen ELSE seen \cup {id}
           /\ found' = found \cup (IF RuleOK(rule) THEN {Warning(id, w) : w \in RuleWarnings(rule)}
                                                  ELSE {Error(id)})
           /\ IF RuleOK(rule) /\ Error(id) \notin found
              THEN \E s \in RuleSources(id, rule) :
                     sources' = sources \cup {[source |-> s, from |-> place, overlay |-> NoOverlay]}
              ELSE sources' = sources
  /\ place' = <<place[1], place[2] + 1>>
  /\ UNCHANGED <<input, documents, patched, diagnostics, files, phase>>

EndDocument ==
  /\ phase = "reading" /\ place[1] \in DOMAIN documents
  /\ input.options /\ document.readable /\ document.entries # <<>>
  /\ place[2] > Len(document.entries)
  /\ diagnostics' = diagnostics \cup found
  /\ place' = <<place[1] + 1, 1>>
  /\ seen' = {} /\ found' = {}
  /\ UNCHANGED <<input, documents, sources, patched, files, phase>>

\* importSources: an id that two rules ended with is an error of the run.
Repeated(ss) == {s.source.id : s \in {x \in ss : \E y \in ss : x # y /\ x.source.id = y.source.id}}

CheckDuplicates ==
  /\ phase = "reading" /\ place[1] \notin DOMAIN documents
  /\ diagnostics' = diagnostics \cup {Error(id) : id \in Repeated(sources)}
  /\ phase' = "overlays"
  /\ UNCHANGED <<input, documents, place, seen, found, sources, patched, files>>

(***************************************************************************)
(* ApplyOverlays.  An overlay is [valid, source, digest, patch]: whether   *)
(* it decodes with the fields, schema and reason it needs, whether its     *)
(* source_id is the id, the digest it binds to, and the fields it patches. *)
(***************************************************************************)
Immutable == {"schema", "id", "kind", "origin"}

Overlays(s) ==
  [valid : BOOLEAN, source : BOOLEAN, digest : {NoRule, OldDigest, s.origin}, patch : Patches]

\* Mutant: the fields of the patch are not looked at.
ValidOverlay_AnyField(o, s) ==
  o.valid /\ o.source /\ DOMAIN o.patch # {} /\ o.digest \in {NoRule, s.origin}

ValidOverlay(o, s) ==
  /\ o.valid /\ o.source
  /\ DOMAIN o.patch # {}
  /\ DOMAIN o.patch \cap Immutable = {}
  /\ o.digest \in {NoRule, s.origin}

\* deepMerge, for the fields an overlay of the model patches.
Patch(s, patch) ==
  [f \in DOMAIN s |-> IF f \in DOMAIN patch THEN patch[f] ELSE s[f]]

ApplyOverlay ==
  /\ phase = "overlays"
  /\ \E x \in sources : \E o \in {NoOverlay} \cup Overlays(x.source) :
       /\ sources' = sources \ {x}
       /\ \/ /\ o = NoOverlay
             /\ patched' = patched \cup {x}
             /\ UNCHANGED diagnostics
          \/ /\ o # NoOverlay
             /\ ValidOverlay(o, x.source)
             /\ patched' = patched \cup {[x EXCEPT !.source = Patch(@, o.patch), !.overlay = o]}
             /\ diagnostics' = diagnostics \cup {Warning(x.source.id, "overlay_applied")}
          \/ /\ o # NoOverlay
             /\ ~ValidOverlay(o, x.source)
             /\ diagnostics' = diagnostics \cup {Error(x.source.id)}
             /\ UNCHANGED patched
  /\ UNCHANGED <<input, documents, place, seen, found, files, phase>>

\* Mutant: only what the validation itself reports is looked at.
Validate_OwnErrors ==
  /\ phase = "overlays" /\ sources = {}
  /\ diagnostics' = diagnostics \cup
       {Error(x.source.id) : x \in {y \in patched : ~ValidateSource(y.source)}}
  /\ phase' = IF \E y \in patched : ~ValidateSource(y.source) THEN "refused" ELSE "writing"
  /\ UNCHANGED <<input, documents, place, seen, found, sources, patched, files>>

\* Every source is validated, and one error keeps all of them unwritten.
Validate ==
  /\ phase = "overlays" /\ sources = {}
  /\ diagnostics' = diagnostics \cup
       {Error(x.source.id) : x \in {y \in patched : ~ValidateSource(y.source)}}
  /\ phase' = IF HasErrors(diagnostics') THEN "refused" ELSE "writing"
  /\ UNCHANGED <<input, documents, place, seen, found, sources, patched, files>>

(***************************************************************************)
(* WriteSources, one file at a time, each renamed into its place.  The     *)
(* order of the ids is left open.  A write may fail; what was renamed      *)
(* before stays.                                                           *)
(***************************************************************************)
WriteSource ==
  /\ phase = "writing"
  /\ \E x \in patched \ files :
       /\ \A y \in files : y.source.id # x.source.id
       /\ files' = files \cup {x}
  /\ UNCHANGED <<input, documents, place, seen, found, sources, patched, diagnostics, phase>>

WriteFails ==
  /\ phase = "writing" /\ files # patched
  /\ phase' = "failed"
  /\ UNCHANGED <<input, documents, place, seen, found, sources, patched, diagnostics, files>>

Finish ==
  /\ phase = "writing" /\ files = patched
  /\ phase' = "written"
  /\ UNCHANGED <<input, documents, place, seen, found, sources, patched, diagnostics, files>>

Next ==
  \/ ListFile \/ EndListing \/ RefuseDocument \/ ImportEntry \/ EndDocument \/ CheckDuplicates
  \/ ApplyOverlay \/ Validate \/ WriteSource \/ WriteFails \/ Finish

Spec == Init /\ [][Next]_importVars
-----------------------------------------------------------------------------
(***************************************************************************)
(* Properties                                                              *)
(***************************************************************************)
TypeOK ==
  /\ input \in Inputs /\ documents \in Seq(Documents)
  /\ phase \in {"listing", "reading", "overlays", "writing", "refused", "failed", "written"}
  /\ place \in (Nat \ {0}) \X (Nat \ {0})
  /\ \A x \in sources \cup patched : x.from \in (Nat \ {0}) \X (Nat \ {0})
  /\ files \subseteq patched

(***************************************************************************)
(* An import writes everything or nothing (docs/importers.md): a file      *)
(* exists only when no diagnostic is an error, no two files have one id,   *)
(* and a run that returns without an error has written every rule of every *)
(* document.  Only a failing disk leaves a part of them.                   *)
(***************************************************************************)
AllOrNothing ==
  /\ files # {} => phase \in {"writing", "failed", "written"} /\ ~HasErrors(diagnostics)
  /\ \A x, y \in files : x.source.id = y.source.id => x = y
  /\ phase = "written" =>
       /\ \A n \in DOMAIN input.documents : IsRules(input.documents[n]) =>
            \E d \in DOMAIN documents : documents[d] = input.documents[n]
       /\ \A d \in DOMAIN documents : \A e \in DOMAIN documents[d].entries :
            \E x \in files : x.from = <<d, e>> /\ x.source.origin = documents[d].entries[e]

Patched(x, f) == x.overlay # NoOverlay /\ f \in DOMAIN x.overlay.patch

(***************************************************************************)
(* A Kazumi rule that is deprecated, needs its captcha helper or sent a    *)
(* fixed credential is written disabled, unless a reviewed overlay decides *)
(* otherwise, and for each of these reasons a diagnostic of its own says   *)
(* why.  None of its credentials is in the file, and an Authorization or   *)
(* Cookie header is in no file at all.                                     *)
(***************************************************************************)
SendsCredentials(r) ==
  \/ r.searchMode = "api" /\ \E h \in r.searchApi.request.headers : h.name \in KazumiSensitiveHeaders
  \/ r.chapterMode = "api" /\ \E h \in r.chapterApi.request.headers : h.name \in KazumiSensitiveHeaders

UnsafeStaysOff ==
  /\ \A x \in files : x.source.headers \cap {"authorization", "cookie"} = {}
  /\ input.ecosystem = "kazumi" => \A x \in files :
       LET r == x.source.origin IN
       /\ ~Patched(x, "headers") => x.source.headers \cap KazumiSensitiveHeaders = {}
       /\ x.source.enabled /\ (r.deprecated \/ r.captcha \/ SendsCredentials(r)) => Patched(x, "enabled")
       /\ r.deprecated => Warning(x.source.id, "deprecated_source") \in diagnostics
       /\ r.captcha => Warning(x.source.id, "interactive_required") \in diagnostics
       /\ SendsCredentials(r) => Warning(x.source.id, "sensitive_header_dropped") \in diagnostics

(***************************************************************************)
(* Whatever overlays a run meets, what a file is stays what the conversion *)
(* made of the rule at its place: its origin is that rule, its kind that   *)
(* of the rule, and its id the one of the rule's name, or of the name with *)
(* the rule's place when an earlier rule has it.  An overlay bound to a    *)
(* digest was bound to that rule.                                          *)
(***************************************************************************)
OverlaysBind ==
  \A x \in files :
    LET rule == documents[x.from[1]].entries[x.from[2]] IN
    /\ x.source.origin = rule
    /\ x.source.kind = (IF input.ecosystem = "kazumi" \/ (input.ecosystem = "animeko" /\ rule.factory # "rss")
                        THEN "web" ELSE "bt")
    /\ x.source.id \in IDs(rule, x.from[2])
    /\ x.overlay # NoOverlay => x.overlay.digest \in {NoRule, rule}

(***************************************************************************)
(* The links a Kazumi rule leads to can be followed: the site the relative *)
(* ones are completed with is open to the episodes request and to the      *)
(* resolver, and so is the page of its episodes, unless a reviewed overlay *)
(* decides otherwise.                                                      *)
(***************************************************************************)
LinksStayInside ==
  input.ecosystem = "kazumi" =>
    \A x \in files :
      (\A f \in {"links", "follows", "opens"} : ~Patched(x, f)) =>
        LET c == x.source.origin.chapterApi IN
        /\ x.source.links \in x.source.opens
        /\ \A allowed \in x.source.follows : x.source.links \in allowed
        /\ x.source.origin.chapterMode = "api" /\ c.page.present => c.page.url.host \in x.source.opens

(***************************************************************************)
(* What a converter normalizes fits: every number of an Animeko or Kazumi  *)
(* source is in the schema's range and every pattern is RE2, so that such  *)
(* a rule never stops the run.  Where an Animeko source does not have the  *)
(* rule's tier, its cache lifetime or one of its patterns, a diagnostic    *)
(* says so.  (Of the numbers in "lost" none does: see "Differences" in     *)
(* README.md.)                                                             *)
(***************************************************************************)
Altered(s) ==
  LET e == s.origin IN
  {w \in {"tier_clamped", "limit_clamped", "regex_rewritten"} :
     \/ w = "tier_clamped" /\ s.numbers.tier # e.tier
     \/ w = "limit_clamped" /\ s.numbers.ttl \notin {-1, e.cacheTTL}
     \/ w = "regex_rewritten" /\ s.kind = "web" /\ ~(GivenPatterns(e) \cap {"kotlin"} \subseteq s.patterns)}

ConversionFits ==
  /\ input.ecosystem # "nagare-v1" =>
       \A x \in sources :
         x.source.sites \subseteq {"http"} /\ (\A r \in x.source.requests : r.scheme = "http")
           => InSchema(x.source) /\ LintRegexes(x.source)
  /\ input.ecosystem = "animeko" =>
       \A x \in sources : \A w \in Altered(x.source) : Warning(x.source.id, w) \in diagnostics \cup found

(***************************************************************************)
(* Nothing of a rule that the importer knows is lost without a diagnostic. *)
(* It does not hold, and no run checks it: see "Differences" in README.md. *)
(***************************************************************************)
NothingLost == \A x \in files : x.source.lost = {}
=============================================================================
