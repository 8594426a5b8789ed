---------------------------- MODULE RulePipeline ----------------------------
(***************************************************************************)
(* The commands of Publishing at work with the rules themselves: a crawl   *)
(* reads its rows with FieldExtraction, a health run the pages of the web  *)
(* sources with WebExtraction.  Here Extract is ExtractFieldMap,           *)
(* SelfCheckStatus is SelfCheck and FoundRows is SearchRows.               *)
(***************************************************************************)
EXTENDS Publishing, WebExtraction

\* What a definition reads of the same row.
RECURSIVE Uses(_)
Uses(definition) ==
  CASE definition.type = "any"   -> UNION {Uses(d) : d \in ToSet(definition.of)}
    [] definition.type = "field" -> {definition.at}
    [] OTHER                     -> {}

UsesWithNames(definition) ==
  Uses(definition) \cup {t.name : t \in {u \in ToSet(definition.transforms) : u.type = "magnet"}}

Acyclic(definitions) ==
  \A names \in SUBSET DOMAIN definitions :
    names # {} => \E n \in names : UsesWithNames(definitions[n]) \cap names = {}

SameMeaning(extracted, other, context) ==
  /\ extracted.ok => MeansItsDefinitions(extracted.memo.row, context)
  /\ extracted.ok = other.ok
  /\ extracted.ok => extracted.memo.row = other.memo.row

(***************************************************************************)
(* The fields of a row are what their definitions say, and resolving them  *)
(* in the opposite order gives the same row or rejects the same item,      *)
(* although a failed field is left half resolved and alternatives swallow  *)
(* errors.  Definitions that refer to each other in a circle are excepted. *)
(***************************************************************************)
RowsMeanTheirDefinitions ==
  /\ step = "reading" /\ next <= Len(job.responses[At].items)
  /\ Acyclic(job.sources[At].definitions)
  => LET context == Context(job.sources[At], job.responses[At], job.responses[At].items[next])
     IN SameMeaning(Extract(context, Fields), Extract(context, Reverse(Fields)), context)

(***************************************************************************)
(* The pages a web source's self-check reads: the episodes found are those *)
(* of each line alone.                                                     *)
(***************************************************************************)
LinesKeepApart ==
  \A id \in busy : repository[id].kind = "web" /\ repository[id].enabled =>
    LinesApart(repository[id].episodes, repository[id].episodesPage, <<>>)
=============================================================================
