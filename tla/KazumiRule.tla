----------------------------- MODULE KazumiRule -----------------------------
(***************************************************************************)
(* The conversion of one Kazumi rule: importKazumiRule and what it calls,  *)
(* src/internal/importer/kazumi.go.                                        *)
(*                                                                         *)
(* Texts of a rule are abstracted as follows.  A URL is                    *)
(* [host, scheme, vars, query]: vars and query are the @ variables before  *)
(* and in its query string.  A selector or JSONPath is "none" (empty),     *)
(* "good" or "bad" (a JSONPath outside the supported subset); an XPath     *)
(* list may also be "anchors".  A body, a form or a query is               *)
(* [vars, scalar, size]: the @ variables in its values, whether all of     *)
(* them are scalars, and how many there are.                               *)
(***************************************************************************)
EXTENDS SourceLint

Accepts(found, given) == found \subseteq DOMAIN given

\* Kazumi's template variables, with the names the source spec gives them.
SearchMapping  == [keyword |-> "title"]
ChapterMapping == [source |-> "subject_key"]
PageMapping ==
  [source |-> "subject_key", roadIndex |-> "line_index",
   roadNumber |-> "line_number", episodeIndex |-> "episode_index",
   episodeNumber |-> "episode_number", episodeUrl |-> "episode_url"]

\* convertKazumiTemplate: every @ variable becomes a template variable.
Converted(vars, mapping) == {mapping[v] : v \in vars}

KazumiSensitiveHeaders ==
  {"authorization", "proxy-authorization", "cookie", "apikey", "api-key", "x-api-key"}

KeptHeaders(c) == {h \in c.headers : h.name \notin KazumiSensitiveHeaders}
HeaderVars(c)  == UNION {h.vars : h \in KeptHeaders(c)}

(***************************************************************************)
(* kazumiAPIRequest: the request of the search or chapter API.  Its errors *)
(* are collected; any of them refuses the rule.                            *)
(***************************************************************************)
BodyVars(c) ==
  IF c.method = "POST" /\ c.bodyType \in {"json", "form"} THEN c.body.vars ELSE {}

RequestVars(c) ==
  c.url.vars \cup c.url.query \cup c.query.vars \cup HeaderVars(c) \cup BodyVars(c)

KazumiAPIRequestOK(c, mapping) ==
  /\ c.method \in {"none", "GET", "POST"}
  /\ c.url.host # NoHost
  /\ Accepts(RequestVars(c), mapping)
  /\ c.query.scalar
  /\ c.method = "POST" => \/ c.bodyType \in {"none", "json"}
                          \/ c.bodyType = "form" /\ c.body.size > 0 /\ c.body.scalar

(***************************************************************************)
(* kazumiXPathSearchRequest: the search URL itself.  A POST search sends   *)
(* its query string as a form, and only the form's values are converted.   *)
(***************************************************************************)
XPathVars(r) ==
  IF r.usePost THEN r.searchURL.query ELSE r.searchURL.vars \cup r.searchURL.query

KazumiXPathSearchRequestOK(r) ==
  /\ r.searchURL.host # NoHost
  /\ r.usePost => r.searchURL.scheme # "none"
  /\ Accepts(XPathVars(r), SearchMapping)

PathOK(path) == path = "good"     \* validateKazumiJSONPath; the empty path fails

KazumiSearchOK(r) ==
  \/ /\ r.searchMode = "api"
     /\ r.searchApi.present
     /\ KazumiAPIRequestOK(r.searchApi.request, SearchMapping)
     /\ \A path \in {r.searchApi.listPath, r.searchApi.namePath, r.searchApi.sourcePath} : PathOK(path)
  \/ /\ r.searchMode # "api"
     /\ "none" \notin {r.searchList, r.searchName}
     /\ r.searchResult = "none" => r.searchList = "anchors"
     /\ KazumiXPathSearchRequestOK(r)

KazumiSearchHosts(r) ==
  IF r.searchMode = "api" THEN {r.searchApi.request.url.host}
                          ELSE {r.base.host, r.searchURL.host}

(***************************************************************************)
(* kazumiEpisodes.  A variable is [key, name, path], name being what       *)
(* kazumiVariableName makes of the key: two keys may normalize to one      *)
(* name, which is refused, and so is a key of which nothing is left.       *)
(***************************************************************************)
VariablesOK(c) ==
  /\ \A v \in c.variables : PathOK(v.path) /\ v.name # "none"
  /\ \A v, w \in c.variables : v.name = w.name => v = w

VariableNames(c) == {v.name : v \in c.variables}

EpisodeMapping(c) ==
  [u \in DOMAIN PageMapping \cup {v.key : v \in c.variables} |->
     IF \E v \in c.variables : v.key = u
     THEN (CHOOSE v \in c.variables : v.key = u).name
     ELSE PageMapping[u]]

\* kazumiEpisodePage: the page a player is opened on.
PageVars(c) == c.page.url.vars \cup c.page.url.query \cup c.page.query.vars

KazumiEpisodePageOK(c) ==
  /\ c.page.url.host # NoHost /\ c.page.url.scheme # "none"
  /\ Accepts(PageVars(c), EpisodeMapping(c))
  /\ c.page.query.scalar

KazumiEpisodesOK(r) ==
  LET c == r.chapterApi IN
  \/ /\ r.chapterMode = "api"
     /\ c.present
     /\ c.format \in {"none", "nested"}
     /\ KazumiAPIRequestOK(c.request, ChapterMapping)
     /\ VariablesOK(c)
     /\ c.roadsPath # "bad" /\ c.roadNamePath # "bad" /\ c.urlPath # "bad"
     /\ PathOK(c.episodesPath) /\ PathOK(c.episodeNamePath)
     /\ IF c.page.present THEN KazumiEpisodePageOK(c) ELSE c.urlPath # "none"
  \/ /\ r.chapterMode # "api"
     /\ "none" \notin {r.chapterRoads, r.chapterResult}

\* Mutant: the host of the episode page is forgotten.
KazumiEpisodeHosts_NoPage(r) ==
  {r.base.host} \cup (IF r.chapterMode = "api" THEN {r.chapterApi.request.url.host} ELSE {})

KazumiEpisodeHosts(r) ==
  {r.base.host} \cup
    IF r.chapterMode = "api"
    THEN {r.chapterApi.request.url.host}
           \cup (IF r.chapterApi.page.present THEN {r.chapterApi.page.url.host} ELSE {})
    ELSE {}

(***************************************************************************)
(* importKazumiRule.  A rule that needs what was not imported (a captcha   *)
(* helper, a credential) is written disabled, and so is a deprecated one.  *)
(***************************************************************************)
KazumiRequests(r) ==
  (IF r.searchMode = "api" THEN {r.searchApi.request} ELSE {})
    \cup (IF r.chapterMode = "api" THEN {r.chapterApi.request} ELSE {})

DropsCredentials(r) ==
  \E c \in KazumiRequests(r) : KeptHeaders(c) # c.headers

KazumiOK(r) ==
  /\ r.api \in 1..8
  /\ r.type \in {"anime", "1"}
  /\ r.version # "none"
  /\ r.base.host # NoHost /\ r.base.scheme # "none"
  /\ KazumiSearchOK(r)
  /\ KazumiEpisodesOK(r)

\* Mutant: a rule that needs its captcha helper stays enabled.
KazumiEnabled_Captcha(r) == ~r.deprecated /\ ~DropsCredentials(r)

KazumiEnabled(r) == ~r.deprecated /\ ~r.captcha /\ ~DropsCredentials(r)

KazumiWarnings(r) ==
  {w \in {"deprecated_source", "interactive_required", "sensitive_header_dropped"} :
     \/ w = "deprecated_source" /\ r.deprecated
     \/ w = "interactive_required" /\ r.captcha
     \/ w = "sensitive_header_dropped" /\ DropsCredentials(r)}

FixedRequest(url) == [host |-> url.host, scheme |-> url.scheme, allowed |-> {url.host}]

KazumiUses(r) ==
  (IF r.searchMode = "api" THEN Converted(RequestVars(r.searchApi.request), SearchMapping)
                           ELSE Converted(XPathVars(r), SearchMapping))
    \cup IF r.chapterMode # "api" THEN {"subject_url"}
         ELSE Converted(RequestVars(r.chapterApi.request), ChapterMapping)
                \cup IF r.chapterApi.page.present
                     THEN Converted(PageVars(r.chapterApi), EpisodeMapping(r.chapterApi))
                     ELSE {}

KazumiFields(r) ==
  {"title", "subject_key", "subject_url", "channel", "number", "play_url"}
    \cup IF r.chapterMode # "api" THEN {}
         ELSE VariableNames(r.chapterApi)
                \cup (IF r.chapterApi.urlPath # "none" THEN {"episode_url"} ELSE {})

KazumiSource(id, r) ==
  [id |-> id, kind |-> "web", enabled |-> KazumiEnabled(r), origin |-> r,
   sites    |-> {r.base.scheme},
   requests |-> {FixedRequest(c.url) : c \in KazumiRequests(r)}
                  \cup (IF r.searchMode = "api" THEN {} ELSE {FixedRequest(r.searchURL)}),
   follows  |-> IF r.chapterMode = "api" THEN {} ELSE {{r.base.host}},
   opens    |-> {r.base.host} \cup KazumiSearchHosts(r) \cup KazumiEpisodeHosts(r),
   links    |-> r.base.host,
   uses     |-> KazumiUses(r),
   fields   |-> KazumiFields(r),
   headers  |-> UNION {{h.name : h \in KeptHeaders(c)} : c \in KazumiRequests(r)},
   patterns |-> {"re2"},
   numbers  |-> [tier |-> 2, channelTiers |-> {}, titles |-> 1, perMinute |-> 20,
                timeout |-> 15000, ttl |-> -1, priority |-> 0],
   lost     |-> IF r.usePost /\ r.searchMode # "api" THEN r.searchURL.vars ELSE {}]
=============================================================================
