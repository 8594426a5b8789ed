----------------------------- MODULE AnimekoRule ----------------------------
(***************************************************************************)
(* The conversion of one Animeko media source: importAnimekoRSS and        *)
(* importAnimekoWeb, src/internal/importer/animeko.go.                     *)
(*                                                                         *)
(* A URL is [host, scheme, vars], its vars being the template variables    *)
(* after {keyword} and {page} became {{title}} and {{page}}.  A regular    *)
(* expression of the rule is "none", "capture" (RE2, with the named group  *)
(* the converter looks for), "groups" (RE2, with some other group),        *)
(* "flat" (RE2, no group) or "kotlin" (not RE2).                           *)
(***************************************************************************)
EXTENDS SourceLint

Clamp(n, low, high) == IF n < low THEN low ELSE IF n > high THEN high ELSE n

NormalizedTier(e) == Clamp(e.tier, 0, 9)

\* Mutant: the quotient is not kept within the schema's limits.
PerMinute_Unbounded(interval) == IF interval > 0 THEN 60000 \div interval ELSE 600

\* A request interval of zero or less means no limit but the schema's own.
PerMinute(interval) ==
  IF interval > 0 THEN Clamp(60000 \div interval, 1, 600) ELSE 600

\* The cache lifetime, in seconds; a negative one leaves the cache out.
CacheTTL(ttl) == IF ttl < 0 THEN -1 ELSE Clamp(ttl, 0, MaxTTL)

\* animekoSubjectSearch: the formats that need selectors of their own.
SubjectSearchOK(e) ==
  \/ e.subjectFormat \in {"none", "a"}
  \/ e.subjectFormat \in {"indexed", "json-path-indexed"} /\ e.subjectNames /\ e.subjectLinks

\* animekoEpisodes
EpisodesOK(e) ==
  \/ e.channelFormat \in {"none", "no-channel"}
  \/ e.channelFormat = "index-grouped" /\ e.channelNames /\ e.episodeLists /\ e.episodeNames

Dialect(pattern) == IF pattern = "kotlin" THEN "kotlin" ELSE "re2"

(***************************************************************************)
(* episodeRegex: the pattern an episode number is read with and the group  *)
(* that holds it.  A pattern without a group, or beyond RE2, is replaced.  *)
(***************************************************************************)
EpisodeRegex(pattern) ==
  CASE pattern \in {"none", "capture"} -> [dialect |-> Dialect(pattern), group |-> "named", rewritten |-> FALSE]
    [] pattern = "groups"              -> [dialect |-> Dialect(pattern), group |-> "first", rewritten |-> FALSE]
    [] OTHER                           -> [dialect |-> "re2", group |-> "first", rewritten |-> TRUE]

(***************************************************************************)
(* compatibleRegex: the pattern a media URL is recognized by.  Animeko's   *)
(* default for the media itself looks ahead and is always rewritten, its   *)
(* default for nested pages never.                                         *)
(***************************************************************************)
CompatibleRegex(pattern, default) ==
  LET given == IF pattern = "none" THEN default ELSE pattern IN
  IF Dialect(given) = "re2" THEN [dialect |-> Dialect(given), rewritten |-> FALSE]
                            ELSE [dialect |-> "re2", rewritten |-> TRUE]

WebPatterns(e) ==
  {EpisodeRegex(e.episodePattern)}
    \cup (IF e.channelFormat = "index-grouped" /\ e.channelPattern # "none"
          THEN {EpisodeRegex(e.channelPattern)} ELSE {})

MediaPatterns(e) ==
  {CompatibleRegex(e.videoPattern, "kotlin")}
    \cup (IF e.nestedURLs THEN {CompatibleRegex(e.nestedPattern, "groups")} ELSE {})

\* The patterns of the rule that are used at all, as it gives them.
GivenPatterns(e) ==
  {e.episodePattern, e.videoPattern}
    \cup (IF e.channelFormat = "index-grouped" THEN {e.channelPattern} ELSE {})
    \cup (IF e.nestedURLs THEN {e.nestedPattern} ELSE {})

\* The URL links of the search page are completed with.
AnimekoBase(e) == IF e.rawBase.host = NoHost THEN e.searchURL ELSE e.rawBase

RSSFields ==
  {"title", "download_url", "size_bytes", "published_at", "fansub", "episode", "info_hash"}

WebFields(e) ==
  {"title", "subject_url", "number", "play_url"}
    \cup (IF e.channelFormat = "index-grouped" THEN {"channel"} ELSE {})

\* The numbers of a web source that are altered, or left out, without a diagnostic.
AnimekoLost(e) ==
  {f \in {"titleCount", "requestInterval", "channelTiers", "searchCacheTtl"} :
     \/ f = "titleCount" /\ e.titleCount \notin 1..100
     \/ f = "requestInterval" /\ e.interval \notin 100..60000
     \/ f = "channelTiers" /\ ~(e.channelTiers \subseteq 0..99)
     \/ f = "searchCacheTtl" /\ e.cacheTTL < 0}

AnimekoOK(e) ==
  /\ \/ e.factory = "rss" /\ e.version = 1
     \/ e.factory = "web-selector" /\ e.version = 2 /\ SubjectSearchOK(e) /\ EpisodesOK(e)
  /\ e.searchURL.host # NoHost

\* Mutant: a media pattern that had to be replaced is not reported.
AnimekoWarnings_Episodes(e) ==
  {w \in {"tier_clamped", "regex_rewritten", "limit_clamped", "selftest_missing", "overlay_required"} :
     \/ w = "tier_clamped" /\ NormalizedTier(e) # e.tier
     \/ w = "selftest_missing"
     \/ /\ e.factory = "web-selector"
        /\ \/ w = "regex_rewritten" /\ \E p \in WebPatterns(e) : p.rewritten
           \/ w = "limit_clamped" /\ e.cacheTTL > CacheTTL(e.cacheTTL)
           \/ w = "overlay_required"}

AnimekoWarnings(e) ==
  {w \in {"tier_clamped", "regex_rewritten", "limit_clamped", "selftest_missing", "overlay_required"} :
     \/ w = "tier_clamped" /\ NormalizedTier(e) # e.tier
     \/ w = "selftest_missing"
     \/ /\ e.factory = "web-selector"
        /\ \/ w = "regex_rewritten" /\ \E p \in WebPatterns(e) \cup MediaPatterns(e) : p.rewritten
           \/ w = "limit_clamped" /\ e.cacheTTL > CacheTTL(e.cacheTTL)
           \/ w = "overlay_required"}

(***************************************************************************)
(* animekoBase and the rest of both conversions.  The resolver of a web    *)
(* source and its episodes request may open only the host of the search    *)
(* URL, whatever site the links are completed with.                        *)
(***************************************************************************)
AnimekoSource(id, e) ==
  LET web == e.factory = "web-selector" IN
  [id |-> id, kind |-> IF web THEN "web" ELSE "bt", enabled |-> TRUE, origin |-> e,
   sites    |-> {IF web THEN AnimekoBase(e).scheme ELSE e.searchURL.scheme},
   requests |-> {[host |-> e.searchURL.host, scheme |-> e.searchURL.scheme,
                  allowed |-> {e.searchURL.host}]},
   follows  |-> IF web THEN {{e.searchURL.host}} ELSE {},
   opens    |-> IF web THEN {e.searchURL.host} ELSE {},
   links    |-> AnimekoBase(e).host,
   uses     |-> e.searchURL.vars \cup (IF web THEN {"subject_url", "play_url"} ELSE {"download_url"}),
   fields   |-> IF web THEN WebFields(e) ELSE RSSFields,
   headers  |-> {},
   patterns |-> IF web THEN {p.dialect : p \in WebPatterns(e) \cup MediaPatterns(e)} ELSE {"re2"},
   numbers  |-> [tier |-> NormalizedTier(e),
                 channelTiers |-> IF web THEN {Clamp(t, 0, 99) : t \in e.channelTiers} ELSE {},
                 titles    |-> IF web THEN Clamp(e.titleCount, 1, 100) ELSE 1,
                 perMinute |-> IF web THEN PerMinute(e.interval) ELSE 12,
                 timeout   |-> 15000,
                 ttl       |-> IF web THEN CacheTTL(e.cacheTTL) ELSE -1,
                 priority  |-> 0],
   lost     |-> IF web THEN AnimekoLost(e) ELSE {}]
=============================================================================
