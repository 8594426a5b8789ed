-------------------------- MODULE RuleImportProofs --------------------------
(***************************************************************************)
(* Theorems about RuleImport, for every input, every overlay and every set *)
(* of hosts: what an imported Kazumi rule may do without a reviewer, that  *)
(* a run imports all of its rules or none, what an overlay cannot change,  *)
(* and that what a converter clamps is within the schema.                  *)
(***************************************************************************)
EXTENDS RuleImport, TLAPS

-----------------------------------------------------------------------------
(* What the conversion of one Kazumi rule gives                            *)

Unsafe(r) == r.deprecated \/ r.captcha \/ SendsCredentials(r)

\* The episodes of the document can be followed to their pages.
Reaches(s) ==
  LET c == s.origin.chapterApi IN
  /\ s.links \in s.opens
  /\ \A allowed \in s.follows : s.links \in allowed
  /\ s.origin.chapterMode = "api" /\ c.page.present => c.page.url.host \in s.opens

\* KazumiSource gives a document of the fields the overlays and the checks read.
LEMMA DocumentFields ==
  ASSUME NEW id, NEW r
  PROVE  {"id", "kind", "enabled", "origin", "follows", "opens", "links", "headers"}
           \subseteq DOMAIN KazumiSource(id, r)
  BY DEF KazumiSource

\* KazumiSource keeps the rule and the id it was given.
LEMMA DocumentOrigin ==
  ASSUME NEW id, NEW r
  PROVE  KazumiSource(id, r).id = id /\ KazumiSource(id, r).origin = r
  BY DEF KazumiSource

\* No request of the document has a header with a credential: kazumiHeaders
\* drops them.
LEMMA DocumentHeaders ==
  ASSUME NEW id, NEW r
  PROVE  KazumiSource(id, r).headers \cap KazumiSensitiveHeaders = {}
  <1>1. KazumiSource(id, r).headers = UNION {{h.name : h \in KeptHeaders(c)} : c \in KazumiRequests(r)}
    BY DEF KazumiSource
  <1>2. \A c \in KazumiRequests(r) : \A h \in KeptHeaders(c) : h.name \notin KazumiSensitiveHeaders
    BY DEF KeptHeaders
  <1>3. QED
    BY <1>1, <1>2

\* A rule that sends a credential loses a header to the conversion.
LEMMA CredentialsDropped ==
  ASSUME NEW r, SendsCredentials(r)
  PROVE  DropsCredentials(r)
  <1>1. CASE r.searchMode = "api" /\ \E h \in r.searchApi.request.headers : h.name \in KazumiSensitiveHeaders
    <2>1. r.searchApi.request \in KazumiRequests(r)
      BY <1>1 DEF KazumiRequests
    <2>2. PICK h \in r.searchApi.request.headers : h.name \in KazumiSensitiveHeaders
      BY <1>1
    <2>3. h \notin KeptHeaders(r.searchApi.request)
      BY <2>2 DEF KeptHeaders
    <2>4. QED
      BY <2>1, <2>2, <2>3 DEF DropsCredentials
  <1>2. CASE r.chapterMode = "api" /\ \E h \in r.chapterApi.request.headers : h.name \in KazumiSensitiveHeaders
    <2>1. r.chapterApi.request \in KazumiRequests(r)
      BY <1>2 DEF KazumiRequests
    <2>2. PICK h \in r.chapterApi.request.headers : h.name \in KazumiSensitiveHeaders
      BY <1>2
    <2>3. h \notin KeptHeaders(r.chapterApi.request)
      BY <2>2 DEF KeptHeaders
    <2>4. QED
      BY <2>1, <2>2, <2>3 DEF DropsCredentials
  <1>3. QED
    BY <1>1, <1>2 DEF SendsCredentials

\* An unsafe rule is converted to a disabled document.
LEMMA UnsafeIsDisabled ==
  ASSUME NEW id, NEW r, Unsafe(r)
  PROVE  ~KazumiSource(id, r).enabled
  <1>1. r.deprecated \/ r.captcha \/ DropsCredentials(r)
    BY CredentialsDropped DEF Unsafe
  <1>2. KazumiSource(id, r).enabled = KazumiEnabled(r)
    BY DEF KazumiSource
  <1>3. ~KazumiEnabled(r)
    BY <1>1 DEF KazumiEnabled
  <1>4. QED
    BY <1>2, <1>3

\* importKazumiRule has a warning for each reason not to trust a rule.
LEMMA UnsafeIsWarnedOf ==
  ASSUME NEW r
  PROVE  /\ r.deprecated => "deprecated_source" \in KazumiWarnings(r)
         /\ r.captcha => "interactive_required" \in KazumiWarnings(r)
         /\ SendsCredentials(r) => "sensitive_header_dropped" \in KazumiWarnings(r)
  BY CredentialsDropped DEF KazumiWarnings

\* The hosts of the document are open to the pages its links lead to.
LEMMA DocumentReaches ==
  ASSUME NEW id, NEW r
  PROVE  Reaches(KazumiSource(id, r))
  <1>1. /\ KazumiSource(id, r).links = r.base.host
        /\ KazumiSource(id, r).opens = {r.base.host} \cup KazumiSearchHosts(r) \cup KazumiEpisodeHosts(r)
        /\ KazumiSource(id, r).follows = IF r.chapterMode = "api" THEN {} ELSE {{r.base.host}}
    BY DEF KazumiSource
  <1>2. r.chapterMode = "api" /\ r.chapterApi.page.present => r.chapterApi.page.url.host \in KazumiEpisodeHosts(r)
    BY DEF KazumiEpisodeHosts
  <1>3. QED
    BY <1>1, <1>2, DocumentOrigin DEF Reaches

-----------------------------------------------------------------------------
(* What the conversion of a rule of any ecosystem gives                    *)

Kind(rule) ==
  IF input.ecosystem = "kazumi" \/ (input.ecosystem = "animeko" /\ rule.factory # "rss") THEN "web" ELSE "bt"

\* Every converter keeps the rule and the id it was given, and the kind of a
\* document is that of its rule.
LEMMA ConvertedFields ==
  ASSUME TypeOK, NEW id, NEW rule, RuleOK(rule), NEW s \in RuleSources(id, rule)
  PROVE  /\ {"id", "kind", "origin"} \subseteq DOMAIN s
         /\ s.id = id /\ s.origin = rule /\ s.kind = Kind(rule)
  <1>1. input.ecosystem \in {"kazumi", "animeko", "nagare-v1"}
    BY InputsAssumption DEF TypeOK
  <1>2. CASE input.ecosystem = "kazumi"
    <2>1. s = KazumiSource(id, rule)
      <3>1. RuleSources(id, rule) = {KazumiSource(id, rule)}
        BY <1>2, Zenon DEF RuleSources
      <3>2. QED
        BY <3>1
    <2>2. QED
      BY <1>2, <2>1 DEF KazumiSource, Kind
  <1>3. CASE input.ecosystem = "animeko"
    <2>1. s = AnimekoSource(id, rule)
      <3>1. RuleSources(id, rule) = {AnimekoSource(id, rule)}
        BY <1>3, Zenon DEF RuleSources
      <3>2. QED
        BY <3>1
    <2>2. rule.factory \in {"rss", "web-selector"}
      <3>1. AnimekoOK(rule)
        BY <1>3, Zenon DEF RuleOK
      <3>2. QED
        BY <3>1 DEF AnimekoOK
    <2>3. QED
      BY <1>3, <2>1, <2>2 DEF AnimekoSource, Kind
  <1>4. CASE input.ecosystem = "nagare-v1"
    <2>1. PICK kept : s = NagareSource(id, rule, kept)
      <3>1. RuleSources(id, rule) = {NagareSource(id, rule, kept) : kept \in Kept(rule)}
        BY <1>4, Zenon DEF RuleSources
      <3>2. QED
        BY <3>1
    <2>2. QED
      BY <1>4, <2>1 DEF NagareSource, Kind
  <1>5. QED
    BY <1>1, <1>2, <1>3, <1>4

\* The bounds of the schema that are too large to be written out.
LEMMA Bounds == MaxTimeout \in Int /\ MaxTTL \in Int /\ MaxPriority \in Int
                /\ MaxTimeout >= 15000 /\ MaxTTL >= 0 /\ MaxPriority >= 0
  BY SMT DEF MaxTimeout, MaxTTL, MaxPriority

\* normalizedTier keeps the tier of an Animeko rule within the schema's range.
LEMMA TierFits ==
  ASSUME NEW e, e.tier \in Int
  PROVE  NormalizedTier(e) \in 0..9
  BY SMT DEF NormalizedTier, Clamp

\* So does the clamp of the tiers of its channels.
LEMMA ChannelTiersFit ==
  ASSUME NEW e, e.channelTiers \subseteq Int
  PROVE  {Clamp(t, 0, 99) : t \in e.channelTiers} \subseteq 0..99
  BY SMT DEF Clamp

\* So does the clamp of the number of titles a search tries.
LEMMA TitlesFit ==
  ASSUME NEW e, e.titleCount \in Int
  PROVE  Clamp(e.titleCount, 1, 100) \in 1..100
  BY SMT DEF Clamp

\* An interval between requests becomes a rate within the schema's range.
LEMMA RateFits ==
  ASSUME NEW interval \in Int
  PROVE  PerMinute(interval) \in 1..600
  <1>1. CASE interval > 0
    <2>1. 60000 \div interval \in Int
      BY <1>1, SMT
    <2>2. QED
      BY <1>1, <2>1, SMT DEF PerMinute, Clamp
  <1>2. CASE ~(interval > 0)
    BY <1>2, SMT DEF PerMinute
  <1>3. QED
    BY <1>1, <1>2

\* A cache lifetime is left out or within the schema's range.
LEMMA LifetimeFits ==
  ASSUME NEW ttl \in Int
  PROVE  CacheTTL(ttl) \in -1..MaxTTL
  BY Bounds, SMT DEF CacheTTL, Clamp

\* An Animeko document whose URLs are HTTP passes the schema and has RE2 patterns
\* only, whatever its numbers and patterns were.
LEMMA AnimekoFits ==
  ASSUME NEW id, NEW e, e.factory \in {"rss", "web-selector"},
         {e.tier, e.titleCount, e.interval, e.cacheTTL} \cup e.channelTiers \subseteq Int,
         NEW s, s = AnimekoSource(id, e),
         s.sites \subseteq {"http"}, \A r \in s.requests : r.scheme = "http"
  PROVE  InSchema(s) /\ LintRegexes(s)
  <1> DEFINE web == e.factory = "web-selector"
  <1>1. /\ s.kind = IF web THEN "web" ELSE "bt"
        /\ s.requests = {[host |-> e.searchURL.host, scheme |-> e.searchURL.scheme, allowed |-> {e.searchURL.host}]}
        /\ s.follows = IF web THEN {{e.searchURL.host}} ELSE {}
        /\ s.opens = IF web THEN {e.searchURL.host} ELSE {}
    BY DEF AnimekoSource
  <1>2. s.patterns = IF web THEN {p.dialect : p \in WebPatterns(e) \cup MediaPatterns(e)} ELSE {"re2"}
    BY DEF AnimekoSource
  <1>3. /\ s.numbers.tier = NormalizedTier(e)
        /\ s.numbers.channelTiers = IF web THEN {Clamp(t, 0, 99) : t \in e.channelTiers} ELSE {}
        /\ s.numbers.titles = IF web THEN Clamp(e.titleCount, 1, 100) ELSE 1
        /\ s.numbers.perMinute = IF web THEN PerMinute(e.interval) ELSE 12
        /\ s.numbers.timeout = 15000
        /\ s.numbers.ttl = IF web THEN CacheTTL(e.cacheTTL) ELSE -1
        /\ s.numbers.priority = 0
    <2>1. s.numbers = [tier |-> NormalizedTier(e),
                       channelTiers |-> IF web THEN {Clamp(t, 0, 99) : t \in e.channelTiers} ELSE {},
                       titles    |-> IF web THEN Clamp(e.titleCount, 1, 100) ELSE 1,
                       perMinute |-> IF web THEN PerMinute(e.interval) ELSE 12,
                       timeout   |-> 15000,
                       ttl       |-> IF web THEN CacheTTL(e.cacheTTL) ELSE -1,
                       priority  |-> 0]
      BY DEF AnimekoSource
    <2>2. QED
      BY <2>1
  <1>4. \A r \in s.requests : r.allowed # {}
    BY <1>1
  <1>5. {} \notin s.follows \cup (IF s.kind = "web" THEN {s.opens} ELSE {})
    BY <1>1
  <1>6. s.numbers.tier \in 0..9 /\ s.numbers.channelTiers \subseteq 0..99
    <2>1. NormalizedTier(e) \in 0..9
      BY TierFits
    <2>2. {Clamp(t, 0, 99) : t \in e.channelTiers} \subseteq 0..99
      BY ChannelTiersFit
    <2>3. {} \subseteq 0..99
      OBVIOUS
    <2>4. QED
      BY <1>3, <2>1, <2>2, <2>3
  <1>7. s.numbers.titles \in 1..100 /\ s.numbers.perMinute \in 1..600
    <2>1. Clamp(e.titleCount, 1, 100) \in 1..100
      BY TitlesFit
    <2>2. PerMinute(e.interval) \in 1..600
      BY RateFits
    <2>3. QED
      BY <1>3, <2>1, <2>2, SMT
  <1>8. /\ s.numbers.timeout \in 100..MaxTimeout
        /\ s.numbers.ttl \in -1..MaxTTL
        /\ s.numbers.priority \in -MaxPriority..MaxPriority
    <2>1. CacheTTL(e.cacheTTL) \in -1..MaxTTL
      BY LifetimeFits
    <2>2. QED
      BY <1>3, <2>1, Bounds
  <1>9. InSchema(s)
    BY <1>4, <1>5, <1>6, <1>7, <1>8, Zenon DEF InSchema
  <1>10. \A p \in WebPatterns(e) \cup MediaPatterns(e) : p.dialect = "re2"
    <2>1. \A pattern : EpisodeRegex(pattern).dialect = "re2"
      BY DEF EpisodeRegex, Dialect
    <2>2. \A pattern, default : CompatibleRegex(pattern, default).dialect = "re2"
      BY DEF CompatibleRegex, Dialect
    <2>3. QED
      BY <2>1, <2>2 DEF WebPatterns, MediaPatterns
  <1>11. QED
    BY <1>2, <1>9, <1>10 DEF LintRegexes

\* A pattern beyond RE2 is always replaced, whatever it is for.
LEMMA KotlinIsRewritten ==
  ASSUME NEW e, "kotlin" \in GivenPatterns(e)
  PROVE  \E p \in WebPatterns(e) \cup MediaPatterns(e) : p.rewritten
  <1>1. EpisodeRegex("kotlin").rewritten
    BY DEF EpisodeRegex
  <1>2. \A default : CompatibleRegex("kotlin", default).rewritten
    BY DEF CompatibleRegex, Dialect
  <1>3. CASE e.episodePattern = "kotlin"
    BY <1>1, <1>3 DEF WebPatterns
  <1>4. CASE e.videoPattern = "kotlin"
    BY <1>2, <1>4 DEF MediaPatterns
  <1>5. CASE e.channelFormat = "index-grouped" /\ e.channelPattern = "kotlin"
    BY <1>1, <1>5 DEF WebPatterns
  <1>6. CASE e.nestedURLs /\ e.nestedPattern = "kotlin"
    BY <1>2, <1>6 DEF MediaPatterns
  <1>7. QED
    BY <1>3, <1>4, <1>5, <1>6 DEF GivenPatterns

\* A cache lifetime that is kept, but not as the rule has it, is shorter.
LEMMA LifetimeIsShorter ==
  ASSUME NEW ttl \in Int, CacheTTL(ttl) \notin {-1, ttl}
  PROVE  ttl > CacheTTL(ttl)
  BY Bounds, SMT DEF CacheTTL, Clamp

\* An Animeko document that does not have the tier, the lifetime or a pattern of its
\* rule comes with a warning of that.
LEMMA AlteredIsWarnedOf ==
  ASSUME NEW id, NEW e, e.factory \in {"rss", "web-selector"}, e.cacheTTL \in Int,
         NEW s, s = AnimekoSource(id, e), NEW w \in Altered(s)
  PROVE  w \in AnimekoWarnings(e)
  <1> DEFINE web == e.factory = "web-selector"
  <1>1. /\ s.origin = e /\ s.kind = IF web THEN "web" ELSE "bt"
        /\ s.patterns = IF web THEN {p.dialect : p \in WebPatterns(e) \cup MediaPatterns(e)} ELSE {"re2"}
    BY DEF AnimekoSource
  <1>2. s.numbers.tier = NormalizedTier(e) /\ s.numbers.ttl = IF web THEN CacheTTL(e.cacheTTL) ELSE -1
    <2>1. s.numbers = [tier |-> NormalizedTier(e),
                       channelTiers |-> IF web THEN {Clamp(t, 0, 99) : t \in e.channelTiers} ELSE {},
                       titles    |-> IF web THEN Clamp(e.titleCount, 1, 100) ELSE 1,
                       perMinute |-> IF web THEN PerMinute(e.interval) ELSE 12,
                       timeout   |-> 15000,
                       ttl       |-> IF web THEN CacheTTL(e.cacheTTL) ELSE -1,
                       priority  |-> 0]
      BY DEF AnimekoSource
    <2>2. QED
      BY <2>1
  <1>3. \/ w = "tier_clamped" /\ s.numbers.tier # e.tier
        \/ w = "limit_clamped" /\ s.numbers.ttl \notin {-1, e.cacheTTL}
        \/ w = "regex_rewritten" /\ s.kind = "web" /\ "kotlin" \in GivenPatterns(e)
    BY <1>1 DEF Altered
  <1>4. CASE w = "tier_clamped" /\ s.numbers.tier # e.tier
    BY <1>2, <1>4 DEF AnimekoWarnings
  <1>5. CASE w = "limit_clamped" /\ s.numbers.ttl \notin {-1, e.cacheTTL}
    <2>1. web /\ CacheTTL(e.cacheTTL) \notin {-1, e.cacheTTL}
      BY <1>2, <1>5
    <2>2. e.cacheTTL > CacheTTL(e.cacheTTL)
      BY <2>1, LifetimeIsShorter
    <2>3. QED
      BY <1>5, <2>1, <2>2 DEF AnimekoWarnings
  <1>6. CASE w = "regex_rewritten" /\ s.kind = "web" /\ "kotlin" \in GivenPatterns(e)
    <2>1. web
      BY <1>1, <1>6
    <2>2. \E p \in WebPatterns(e) \cup MediaPatterns(e) : p.rewritten
      BY <1>6, KotlinIsRewritten
    <2>3. QED
      BY <1>6, <2>1, <2>2 DEF AnimekoWarnings
  <1>7. QED
    BY <1>3, <1>4, <1>5, <1>6

\* A Kazumi document whose URLs are HTTP passes the schema and has RE2 patterns only.
LEMMA KazumiFits ==
  ASSUME NEW id, NEW r, NEW s, s = KazumiSource(id, r),
         s.sites \subseteq {"http"}, \A q \in s.requests : q.scheme = "http"
  PROVE  InSchema(s) /\ LintRegexes(s)
  <1>1. /\ s.kind = "web"
        /\ s.requests = {FixedRequest(c.url) : c \in KazumiRequests(r)}
                          \cup (IF r.searchMode = "api" THEN {} ELSE {FixedRequest(r.searchURL)})
        /\ s.follows = IF r.chapterMode = "api" THEN {} ELSE {{r.base.host}}
        /\ s.opens = {r.base.host} \cup KazumiSearchHosts(r) \cup KazumiEpisodeHosts(r)
        /\ s.patterns = {"re2"}
    BY DEF KazumiSource
  <1>2. \A q \in s.requests : q.allowed # {}
    <2>1. \A url : FixedRequest(url).allowed # {}
      BY DEF FixedRequest
    <2>2. QED
      BY <1>1, <2>1
  <1>3. {} \notin s.follows \cup (IF s.kind = "web" THEN {s.opens} ELSE {})
    BY <1>1
  <1>4. /\ s.numbers.tier \in 0..9 /\ s.numbers.channelTiers \subseteq 0..99
        /\ s.numbers.titles \in 1..100 /\ s.numbers.perMinute \in 1..600
        /\ s.numbers.timeout \in 100..MaxTimeout /\ s.numbers.ttl \in -1..MaxTTL
        /\ s.numbers.priority \in -MaxPriority..MaxPriority
    <2>1. /\ s.numbers.tier = 2 /\ s.numbers.channelTiers = {} /\ s.numbers.titles = 1
          /\ s.numbers.perMinute = 20 /\ s.numbers.timeout = 15000 /\ s.numbers.ttl = -1
          /\ s.numbers.priority = 0
      BY SMT DEF KazumiSource
    <2>2. QED
      BY <2>1, Bounds
  <1>5. InSchema(s)
    BY <1>2, <1>3, <1>4, Zenon DEF InSchema
  <1>6. QED
    BY <1>1, <1>5 DEF LintRegexes

-----------------------------------------------------------------------------
(* The invariant.  A source the overlays have not been through is what     *)
(* KazumiSource made of its rule; one they have been through differs from  *)
(* that only in what its overlay patches.  Either's warnings are kept.     *)

Fresh(x) ==
  /\ x = [source |-> x.source, from |-> x.from, overlay |-> NoOverlay]
  /\ x.source = KazumiSource(x.source.id, x.source.origin)

Reviewed(x) ==
  /\ ~Patched(x, "headers") => x.source.headers \cap KazumiSensitiveHeaders = {}
  /\ Unsafe(x.source.origin) /\ ~Patched(x, "enabled") => ~x.source.enabled
  /\ (\A f \in {"links", "follows", "opens"} : ~Patched(x, f)) => Reaches(x.source)

Told(x, ds) ==
  LET r == x.source.origin IN
  /\ r.deprecated => Warning(x.source.id, "deprecated_source") \in ds
  /\ r.captcha => Warning(x.source.id, "interactive_required") \in ds
  /\ SendsCredentials(r) => Warning(x.source.id, "sensitive_header_dropped") \in ds

Converting ==
  input.ecosystem = "kazumi" =>
    /\ \A x \in sources : Fresh(x) /\ Told(x, diagnostics \cup found)
    /\ \A x \in patched : Reviewed(x) /\ Told(x, diagnostics \cup found)

\* Only validated sources are written, in a run that is past its documents.
Checked ==
  /\ files # {} => phase \in {"writing", "failed", "written"}
  /\ \A x \in files : x \in patched /\ ValidateSource(x.source)
  /\ phase = "writing" => \A x \in patched : ValidateSource(x.source)

\* The diagnostics of a document join those of the run when it is over.
Collected == phase # "reading" \/ place[1] \notin DOMAIN documents => found = {}

IInv == Converting /\ Checked /\ Collected

\* Diagnostics are only added to.
LEMMA ToldAgain ==
  ASSUME NEW x, NEW ds, NEW es, ds \subseteq es, Told(x, ds)
  PROVE  Told(x, es)
  BY DEF Told

\* Without an overlay a source is as its conversion left it.
LEMMA FreshIsReviewed ==
  ASSUME NEW x, Fresh(x)
  PROVE  Reviewed(x)
  <1>1. x.overlay = NoOverlay
    BY DEF Fresh
  <1>2. x.source = KazumiSource(x.source.id, x.source.origin)
    BY DEF Fresh
  <1>3. x.source.headers \cap KazumiSensitiveHeaders = {}
    BY <1>2, DocumentHeaders
  <1>4. Unsafe(x.source.origin) => ~x.source.enabled
    BY <1>2, UnsafeIsDisabled
  <1>5. Reaches(x.source)
    BY <1>2, DocumentReaches
  <1>6. QED
    BY <1>1, <1>3, <1>4, <1>5 DEF Reviewed, Patched

\* A valid overlay changes what it patches and nothing else, and neither the id
\* nor the origin.
LEMMA OverlaidIsReviewed ==
  ASSUME NEW x, Fresh(x), NEW o, o # NoOverlay, ValidOverlay(o, x.source),
         NEW y, y = [x EXCEPT !.source = Patch(@, o.patch), !.overlay = o]
  PROVE  /\ Reviewed(y)
         /\ y.source.id = x.source.id /\ y.source.origin = x.source.origin
  <1>1. x = [source |-> x.source, from |-> x.from, overlay |-> NoOverlay]
    BY DEF Fresh
  <1>2. y.source = Patch(x.source, o.patch) /\ y.overlay = o
    <2>1. DOMAIN x = {"source", "from", "overlay"}
      BY <1>1
    <2>2. QED
      BY <2>1
  <1>3. {"id", "kind", "enabled", "origin", "follows", "opens", "links", "headers"} \subseteq DOMAIN x.source
    <2>1. x.source = KazumiSource(x.source.id, x.source.origin)
      BY DEF Fresh
    <2>2. QED
      BY <2>1, DocumentFields
  <1>4. \A f \in DOMAIN x.source : f \notin DOMAIN o.patch => y.source[f] = x.source[f]
    BY <1>2 DEF Patch
  <1>5. "id" \notin DOMAIN o.patch /\ "origin" \notin DOMAIN o.patch
    BY DEF ValidOverlay, Immutable
  <1>6. y.source.id = x.source.id /\ y.source.origin = x.source.origin
    BY <1>3, <1>4, <1>5
  <1>7. \A f \in {"enabled", "headers", "links", "follows", "opens"} : ~Patched(y, f) => y.source[f] = x.source[f]
    BY <1>2, <1>3, <1>4 DEF Patched
  <1>8. /\ x.source.headers \cap KazumiSensitiveHeaders = {}
        /\ Unsafe(x.source.origin) => ~x.source.enabled
        /\ Reaches(x.source)
    <2>1. x.overlay = NoOverlay
      BY <1>1
    <2>2. QED
      BY <2>1, FreshIsReviewed DEF Reviewed, Patched
  <1>9. ~Patched(y, "headers") => y.source.headers \cap KazumiSensitiveHeaders = {}
    BY <1>7, <1>8
  <1>10. Unsafe(y.source.origin) /\ ~Patched(y, "enabled") => ~y.source.enabled
    BY <1>6, <1>7, <1>8
  <1>11. (\A f \in {"links", "follows", "opens"} : ~Patched(y, f)) => Reaches(y.source)
    BY <1>6, <1>7, <1>8 DEF Reaches
  <1>12. QED
    BY <1>6, <1>9, <1>10, <1>11 DEF Reviewed

\* The next rule of a document: its source and its warnings come together.
LEMMA EntryConverts ==
  ASSUME Converting, ImportEntry
  PROVE  Converting'
  <1> SUFFICES ASSUME input.ecosystem = "kazumi"
               PROVE  /\ \A x \in sources' : Fresh(x) /\ Told(x, (diagnostics \cup found)')
                      /\ \A x \in patched' : Reviewed(x) /\ Told(x, (diagnostics \cup found)')
    BY DEF Converting, ImportEntry
  <1>1. diagnostics \cup found \subseteq (diagnostics \cup found)'
    BY DEF ImportEntry
  <1>2. patched' = patched
    BY DEF ImportEntry
  <1>3. \A x \in sources : Fresh(x) /\ Told(x, (diagnostics \cup found)')
    BY <1>1, ToldAgain DEF Converting
  <1>4. \A x \in patched' : Reviewed(x) /\ Told(x, (diagnostics \cup found)')
    BY <1>1, <1>2, ToldAgain DEF Converting
  <1>5. ASSUME NEW x \in sources', x \notin sources
        PROVE  Fresh(x) /\ Told(x, (diagnostics \cup found)')
    <2>1. PICK rule, id :
            /\ x = [source |-> KazumiSource(id, rule), from |-> place, overlay |-> NoOverlay]
            /\ found' = found \cup {Warning(id, w) : w \in KazumiWarnings(rule)}
      BY <1>5 DEF ImportEntry, RuleSources, RuleWarnings
    <2>2. x.source = KazumiSource(id, rule) /\ x.from = place /\ x.overlay = NoOverlay
      BY <2>1
    <2>3. x.source.id = id /\ x.source.origin = rule
      BY <2>2, DocumentOrigin
    <2>4. Fresh(x)
      BY <2>1, <2>2, <2>3 DEF Fresh
    <2>5. Told(x, found')
      BY <2>1, <2>3, UnsafeIsWarnedOf DEF Told
    <2>6. QED
      BY <2>4, <2>5, ToldAgain
  <1>6. QED
    BY <1>3, <1>4, <1>5

\* A source passes to the patched ones with its overlay or without.
LEMMA OverlayConverts ==
  ASSUME Converting, ApplyOverlay
  PROVE  Converting'
  <1> SUFFICES ASSUME input.ecosystem = "kazumi"
               PROVE  /\ \A x \in sources' : Fresh(x) /\ Told(x, (diagnostics \cup found)')
                      /\ \A x \in patched' : Reviewed(x) /\ Told(x, (diagnostics \cup found)')
    BY DEF Converting, ApplyOverlay
  <1>1. diagnostics \cup found \subseteq (diagnostics \cup found)'
    BY DEF ApplyOverlay
  <1>2. sources' \subseteq sources
    BY DEF ApplyOverlay
  <1>3. \A x \in sources : Fresh(x) /\ Told(x, (diagnostics \cup found)')
    BY <1>1, ToldAgain DEF Converting
  <1>4. \A x \in patched : Reviewed(x) /\ Told(x, (diagnostics \cup found)')
    BY <1>1, ToldAgain DEF Converting
  <1>5. ASSUME NEW y \in patched', y \notin patched
        PROVE  Reviewed(y) /\ Told(y, (diagnostics \cup found)')
    <2>1. CASE y \in sources
      BY <1>3, <2>1, FreshIsReviewed
    <2>2. CASE y \notin sources
      <3>1. PICK x \in sources : \E o :
                /\ o # NoOverlay /\ ValidOverlay(o, x.source)
                /\ y = [x EXCEPT !.source = Patch(@, o.patch), !.overlay = o]
        <4>1. PICK x \in sources : \E o \in {NoOverlay} \cup Overlays(x.source) :
                \/ o = NoOverlay /\ patched' = patched \cup {x}
                \/ /\ o # NoOverlay /\ ValidOverlay(o, x.source)
                   /\ patched' = patched \cup {[x EXCEPT !.source = Patch(@, o.patch), !.overlay = o]}
                \/ patched' = patched
          BY DEF ApplyOverlay
        <4>2. QED
          BY <1>5, <2>2, <4>1
      <3>2. PICK o : /\ o # NoOverlay /\ ValidOverlay(o, x.source)
                     /\ y = [x EXCEPT !.source = Patch(@, o.patch), !.overlay = o]
        BY <3>1
      <3>3. Fresh(x)
        BY <1>3
      <3>4. /\ Reviewed(y)
            /\ y.source.id = x.source.id /\ y.source.origin = x.source.origin
        BY <3>2, <3>3, OverlaidIsReviewed
      <3>5. QED
        BY <1>3, <3>4 DEF Told
    <2>3. QED
      BY <2>1, <2>2
  <1>6. QED
    BY <1>2, <1>3, <1>4, <1>5

\* No other step changes a source, and none forgets a diagnostic.
LEMMA OthersConvert ==
  ASSUME Converting, UNCHANGED <<input, sources, patched>>,
         diagnostics \cup found \subseteq (diagnostics \cup found)'
  PROVE  Converting'
  BY ToldAgain DEF Converting

\* A run without an error diagnostic has a source for every file it may write.
LEMMA ValidateChecks ==
  ASSUME IInv, Validate
  PROVE  Checked'
  <1>1. files = {} /\ files' = {} /\ patched' = patched
    BY DEF IInv, Checked, Validate
  <1>2. ASSUME phase' = "writing", NEW x \in patched
        PROVE  ValidateSource(x.source)
    <2>1. ~HasErrors(diagnostics')
      BY <1>2 DEF Validate
    <2>2. ASSUME ~ValidateSource(x.source)
          PROVE  FALSE
      <3>1. Error(x.source.id) \in diagnostics'
        BY <2>2 DEF Validate
      <3>2. Error(x.source.id).severity = "error"
        BY DEF Error
      <3>3. QED
        BY <2>1, <3>1, <3>2 DEF HasErrors
    <2>3. QED
      BY <2>2
  <1>3. QED
    BY <1>1, <1>2 DEF Checked

\* Every step of the command keeps the invariant.
LEMMA Step ==
  ASSUME IInv, [Next]_importVars
  PROVE  IInv'
  <1>1. CASE ListFile \/ EndListing
    <2>1. Converting'
      BY <1>1, OthersConvert DEF IInv, ListFile, EndListing
    <2>2. Checked'
      BY <1>1 DEF IInv, Checked, ListFile, EndListing
    <2>3. Collected'
      BY <1>1 DEF IInv, Collected, ListFile, EndListing
    <2>4. QED
      BY <2>1, <2>2, <2>3 DEF IInv
  <1>2. CASE RefuseDocument
    <2>1. Converting'
      BY <1>2, OthersConvert DEF IInv, RefuseDocument
    <2>2. Checked'
      BY <1>2 DEF IInv, Checked, RefuseDocument
    <2>3. Collected'
      BY <1>2 DEF IInv, Collected, RefuseDocument
    <2>4. QED
      BY <2>1, <2>2, <2>3 DEF IInv
  <1>3. CASE ImportEntry
    <2>1. Converting'
      BY <1>3, EntryConverts DEF IInv
    <2>2. Checked'
      BY <1>3 DEF IInv, Checked, ImportEntry
    <2>3. Collected'
      BY <1>3 DEF IInv, Collected, ImportEntry
    <2>4. QED
      BY <2>1, <2>2, <2>3 DEF IInv
  <1>4. CASE EndDocument
    <2>1. Converting'
      BY <1>4, OthersConvert DEF IInv, EndDocument
    <2>2. Checked'
      BY <1>4 DEF IInv, Checked, EndDocument
    <2>3. Collected'
      BY <1>4 DEF IInv, Collected, EndDocument
    <2>4. QED
      BY <2>1, <2>2, <2>3 DEF IInv
  <1>5. CASE CheckDuplicates
    <2>1. Converting'
      BY <1>5, OthersConvert DEF IInv, CheckDuplicates
    <2>2. Checked'
      BY <1>5 DEF IInv, Checked, CheckDuplicates
    <2>3. Collected'
      BY <1>5 DEF IInv, Collected, CheckDuplicates
    <2>4. QED
      BY <2>1, <2>2, <2>3 DEF IInv
  <1>6. CASE ApplyOverlay
    <2>1. Converting'
      BY <1>6, OverlayConverts DEF IInv
    <2>2. Checked'
      BY <1>6 DEF IInv, Checked, ApplyOverlay
    <2>3. Collected'
      BY <1>6 DEF IInv, Collected, ApplyOverlay
    <2>4. QED
      BY <2>1, <2>2, <2>3 DEF IInv
  <1>7. CASE Validate
    <2>1. Converting'
      BY <1>7, OthersConvert DEF IInv, Validate
    <2>2. Checked'
      BY <1>7, ValidateChecks
    <2>3. Collected'
      BY <1>7 DEF IInv, Collected, Validate
    <2>4. QED
      BY <2>1, <2>2, <2>3 DEF IInv
  <1>8. CASE WriteSource
    <2>1. Converting'
      BY <1>8, OthersConvert DEF IInv, WriteSource
    <2>2. Checked'
      BY <1>8 DEF IInv, Checked, WriteSource
    <2>3. Collected'
      BY <1>8 DEF IInv, Collected, WriteSource
    <2>4. QED
      BY <2>1, <2>2, <2>3 DEF IInv
  <1>9. CASE WriteFails \/ Finish
    <2>1. Converting'
      BY <1>9, OthersConvert DEF IInv, WriteFails, Finish
    <2>2. Checked'
      BY <1>9 DEF IInv, Checked, WriteFails, Finish
    <2>3. Collected'
      BY <1>9 DEF IInv, Collected, WriteFails, Finish
    <2>4. QED
      BY <2>1, <2>2, <2>3 DEF IInv
  <1>10. CASE UNCHANGED importVars
    BY <1>10 DEF IInv, Converting, Checked, Collected, importVars
  <1>11. QED
    BY <1>1, <1>2, <1>3, <1>4, <1>5, <1>6, <1>7, <1>8, <1>9, <1>10 DEF Next

\* The invariant holds in every run of the command.
THEOREM Inductive == Spec => []IInv
  <1>1. Init => IInv
    BY DEF Init, IInv, Converting, Checked, Collected
  <1>2. IInv /\ [Next]_importVars => IInv'
    BY Step
  <1>3. QED
    BY <1>1, <1>2, PTL DEF Spec

-----------------------------------------------------------------------------
(* The second invariant: where every source comes from, and that the loops *)
(* leave no rule behind them without a source or an error.                 *)

Rule(from) == documents[from[1]].entries[from[2]]

\* The list has every document of the input that readImportInputs takes.
Listed ==
  /\ phase = "listing" => sources = {} /\ patched = {}
  /\ \A d \in DOMAIN documents : \E n \in DOMAIN input.documents : documents[d] = input.documents[n]
  /\ \A n \in DOMAIN input.documents : IsRules(input.documents[n]) /\ (phase = "listing" => n < place[1]) =>
       \E d \in DOMAIN documents : documents[d] = input.documents[n]

\* A converted source is one of those its rule can become, under an id of the rule.
FromRule(x) ==
  /\ x.from[1] \in DOMAIN documents /\ x.from[2] \in DOMAIN documents[x.from[1]].entries
  /\ Rule(x.from) # NoRule /\ RuleOK(Rule(x.from))
  /\ x = [source |-> x.source, from |-> x.from, overlay |-> NoOverlay]
  /\ x.source \in RuleSources(x.source.id, Rule(x.from))
  /\ x.source.id \in IDs(Rule(x.from), x.from[2])

\* An overlay it met, if any, was bound to its rule and left its identity alone.
Bound(x) ==
  /\ x.overlay # NoOverlay => x.overlay.digest \in {NoRule, x.source.origin}
  /\ x.source.origin = Rule(x.from)
  /\ x.source.kind = Kind(x.source.origin)
  /\ x.source.id \in IDs(Rule(x.from), x.from[2])

Origins == (\A x \in sources : FromRule(x)) /\ (\A x \in patched : Bound(x))

\* Rule e of document d has a source unless the run has an error.
Imported(d, e) ==
  \/ HasErrors(diagnostics \cup found)
  \/ \E x \in sources \cup patched : x.from = <<d, e>> /\ x.source.origin = documents[d].entries[e]

Passed(d, e) == phase = "reading" => d < place[1] \/ (d = place[1] /\ e < place[2])

Progress ==
  phase # "listing" =>
    \A d \in DOMAIN documents : \A e \in DOMAIN documents[d].entries : Passed(d, e) => Imported(d, e)

\* Files are written by a run without errors, each under an id of its own.
Writes ==
  /\ phase \in {"writing", "written"} \/ files # {} => ~HasErrors(diagnostics) /\ sources = {}
  /\ phase = "written" => files = patched
  /\ \A x, y \in files : x.source.id = y.source.id => x = y

\* What the conversion of a source had to say is said.
Reported ==
  \A x \in sources : \A w \in RuleWarnings(Rule(x.from)) : Warning(x.source.id, w) \in diagnostics \cup found

Whole == TypeOK /\ Listed /\ Origins /\ Progress /\ Writes /\ Reported

\* The origins of sources are a matter of the input, the documents and the sources.
LEMMA OriginsStay ==
  ASSUME Origins, UNCHANGED <<input, documents, sources, patched>>
  PROVE  Origins'
  <1>1. ASSUME NEW rule
        PROVE  (RuleOK(rule)' <=> RuleOK(rule)) /\ Kind(rule)' = Kind(rule) /\ Rule(rule)' = Rule(rule)
    BY Zenon DEF RuleOK, Kind, Rule
  <1>2. ASSUME NEW id, NEW rule
        PROVE  RuleSources(id, rule)' = RuleSources(id, rule)
    BY Zenon DEF RuleSources
  <1>3. ASSUME NEW x, FromRule(x)
        PROVE  FromRule(x)'
    BY <1>1, <1>2, <1>3, Zenon DEF FromRule
  <1>4. ASSUME NEW x, Bound(x)
        PROVE  Bound(x)'
    BY <1>1, <1>4, Zenon DEF Bound
  <1>5. QED
    BY <1>3, <1>4, Zenon DEF Origins

\* What was said stays said while no source is added.
LEMMA ReportedStays ==
  ASSUME Reported, UNCHANGED <<input, documents>>, sources' \subseteq sources,
         diagnostics \cup found \subseteq (diagnostics \cup found)'
  PROVE  Reported'
  <1>1. ASSUME NEW x
        PROVE  RuleWarnings(Rule(x.from))' = RuleWarnings(Rule(x.from))
    BY Zenon DEF RuleWarnings, Rule
  <1>2. \A x \in sources' : \A w \in RuleWarnings(Rule(x.from)) : Warning(x.source.id, w) \in (diagnostics \cup found)'
    BY DEF Reported
  <1>3. QED
    BY <1>1, <1>2 DEF Reported

\* The documents and entries the loops go through are lists.
LEMMA Lists ==
  ASSUME TypeOK
  PROVE  /\ documents \in Seq(Documents) /\ input.documents \in Seq(Documents)
         /\ Len(documents) \in Nat /\ DOMAIN documents = 1..Len(documents)
         /\ \A n \in DOMAIN input.documents : n \in Nat \ {0} /\ input.documents[n] \in Documents
         /\ \A d \in DOMAIN documents : /\ Len(documents[d].entries) \in Nat
                                        /\ DOMAIN documents[d].entries = 1..Len(documents[d].entries)
         /\ place[1] \in Nat \ {0} /\ place[2] \in Nat \ {0}
  <1>1. documents \in Seq(Documents) /\ input.documents \in Seq(Documents)
    BY InputsAssumption DEF TypeOK
  <1>2. ASSUME NEW d \in DOMAIN documents
        PROVE  /\ Len(documents[d].entries) \in Nat
               /\ DOMAIN documents[d].entries = 1..Len(documents[d].entries)
    <2>1. documents[d] \in Documents
      BY <1>1, <1>2
    <2>2. PICK S : documents[d].entries \in Seq(S)
      BY <2>1, InputsAssumption
    <2>3. QED
      BY <2>2
  <1>3. place[1] \in Nat \ {0} /\ place[2] \in Nat \ {0}
    BY DEF TypeOK
  <1>4. QED
    BY <1>1, <1>2, <1>3

\* An error diagnostic stays one when others join it.
LEMMA ErrorsStay ==
  ASSUME NEW ds, NEW es, ds \subseteq es, HasErrors(ds)
  PROVE  HasErrors(es)
  BY DEF HasErrors

\* Error makes a diagnostic that HasErrors sees.
LEMMA ErrorIsError ==
  ASSUME NEW ds, NEW id, Error(id) \in ds
  PROVE  HasErrors(ds)
  <1>1. Error(id).severity = "error"
    BY DEF Error
  <1>2. QED
    BY <1>1 DEF HasErrors

\* What was imported stays so when sources and diagnostics are only added to.
LEMMA ImportedStays ==
  ASSUME NEW d, NEW e, Imported(d, e), documents' = documents,
         diagnostics \cup found \subseteq (diagnostics \cup found)',
         \A x \in sources \cup patched : x \in sources' \cup patched'
  PROVE  Imported(d, e)'
  <1>1. CASE HasErrors(diagnostics \cup found)
    <2>1. HasErrors((diagnostics \cup found)')
      BY <1>1, ErrorsStay
    <2>2. QED
      BY <2>1 DEF Imported
  <1>2. CASE \E x \in sources \cup patched : x.from = <<d, e>> /\ x.source.origin = documents[d].entries[e]
    BY <1>2 DEF Imported
  <1>3. QED
    BY <1>1, <1>2 DEF Imported

\* The list of documents grows by the next document of the input.
LEMMA ListFileKeeps ==
  ASSUME Whole, ListFile
  PROVE  Whole'
  <1> DEFINE next == input.documents[place[1]]
  <1>0. /\ phase = "listing" /\ phase' = phase
        /\ place[1] \in DOMAIN input.documents /\ place' = <<place[1] + 1, 1>>
        /\ documents' = IF IsRules(next) THEN Append(documents, next) ELSE documents
        /\ UNCHANGED <<input, seen, found, sources, patched, diagnostics, files>>
    BY DEF ListFile
  <1>1. /\ documents \in Seq(Documents) /\ next \in Documents
        /\ place[1] \in Nat \ {0} /\ \A n \in DOMAIN input.documents : n \in Nat
    BY <1>0, Lists DEF Whole
  <1>2. documents' \in Seq(Documents)
    BY <1>0, <1>1
  <1>3. TypeOK'
    BY <1>0, <1>1, <1>2 DEF Whole, TypeOK
  <1>4. /\ \A d \in DOMAIN documents : d \in DOMAIN documents' /\ documents'[d] = documents[d]
        /\ \A d \in DOMAIN documents' : (d \in DOMAIN documents /\ documents'[d] = documents[d]) \/ documents'[d] = next
        /\ IsRules(next) => \E d \in DOMAIN documents' : documents'[d] = next
    <2>1. CASE IsRules(next)
      <3>1. documents' = Append(documents, next)
        BY <1>0, <2>1
      <3>2. /\ DOMAIN documents = 1..Len(documents) /\ Len(documents) \in Nat
            /\ DOMAIN documents' = 1..(Len(documents) + 1)
            /\ \A d \in 1..Len(documents) : documents'[d] = documents[d]
            /\ documents'[Len(documents) + 1] = next
        BY <3>1, <1>1
      <3>3. QED
        BY <3>2
    <2>2. CASE ~IsRules(next)
      BY <1>0, <2>2
    <2>3. QED
      BY <2>1, <2>2
  <1>5. Listed'
    <2>1. \A d \in DOMAIN documents' : \E n \in DOMAIN input.documents : documents'[d] = input.documents[n]
      BY <1>0, <1>4 DEF Whole, Listed
    <2>2. ASSUME NEW n \in DOMAIN input.documents, IsRules(input.documents[n]), n < place[1] + 1
          PROVE  \E d \in DOMAIN documents' : documents'[d] = input.documents[n]
      <3>1. CASE n = place[1]
        BY <1>4, <2>2, <3>1
      <3>2. CASE n < place[1]
        <4>1. PICK d \in DOMAIN documents : documents[d] = input.documents[n]
          BY <1>0, <2>2, <3>2 DEF Whole, Listed
        <4>2. QED
          BY <1>4, <4>1
      <3>3. QED
        BY <1>1, <2>2, <3>1, <3>2
    <2>3. sources' = {} /\ patched' = {}
      BY <1>0 DEF Whole, Listed
    <2>4. QED
      BY <1>0, <2>1, <2>2, <2>3 DEF Listed, IsRules
  <1>6. Origins' /\ Progress' /\ Writes' /\ Reported'
    BY <1>0, <1>5 DEF Whole, Origins, Progress, Writes, Listed, Reported
  <1>7. QED
    BY <1>3, <1>5, <1>6 DEF Whole

\* The loops over the documents begin with none of them passed.
LEMMA EndListingKeeps ==
  ASSUME Whole, EndListing
  PROVE  Whole'
  <1>0. /\ phase = "listing" /\ phase' = (IF documents = <<>> THEN "failed" ELSE "reading")
        /\ place[1] \notin DOMAIN input.documents /\ place' = <<1, 1>>
        /\ UNCHANGED <<input, documents, seen, found, sources, patched, diagnostics, files>>
    BY DEF EndListing
  <1>1. sources = {} /\ patched = {}
    BY <1>0 DEF Whole, Listed
  <1>2. TypeOK'
    BY <1>0 DEF Whole, TypeOK
  <1>3. Listed'
    BY <1>0, Lists DEF Whole, Listed, IsRules
  <1>4. Origins' /\ Writes' /\ Reported'
    BY <1>0, <1>1 DEF Whole, Origins, Writes, Reported
  <1>5. Progress'
    <2>1. ASSUME NEW d \in DOMAIN documents, NEW e \in DOMAIN documents[d].entries
          PROVE  ~Passed(d, e)'
      <3>1. documents # <<>>
        BY <2>1
      <3>2. QED
        BY <1>0, <2>1, <3>1, Lists DEF Passed, Whole
    <2>2. QED
      BY <1>0, <2>1 DEF Progress
  <1>6. QED
    BY <1>2, <1>3, <1>4, <1>5 DEF Whole

\* A document that is refused leaves an error for each of its rules.
LEMMA RefuseKeeps ==
  ASSUME Whole, IInv, RefuseDocument
  PROVE  Whole'
  <1>0. /\ phase = "reading" /\ place[1] \in DOMAIN documents /\ place' = <<place[1] + 1, 1>>
        /\ diagnostics' = diagnostics \cup {Error(NoRule)}
        /\ UNCHANGED <<input, documents, seen, found, sources, patched, files, phase>>
    BY DEF RefuseDocument
  <1>1. TypeOK'
    BY <1>0 DEF Whole, TypeOK
  <1>2. Listed'
    BY <1>0 DEF Whole, Listed, IsRules
  <1>3. Origins'
    BY <1>0, OriginsStay DEF Whole
  <1>4. HasErrors((diagnostics \cup found)')
    BY <1>0, ErrorIsError
  <1>5. Progress'
    BY <1>4 DEF Progress, Imported
  <1>6. Writes'
    BY <1>0 DEF Whole, Writes, IInv, Checked
  <1>7. Reported'
    BY <1>0, ReportedStays DEF Whole
  <1>8. QED
    BY <1>1, <1>2, <1>3, <1>5, <1>6, <1>7 DEF Whole

\* A rule that is passed leaves its source or an error: the error of an earlier
\* rule with its id is among those of the document.
LEMMA ImportKeeps ==
  ASSUME Whole, IInv, ImportEntry
  PROVE  Whole'
  <1> DEFINE rule == document.entries[place[2]]
             id == RuleID(rule, place[2])
             new == {x \in sources' : x \notin sources}
  <1>0. /\ phase = "reading" /\ place[1] \in DOMAIN documents /\ place' = <<place[1], place[2] + 1>>
        /\ place[2] \in 1..Len(document.entries)
        /\ UNCHANGED <<input, documents, patched, diagnostics, files, phase>>
    BY DEF ImportEntry
  <1>1. /\ place[2] \in DOMAIN documents[place[1]].entries
        /\ place[1] \in Nat \ {0} /\ place[2] \in Nat \ {0}
    BY <1>0, Lists DEF Whole, document
  <1>2. \/ sources' = sources /\ HasErrors(found')
        \/ /\ rule # NoRule /\ RuleOK(rule)
           /\ \E s \in RuleSources(id, rule) :
                sources' = sources \cup {[source |-> s, from |-> place, overlay |-> NoOverlay]}
           /\ {Warning(id, w) : w \in RuleWarnings(rule)} \subseteq found'
    <2>1. CASE rule = NoRule
      <3>1. Error(NoRule) \in found' /\ sources' = sources
        BY <2>1 DEF ImportEntry
      <3>2. QED
        BY <3>1, ErrorIsError
    <2>2. CASE rule # NoRule
      <3>1. /\ found' = found \cup (IF RuleOK(rule) THEN {Warning(id, w) : w \in RuleWarnings(rule)} ELSE {Error(id)})
            /\ IF RuleOK(rule) /\ Error(id) \notin found
               THEN \E s \in RuleSources(id, rule) :
                      sources' = sources \cup {[source |-> s, from |-> place, overlay |-> NoOverlay]}
               ELSE sources' = sources
        BY <2>2 DEF ImportEntry
      <3>2. CASE RuleOK(rule) /\ Error(id) \notin found
        BY <2>2, <3>1, <3>2
      <3>3. CASE ~(RuleOK(rule) /\ Error(id) \notin found)
        <4>1. Error(id) \in found' /\ sources' = sources
          BY <3>1, <3>3
        <4>2. QED
          BY <4>1, ErrorIsError
      <3>4. QED
        BY <3>2, <3>3
    <2>3. QED
      BY <2>1, <2>2
  <1>3. found \subseteq found' /\ sources \subseteq sources'
    <2>1. found \subseteq found'
      BY DEF ImportEntry
    <2>2. QED
      BY <1>2, <2>1
  <1>4. ASSUME NEW x \in sources', x \notin sources
        PROVE  /\ x.from = place
               /\ x = [source |-> x.source, from |-> x.from, overlay |-> NoOverlay]
               /\ x.source.id = id /\ x.source.origin = rule /\ id \in IDs(rule, place[2])
               /\ rule # NoRule /\ RuleOK(rule) /\ x.source \in RuleSources(id, rule)
               /\ {Warning(id, w) : w \in RuleWarnings(rule)} \subseteq found'
    <2>1. rule # NoRule /\ RuleOK(rule)
      BY <1>2, <1>4
    <2>2. PICK s \in RuleSources(id, rule) : x = [source |-> s, from |-> place, overlay |-> NoOverlay]
      BY <1>2, <1>4
    <2>3. x.source = s /\ x.from = place
      BY <2>2
    <2>4. s.id = id /\ s.origin = rule
      BY <2>1, <2>2, ConvertedFields DEF Whole
    <2>5. id \in IDs(rule, place[2])
      BY DEF RuleID, IDs
    <2>6. {Warning(id, w) : w \in RuleWarnings(rule)} \subseteq found'
      BY <1>2, <1>4
    <2>7. QED
      BY <2>1, <2>2, <2>3, <2>4, <2>5, <2>6
  <1>5. TypeOK'
    <2>1. \A x \in sources' \cup patched' : x.from \in (Nat \ {0}) \X (Nat \ {0})
      BY <1>0, <1>4 DEF Whole, TypeOK
    <2>2. place' \in (Nat \ {0}) \X (Nat \ {0})
      BY <1>0, <1>1
    <2>3. QED
      BY <1>0, <2>1, <2>2 DEF Whole, TypeOK
  <1>6. Listed'
    BY <1>0 DEF Whole, Listed, IsRules
  <1>7. Origins'
    <2>1. \A x \in sources : FromRule(x)'
      BY <1>0 DEF Whole, Origins, FromRule, Rule, RuleOK, RuleSources
    <2>2. ASSUME NEW x \in sources', x \notin sources
          PROVE  FromRule(x)'
      <3>1. Rule(x.from) = rule
        BY <1>4, <2>2 DEF Rule, document
      <3>2. FromRule(x)
        BY <1>0, <1>1, <1>4, <2>2, <3>1 DEF FromRule
      <3>3. QED
        BY <1>0, <3>2 DEF FromRule, Rule, RuleOK, RuleSources
    <2>3. \A x \in patched' : Bound(x)'
      BY <1>0 DEF Whole, Origins, Bound, Rule, Kind
    <2>4. QED
      BY <2>1, <2>2, <2>3 DEF Origins
  <1>8. Progress'
    <2>1. ASSUME NEW d \in DOMAIN documents, NEW e \in DOMAIN documents[d].entries, Passed(d, e)'
          PROVE  Imported(d, e)'
      <3>1. CASE Passed(d, e)
        <4>1. Imported(d, e)
          BY <1>0, <2>1, <3>1 DEF Whole, Progress
        <4>2. QED
          BY <1>0, <1>3, <4>1, ImportedStays
      <3>2. CASE ~Passed(d, e)
        <4>1. d = place[1] /\ e = place[2]
          BY <1>0, <1>1, <2>1, <3>2, Lists DEF Passed, Whole
        <4>2. CASE sources' = sources /\ HasErrors(found')
          <5>1. HasErrors((diagnostics \cup found)')
            BY <4>2, ErrorsStay
          <5>2. QED
            BY <5>1 DEF Imported
        <4>3. CASE \E s \in RuleSources(id, rule) :
                     sources' = sources \cup {[source |-> s, from |-> place, overlay |-> NoOverlay]}
          <5>1. PICK s : [source |-> s, from |-> place, overlay |-> NoOverlay] \in sources'
            BY <4>3
          <5> DEFINE x == [source |-> s, from |-> place, overlay |-> NoOverlay]
          <5>2. x \in sources' /\ x.from = place
            BY <5>1
          <5>3. x.source.origin = rule
            <6>1. CASE x \in sources
              <7>1. FromRule(x)
                BY <6>1 DEF Whole, Origins
              <7>2. x.source.origin = Rule(x.from)
                BY <7>1, ConvertedFields DEF FromRule, Whole
              <7>3. QED
                BY <5>2, <7>2 DEF Rule, document
            <6>2. CASE x \notin sources
              BY <1>4, <5>2, <6>2
            <6>3. QED
              BY <6>1, <6>2
          <5>4. place = <<d, e>> /\ rule = documents[d].entries[e]
            BY <4>1 DEF Whole, TypeOK, document
          <5>5. QED
            BY <1>0, <5>2, <5>3, <5>4 DEF Imported
        <4>4. QED
          BY <1>2, <4>2, <4>3
      <3>3. QED
        BY <3>1, <3>2
    <2>2. QED
      BY <1>0, <2>1 DEF Progress
  <1>9. Writes'
    BY <1>0 DEF Whole, Writes, IInv, Checked
  <1>10. Reported'
    <2>1. \A x : RuleWarnings(Rule(x.from))' = RuleWarnings(Rule(x.from))
      BY <1>0, Zenon DEF RuleWarnings, Rule
    <2>2. ASSUME NEW x \in sources', NEW w \in RuleWarnings(Rule(x.from))
          PROVE  Warning(x.source.id, w) \in (diagnostics \cup found)'
      <3>1. CASE x \in sources
        BY <1>0, <1>3, <2>2, <3>1 DEF Whole, Reported
      <3>2. CASE x \notin sources
        <4>1. Rule(x.from) = rule
          BY <1>4, <3>2 DEF Rule, document
        <4>2. Warning(id, w) \in found'
          BY <1>4, <2>2, <3>2, <4>1
        <4>3. QED
          BY <1>4, <3>2, <4>2
      <3>3. QED
        BY <3>1, <3>2
    <2>3. QED
      BY <2>1, <2>2 DEF Reported
  <1>11. QED
    BY <1>5, <1>6, <1>7, <1>8, <1>9, <1>10 DEF Whole

\* The end of a document: its diagnostics join those of the run.
LEMMA EndDocumentKeeps ==
  ASSUME Whole, IInv, EndDocument
  PROVE  Whole'
  <1>0. /\ phase = "reading" /\ place[1] \in DOMAIN documents /\ place' = <<place[1] + 1, 1>>
        /\ place[2] > Len(documents[place[1]].entries)
        /\ (diagnostics \cup found)' = diagnostics \cup found
        /\ UNCHANGED <<input, documents, sources, patched, files, phase>>
    BY DEF EndDocument, document
  <1>1. TypeOK'
    BY <1>0 DEF Whole, TypeOK
  <1>2. Listed'
    BY <1>0 DEF Whole, Listed, IsRules
  <1>3. Origins'
    BY <1>0, OriginsStay DEF Whole
  <1>4. Progress'
    <2>1. ASSUME NEW d \in DOMAIN documents, NEW e \in DOMAIN documents[d].entries, Passed(d, e)'
          PROVE  Imported(d, e)'
      <3>1. Passed(d, e)
        BY <1>0, <2>1, Lists DEF Passed, Whole
      <3>2. Imported(d, e)
        BY <1>0, <2>1, <3>1 DEF Whole, Progress
      <3>3. QED
        BY <1>0, <3>2, ImportedStays
    <2>2. QED
      BY <1>0, <2>1 DEF Progress
  <1>5. Writes'
    BY <1>0 DEF Whole, Writes, IInv, Checked
  <1>6. Reported'
    BY <1>0, ReportedStays DEF Whole
  <1>7. QED
    BY <1>1, <1>2, <1>3, <1>4, <1>5, <1>6 DEF Whole

\* After the last document every rule of every document is passed.
LEMMA CheckDuplicatesKeeps ==
  ASSUME Whole, IInv, CheckDuplicates
  PROVE  Whole'
  <1>0. /\ phase = "reading" /\ phase' = "overlays" /\ place[1] \notin DOMAIN documents
        /\ diagnostics \subseteq diagnostics'
        /\ UNCHANGED <<input, documents, place, seen, found, sources, patched, files>>
    BY DEF CheckDuplicates
  <1>1. TypeOK'
    BY <1>0 DEF Whole, TypeOK
  <1>2. Listed'
    BY <1>0 DEF Whole, Listed, IsRules
  <1>3. Origins'
    BY <1>0, OriginsStay DEF Whole
  <1>4. Progress'
    <2>1. ASSUME NEW d \in DOMAIN documents, NEW e \in DOMAIN documents[d].entries
          PROVE  Imported(d, e)'
      <3>1. Passed(d, e)
        BY <1>0, <2>1, Lists DEF Passed, Whole
      <3>2. Imported(d, e)
        BY <1>0, <2>1, <3>1 DEF Whole, Progress
      <3>3. QED
        BY <1>0, <3>2, ImportedStays
    <2>2. QED
      BY <1>0, <2>1 DEF Progress
  <1>5. Writes'
    BY <1>0 DEF Whole, Writes, IInv, Checked
  <1>6. Reported'
    BY <1>0, ReportedStays DEF Whole
  <1>7. QED
    BY <1>1, <1>2, <1>3, <1>4, <1>5, <1>6 DEF Whole

\* A valid overlay leaves the id, the kind and the origin of a source, and keeps the
\* place it is from.
LEMMA OverlaidIsBound ==
  ASSUME TypeOK, NEW x, FromRule(x), NEW o, o # NoOverlay, ValidOverlay(o, x.source),
         NEW y, y = [x EXCEPT !.source = Patch(@, o.patch), !.overlay = o]
  PROVE  Bound(y) /\ y.from = x.from /\ y.source.origin = x.source.origin
  <1>1. DOMAIN x = {"source", "from", "overlay"}
    BY DEF FromRule
  <1>2. y.source = Patch(x.source, o.patch) /\ y.overlay = o /\ y.from = x.from
    BY <1>1
  <1>3. /\ {"id", "kind", "origin"} \subseteq DOMAIN x.source
        /\ x.source.origin = Rule(x.from) /\ x.source.kind = Kind(Rule(x.from))
        /\ x.source.id \in IDs(Rule(x.from), x.from[2])
    BY ConvertedFields DEF FromRule
  <1>4. {"id", "kind", "origin"} \cap DOMAIN o.patch = {}
    BY DEF ValidOverlay, Immutable
  <1>5. y.source.id = x.source.id /\ y.source.kind = x.source.kind /\ y.source.origin = x.source.origin
    BY <1>2, <1>3, <1>4 DEF Patch
  <1>6. o.digest \in {NoRule, x.source.origin}
    BY DEF ValidOverlay
  <1>7. QED
    BY <1>2, <1>3, <1>5, <1>6 DEF Bound

\* A source without an overlay is bound to its rule too.
LEMMA UnpatchedIsBound ==
  ASSUME TypeOK, NEW x, FromRule(x)
  PROVE  Bound(x)
  <1>1. x.overlay = NoOverlay
    BY DEF FromRule
  <1>2. /\ x.source.origin = Rule(x.from) /\ x.source.kind = Kind(Rule(x.from))
        /\ x.source.id \in IDs(Rule(x.from), x.from[2])
    BY ConvertedFields DEF FromRule
  <1>3. QED
    BY <1>1, <1>2 DEF Bound

\* A source goes from the converted to the patched ones, or its overlay is an error.
LEMMA OverlayKeeps ==
  ASSUME Whole, IInv, ApplyOverlay
  PROVE  Whole'
  <1>0. /\ phase = "overlays" /\ diagnostics \subseteq diagnostics'
        /\ patched \subseteq patched' /\ sources' \subseteq sources
        /\ UNCHANGED <<input, documents, place, seen, found, files, phase>>
    BY DEF ApplyOverlay
  <1>1. PICK x \in sources : \E o \in {NoOverlay} \cup Overlays(x.source) :
          /\ sources' = sources \ {x}
          /\ \/ o = NoOverlay /\ patched' = patched \cup {x}
             \/ /\ o # NoOverlay /\ ValidOverlay(o, x.source)
                /\ patched' = patched \cup {[x EXCEPT !.source = Patch(@, o.patch), !.overlay = o]}
             \/ patched' = patched /\ diagnostics' = diagnostics \cup {Error(x.source.id)}
    BY DEF ApplyOverlay
  <1>2. FromRule(x) /\ TypeOK
    BY DEF Whole, Origins
  <1>3. \/ patched' = patched /\ HasErrors(diagnostics')
        \/ \E y : /\ patched' = patched \cup {y}
                  /\ Bound(y) /\ y.from = x.from /\ y.source.origin = x.source.origin
    <2>1. PICK o : \/ o = NoOverlay /\ patched' = patched \cup {x}
                   \/ /\ o # NoOverlay /\ ValidOverlay(o, x.source)
                      /\ patched' = patched \cup {[x EXCEPT !.source = Patch(@, o.patch), !.overlay = o]}
                   \/ patched' = patched /\ diagnostics' = diagnostics \cup {Error(x.source.id)}
      BY <1>1
    <2>2. CASE o = NoOverlay /\ patched' = patched \cup {x}
      BY <1>2, <2>2, UnpatchedIsBound
    <2>3. CASE /\ o # NoOverlay /\ ValidOverlay(o, x.source)
               /\ patched' = patched \cup {[x EXCEPT !.source = Patch(@, o.patch), !.overlay = o]}
      <3> DEFINE y == [x EXCEPT !.source = Patch(@, o.patch), !.overlay = o]
      <3>1. Bound(y) /\ y.from = x.from /\ y.source.origin = x.source.origin
        BY <1>2, <2>3, OverlaidIsBound
      <3>2. QED
        BY <2>3, <3>1
    <2>4. CASE patched' = patched /\ diagnostics' = diagnostics \cup {Error(x.source.id)}
      <3>1. Error(x.source.id) \in diagnostics'
        BY <2>4
      <3>2. QED
        BY <2>4, <3>1, ErrorIsError
    <2>5. QED
      BY <2>1, <2>2, <2>3, <2>4
  <1>4. \A y \in patched' : y \in patched \/ (Bound(y) /\ y.from = x.from)
    BY <1>3
  <1>5. TypeOK'
    <2>1. \A y \in sources' \cup patched' : y.from \in (Nat \ {0}) \X (Nat \ {0})
      BY <1>0, <1>4 DEF Whole, TypeOK
    <2>2. QED
      BY <1>0, <2>1 DEF Whole, TypeOK
  <1>6. Listed'
    BY <1>0 DEF Whole, Listed, IsRules
  <1>7. Origins'
    <2>1. \A y \in sources' : FromRule(y)'
      <3>1. \A y \in sources' : FromRule(y)
        BY <1>0 DEF Whole, Origins
      <3>2. QED
        BY <1>0, <3>1 DEF FromRule, Rule, RuleOK, RuleSources
    <2>2. \A y \in patched' : Bound(y)
      BY <1>4 DEF Whole, Origins
    <2>3. \A y \in patched' : Bound(y)'
      BY <1>0, <2>2 DEF Bound, Rule, Kind
    <2>4. QED
      BY <2>1, <2>3 DEF Origins
  <1>8. Progress'
    <2>1. ASSUME NEW d \in DOMAIN documents, NEW e \in DOMAIN documents[d].entries
          PROVE  Imported(d, e)'
      <3>1. Imported(d, e)
        BY <1>0, <2>1 DEF Whole, Progress, Passed
      <3>2. CASE HasErrors(diagnostics \cup found) \/ HasErrors(diagnostics')
        <4>1. HasErrors((diagnostics \cup found)')
          BY <1>0, <3>2, ErrorsStay
        <4>2. QED
          BY <4>1 DEF Imported
      <3>3. CASE ~(HasErrors(diagnostics \cup found) \/ HasErrors(diagnostics'))
        <4>1. PICK y : /\ patched' = patched \cup {y}
                       /\ y.from = x.from /\ y.source.origin = x.source.origin
          BY <1>3, <3>3
        <4>2. PICK z \in sources \cup patched : z.from = <<d, e>> /\ z.source.origin = documents[d].entries[e]
          BY <3>1, <3>3 DEF Imported
        <4>3. CASE z = x
          BY <1>0, <4>1, <4>2, <4>3 DEF Imported
        <4>4. CASE z # x
          BY <1>0, <1>1, <4>2, <4>4 DEF Imported
        <4>5. QED
          BY <4>3, <4>4
      <3>4. QED
        BY <3>2, <3>3
    <2>2. QED
      BY <1>0, <2>1 DEF Progress
  <1>9. Writes'
    BY <1>0 DEF Whole, Writes, IInv, Checked
  <1>10. Reported'
    BY <1>0, ReportedStays DEF Whole
  <1>11. QED
    BY <1>5, <1>6, <1>7, <1>8, <1>9, <1>10 DEF Whole

\* A run goes on to write only without errors.
LEMMA ValidateKeeps ==
  ASSUME Whole, IInv, Validate
  PROVE  Whole'
  <1>0. /\ phase = "overlays" /\ sources = {} /\ phase' \in {"refused", "writing"}
        /\ phase' = "writing" => ~HasErrors(diagnostics')
        /\ diagnostics \subseteq diagnostics'
        /\ UNCHANGED <<input, documents, place, seen, found, sources, patched, files>>
    BY DEF Validate
  <1>1. TypeOK'
    BY <1>0 DEF Whole, TypeOK
  <1>2. Listed'
    BY <1>0 DEF Whole, Listed, IsRules
  <1>3. Origins'
    BY <1>0, OriginsStay DEF Whole
  <1>4. Progress'
    <2>1. ASSUME NEW d \in DOMAIN documents, NEW e \in DOMAIN documents[d].entries
          PROVE  Imported(d, e)'
      <3>1. Imported(d, e)
        BY <1>0, <2>1 DEF Whole, Progress, Passed
      <3>2. QED
        BY <1>0, <3>1, ImportedStays
    <2>2. QED
      BY <1>0, <2>1 DEF Progress
  <1>5. files = {}
    BY <1>0 DEF IInv, Checked
  <1>6. Writes'
    BY <1>0, <1>5 DEF Whole, Writes
  <1>7. Reported'
    BY <1>0, ReportedStays DEF Whole
  <1>8. QED
    BY <1>1, <1>2, <1>3, <1>4, <1>6, <1>7 DEF Whole

\* The writes change nothing but the files.
LEMMA WritingKeeps ==
  ASSUME Whole, IInv, WriteSource \/ WriteFails \/ Finish
  PROVE  Whole'
  <1>0. /\ phase = "writing" /\ phase' \in {"writing", "failed", "written"}
        /\ UNCHANGED <<input, documents, place, seen, found, sources, patched, diagnostics>>
    BY DEF WriteSource, WriteFails, Finish
  <1>1. TypeOK'
    <2>1. files' \subseteq patched
      BY DEF Whole, TypeOK, WriteSource, WriteFails, Finish
    <2>2. QED
      BY <1>0, <2>1 DEF Whole, TypeOK
  <1>2. Listed'
    BY <1>0 DEF Whole, Listed, IsRules
  <1>3. Origins'
    BY <1>0, OriginsStay DEF Whole
  <1>4. Progress'
    BY <1>0 DEF Whole, Progress, Passed, Imported
  <1>5. Writes'
    <2>1. ~HasErrors(diagnostics) /\ sources = {}
      BY <1>0 DEF Whole, Writes
    <2>2. \A x, y \in files' : x.source.id = y.source.id => x = y
      BY DEF Whole, Writes, WriteSource, WriteFails, Finish
    <2>3. phase' = "written" => files' = patched'
      BY DEF WriteSource, WriteFails, Finish
    <2>4. QED
      BY <1>0, <2>1, <2>2, <2>3 DEF Writes
  <1>6. Reported'
    BY <1>0, ReportedStays DEF Whole
  <1>7. QED
    BY <1>1, <1>2, <1>3, <1>4, <1>5, <1>6 DEF Whole

\* Both invariants hold in every run of the command.
THEOREM ImportsAreWhole == Spec => [](IInv /\ Whole)
  <1>1. Init => Whole
    <2> SUFFICES ASSUME Init PROVE Whole
      OBVIOUS
    <2>1. /\ input \in Inputs /\ documents = <<>> /\ place = <<1, 1>> /\ phase = "listing"
          /\ found = {} /\ sources = {} /\ patched = {} /\ diagnostics = {} /\ files = {}
      BY DEF Init
    <2>2. TypeOK
      BY <2>1 DEF TypeOK
    <2>3. Listed
      BY <2>1, <2>2, Lists DEF Listed
    <2>4. Origins /\ Progress /\ Writes /\ Reported
      BY <2>1 DEF Origins, Progress, Writes, Reported
    <2>5. QED
      BY <2>2, <2>3, <2>4 DEF Whole
  <1>2. IInv /\ Whole /\ [Next]_importVars => Whole'
    <2> SUFFICES ASSUME IInv, Whole, [Next]_importVars PROVE Whole'
      OBVIOUS
    <2>1. CASE UNCHANGED importVars
      <3>1. TypeOK' /\ Listed' /\ Writes'
        BY <2>1 DEF importVars, Whole, TypeOK, Listed, IsRules, Writes
      <3>2. Origins'
        BY <2>1, OriginsStay DEF importVars, Whole
      <3>3. Progress'
        BY <2>1 DEF importVars, Whole, Progress, Passed, Imported
      <3>4. Reported'
        BY <2>1, ReportedStays DEF importVars, Whole
      <3>5. QED
        BY <3>1, <3>2, <3>3, <3>4 DEF Whole
    <2>2. QED
      BY <2>1, ListFileKeeps, EndListingKeeps, RefuseKeeps, ImportKeeps, EndDocumentKeeps, CheckDuplicatesKeeps,
         OverlayKeeps, ValidateKeeps, WritingKeeps DEF Next
  <1>3. QED
    BY <1>1, <1>2, Inductive, PTL DEF Spec

-----------------------------------------------------------------------------
(* The theorems                                                            *)

\* An imported Kazumi rule that was deprecated, needs a captcha helper or sent a
\* credential is on only by a reviewer's overlay, a warning for each of these reasons
\* is in the report, and no file has a credential.
THEOREM UnsafeRulesStayOff == Spec => []UnsafeStaysOff
  <1>1. ASSUME IInv
        PROVE  UnsafeStaysOff
    <2>1. \A x \in files : x.source.headers \cap {"authorization", "cookie"} = {}
      BY <1>1 DEF IInv, Checked, ValidateSource, LintRequests
    <2>2. files # {} => found = {}
      BY <1>1 DEF IInv, Checked, Collected
    <2>3. ASSUME input.ecosystem = "kazumi", NEW x \in files
          PROVE  Reviewed(x) /\ Told(x, diagnostics)
      <3>1. x \in patched
        BY <1>1, <2>3 DEF IInv, Checked
      <3>2. Reviewed(x) /\ Told(x, diagnostics \cup found)
        BY <1>1, <2>3, <3>1 DEF IInv, Converting
      <3>3. diagnostics \cup found = diagnostics
        BY <2>2, <2>3
      <3>4. QED
        BY <3>2, <3>3
    <2>4. QED
      BY <2>1, <2>3 DEF UnsafeStaysOff, Reviewed, Told, Unsafe
  <1>2. QED
    BY <1>1, Inductive, PTL

\* The site an imported Kazumi rule leads to and the page of its episodes are open to
\* its own resolver, unless a reviewer's overlay says otherwise.
THEOREM LinksAreOpen == Spec => []LinksStayInside
  <1>1. ASSUME IInv
        PROVE  LinksStayInside
    <2>1. \A x \in files : x \in patched
      BY <1>1 DEF IInv, Checked
    <2>2. input.ecosystem = "kazumi" => \A x \in files : Reviewed(x)
      BY <1>1, <2>1 DEF IInv, Converting
    <2>3. QED
      BY <2>2 DEF LinksStayInside, Reviewed, Reaches
  <1>2. QED
    BY <1>1, Inductive, PTL

\* A run that ends without an error has written a file for every rule of every
\* document of its input; a run with an error diagnostic writes none; no two files have
\* one id.
THEOREM ImportsAreAllOrNothing == Spec => []AllOrNothing
  <1>1. ASSUME IInv, Whole
        PROVE  AllOrNothing
    <2>1. files # {} => phase \in {"writing", "failed", "written"} /\ ~HasErrors(diagnostics)
      BY <1>1 DEF IInv, Checked, Whole, Writes
    <2>2. \A x, y \in files : x.source.id = y.source.id => x = y
      BY <1>1 DEF Whole, Writes
    <2>3. ASSUME phase = "written"
          PROVE  \A n \in DOMAIN input.documents : IsRules(input.documents[n]) =>
                   \E d \in DOMAIN documents : documents[d] = input.documents[n]
      BY <1>1, <2>3 DEF Whole, Listed
    <2>4. ASSUME phase = "written", NEW d \in DOMAIN documents, NEW e \in DOMAIN documents[d].entries
          PROVE  \E x \in files : x.from = <<d, e>> /\ x.source.origin = documents[d].entries[e]
      <3>1. Imported(d, e)
        BY <1>1, <2>4 DEF Whole, Progress, Passed
      <3>2. found = {} /\ ~HasErrors(diagnostics) /\ sources = {} /\ files = patched
        BY <1>1, <2>4 DEF IInv, Collected, Whole, Writes
      <3>3. diagnostics \cup found = diagnostics /\ sources \cup patched = files
        BY <3>2
      <3>4. QED
        BY <3>1, <3>2, <3>3 DEF Imported
    <2>5. QED
      BY <2>1, <2>2, <2>3, <2>4 DEF AllOrNothing
  <1>2. QED
    BY <1>1, ImportsAreWhole, PTL

\* What an import has read, written and kept is of its type: a list of documents, of
\* sources made of them and of files made of those.
THEOREM TypeCorrect == Spec => []TypeOK
  <1>1. Whole => TypeOK
    BY DEF Whole
  <1>2. QED
    BY <1>1, ImportsAreWhole, PTL

\* Every file comes from the rule at its place, under no overlay that is bound to
\* another version of that rule.
THEOREM OverlaysAreBound == Spec => []OverlaysBind
  <1>1. ASSUME IInv, Whole
        PROVE  OverlaysBind
    <2>1. \A x \in files : Bound(x)
      BY <1>1 DEF Whole, Origins, TypeOK
    <2>2. QED
      BY <2>1 DEF OverlaysBind, Bound, Rule, Kind
  <1>2. QED
    BY <1>1, ImportsAreWhole, PTL

\* The Animeko rule of a source that has been converted, and the source made of it.
LEMMA AnimekoConverted ==
  ASSUME Whole, input.ecosystem = "animeko", NEW x \in sources
  PROVE  LET rule == Rule(x.from) IN
         /\ x.source = AnimekoSource(x.source.id, rule)
         /\ rule.factory \in {"rss", "web-selector"}
         /\ {rule.tier, rule.titleCount, rule.interval, rule.cacheTTL} \cup rule.channelTiers \subseteq Int
  <1> DEFINE rule == Rule(x.from)
  <1>1. FromRule(x) /\ input \in Inputs
    BY DEF Whole, Origins, TypeOK
  <1>2. RuleOK(rule) /\ rule # NoRule /\ x.source \in RuleSources(x.source.id, rule)
    BY <1>1 DEF FromRule
  <1>3. RuleSources(x.source.id, rule) = {AnimekoSource(x.source.id, rule)}
    BY Zenon DEF RuleSources
  <1>4. AnimekoOK(rule)
    BY <1>2, Zenon DEF RuleOK
  <1>5. rule.factory \in {"rss", "web-selector"}
    BY <1>4 DEF AnimekoOK
  <1>6. PICK n \in DOMAIN input.documents :
          /\ documents[x.from[1]] = input.documents[n]
          /\ x.from[2] \in DOMAIN input.documents[n].entries
          /\ rule = input.documents[n].entries[x.from[2]]
    BY <1>1 DEF Whole, Listed, FromRule, Rule
  <1>7. {rule.tier, rule.titleCount, rule.interval, rule.cacheTTL} \cup rule.channelTiers \subseteq Int
    BY <1>1, <1>2, <1>6, NumbersAssumption
  <1>8. QED
    BY <1>2, <1>3, <1>5, <1>7

\* Whatever numbers and patterns a Kazumi or an Animeko rule has, its document passes
\* the schema if its URLs are HTTP, and what an Animeko document lacks of its rule's
\* tier, lifetime and patterns is reported.
THEOREM ConversionsFit == Spec => []ConversionFits
  <1>1. ASSUME Whole, input.ecosystem # "nagare-v1", NEW x \in sources,
               x.source.sites \subseteq {"http"}, \A r \in x.source.requests : r.scheme = "http"
        PROVE  InSchema(x.source) /\ LintRegexes(x.source)
    <2>1. FromRule(x) /\ input.ecosystem \in {"kazumi", "animeko"}
      BY <1>1, InputsAssumption DEF Whole, Origins, TypeOK
    <2>2. CASE input.ecosystem = "kazumi"
      <3>1. RuleSources(x.source.id, Rule(x.from)) = {KazumiSource(x.source.id, Rule(x.from))}
        BY <2>2, Zenon DEF RuleSources
      <3>2. x.source = KazumiSource(x.source.id, Rule(x.from))
        BY <2>1, <3>1 DEF FromRule
      <3>3. QED
        BY <1>1, <3>2, KazumiFits
    <2>3. CASE input.ecosystem = "animeko"
      BY <1>1, <2>3, AnimekoConverted, AnimekoFits
    <2>4. QED
      BY <2>1, <2>2, <2>3
  <1>2. ASSUME Whole, input.ecosystem = "animeko", NEW x \in sources, NEW w \in Altered(x.source)
        PROVE  Warning(x.source.id, w) \in diagnostics \cup found
    <2>1. w \in AnimekoWarnings(Rule(x.from))
      BY <1>2, AnimekoConverted, AlteredIsWarnedOf
    <2>2. RuleWarnings(Rule(x.from)) = AnimekoWarnings(Rule(x.from))
      BY <1>2, Zenon DEF RuleWarnings
    <2>3. QED
      BY <1>2, <2>1, <2>2 DEF Whole, Reported
  <1>3. Whole => ConversionFits
    BY <1>1, <1>2 DEF ConversionFits
  <1>4. QED
    BY <1>3, ImportsAreWhole, PTL
=============================================================================
