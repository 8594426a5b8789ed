---------------------------- MODULE MCPublishing ----------------------------
(***************************************************************************)
(* Two kinds of plans.  The narrow ones take every response of two items   *)
(* of fifteen kinds through four sets of field definitions of a BT source *)
(* once, or every page of two lines through four stages of a web source.   *)
(* The wide ones take two sources through six commands, with an edit of    *)
(* the repository between two of them.                                     *)
(***************************************************************************)
EXTENDS RulePipeline

-----------------------------------------------------------------------------
(* Field definitions                                                       *)

Of(type, at, transforms, required) ==
  [type |-> type, at |-> at, of |-> <<>>, transforms |-> transforms, required |-> required]

AnyOf(alternatives, required) ==
  [type |-> "any", at |-> "", of |-> alternatives, transforms |-> <<>>, required |-> required]

Plain(type) == [type |-> type, value |-> Blank, name |-> ""]

TitleField   == Of("item", "title", <<>>, TRUE)
EpisodeField == Of("field", "title", <<Plain("parse_episode")>>, FALSE)

\* A feed of magnets, and a feed of the addresses of .torrent files.
MagnetFeed ==
  [title |-> TitleField, episode |-> EpisodeField, magnet |-> Of("item", "link", <<>>, TRUE)]

TorrentFeed ==
  [title |-> TitleField, episode |-> EpisodeField,
   torrent_url |-> Of("item", "link", <<Plain("absolute_url")>>, FALSE),
   info_hash   |-> Of("item", "hash", <<Plain("normalize_infohash")>>, FALSE)]

\* A page with one link, whose magnet is put together from the infohash.
ComposedFeed ==
  [title |-> TitleField, episode |-> EpisodeField,
   download_url |-> AnyOf(<<Of("field", "magnet", <<>>, TRUE), Of("item", "link", <<>>, TRUE)>>, TRUE),
   info_hash    |-> Of("item", "hash", <<Plain("normalize_infohash")>>, TRUE),
   magnet       |-> Of("field", "info_hash", <<[Plain("magnet") EXCEPT !.name = "title"]>>, FALSE)]

\* Two fields that refer to each other.
CircularFeed ==
  [title |-> TitleField,
   magnet   |-> AnyOf(<<Of("item", "link", <<>>, TRUE), Of("field", "download_url", <<>>, TRUE)>>, TRUE),
   download_url |-> Of("field", "magnet", <<[Plain("default") EXCEPT !.value = Text("magnet", 1)]>>, FALSE)]

-----------------------------------------------------------------------------
(* Sources and responses                                                   *)

Source(id, definitions) ==
  [id |-> id, kind |-> "bt", enabled |-> TRUE, valid |-> TRUE, request |-> TRUE,
   definitions |-> definitions, matching |-> [episode |-> TRUE, subject |-> TRUE],
   selftest |-> [query |-> TRUE, episode |-> 1, minimum |-> 1, torrent |-> TRUE]]

Found(texts) == [ok |-> TRUE, values |-> texts]

ItemOf(title, link, hash) == [title |-> Found(title), link |-> Found(link), hash |-> Found(hash)]

T(n) == <<Text("title", n)>>
M(n) == <<Text("magnet", n)>>
U(n) == <<Text("url", n)>>
H(n) == <<Text("hash", n)>>

Items == {
  ItemOf(T(1), M(1), H(1)),
  ItemOf(<<Text("offtopic", 1)>>, M(1), H(1)),
  ItemOf(T(2), M(1), <<Text("base32", 1)>>),
  ItemOf(T(-2), M(2), H(2)),
  ItemOf(T(1), U(1), H(1)),
  ItemOf(T(1), U(3), <<>>),
  ItemOf(T(2), <<Text("link", 3)>>, <<>>),
  ItemOf(T(1), U(4), <<>>),
  ItemOf(T(2), U(5), <<Text("base32", 1)>>),
  ItemOf(T(0), M(2), H(1)),
  ItemOf(<<Text("marks", 0)>>, M(3), H(3)),
  ItemOf(<<Blank, Text("title", 1)>>, M(3), <<Text("marks", 0)>>),
  ItemOf(<<>>, M(1), H(1)),
  ItemOf(T(1), <<Text("local", 1)>>, H(2)),
  [ItemOf(T(1), <<Blank>>, H(3)) EXCEPT !.link.ok = FALSE] }

Response(items) == [arrives |-> TRUE, parses |-> TRUE, items |-> items, document |-> <<>>]

CrawlJob(sources, responses, offline, selftest, query) ==
  [command |-> "crawl-bt", sources |-> sources, responses |-> responses,
   offline |-> offline, selftest |-> selftest, query |-> query]

Anything == [titled |-> FALSE, episode |-> 0]

EditJob(documents) == [command |-> "edit", repository |-> documents]
HealthJob(mode)    == [command |-> "health", mode |-> mode]
BuildJob(records)  == [command |-> "build", records |-> records]

-----------------------------------------------------------------------------
(* The narrow plans                                                        *)

Feeds == {MagnetFeed, TorrentFeed, ComposedFeed, CircularFeed}

Pairs == {<<i>> : i \in Items} \cup {<<i, j>> : i, j \in Items}

Queries == {Anything, [titled |-> TRUE, episode |-> 1]}

CrawlPlans ==
  {[repository |-> ("a" :> Source("a", feed)), file |-> Absent,
    agenda |-> <<CrawlJob(<<Source("a", feed)>>, <<Response(items)>>, FALSE, FALSE, query)>>]
     : feed \in Feeds, items \in Pairs, query \in Queries}

\* The guards of a crawl, one of them failing at a time.
Bent ==
  {[Source("a", MagnetFeed) EXCEPT !.valid = FALSE], [Source("a", MagnetFeed) EXCEPT !.kind = "web"],
   [Source("a", MagnetFeed) EXCEPT !.enabled = FALSE], [Source("a", MagnetFeed) EXCEPT !.request = FALSE],
   [Source("a", MagnetFeed) EXCEPT !.selftest.query = FALSE], [Source("a", MagnetFeed) EXCEPT !.selftest.torrent = FALSE],
   [Source("a", MagnetFeed) EXCEPT !.selftest.minimum = 2], Source("a", MagnetFeed)}

OneItem == Response(<<ItemOf(T(1), M(1), H(1))>>)

GuardPlans ==
  {[repository |-> ("a" :> Source("a", MagnetFeed)), file |-> {},
    agenda |-> <<CrawlJob(sources, [k \in DOMAIN sources |-> response], offline, selftest, Anything)>>]
     : sources \in {<<>>} \cup {<<s>> : s \in Bent} \cup {<<s, s>> : s \in Bent},
       response \in {OneItem, [OneItem EXCEPT !.arrives = FALSE], [OneItem EXCEPT !.parses = FALSE]},
       offline \in BOOLEAN, selftest \in BOOLEAN}

-----------------------------------------------------------------------------
(* The pages of a web source                                               *)

EpisodeNode(title, link) ==
  [texts |-> [title |-> Found(title), link |-> Found(link)], items |-> Found(<<>>)]

EpisodeNodes == {
  EpisodeNode(T(1), <<Text("link", 1)>>), EpisodeNode(T(2), U(2)),
  EpisodeNode(T(0), U(3)), EpisodeNode(T(1), <<>>) }

Columns(nodes, place) == Found(FlattenSeq([i \in DOMAIN nodes |-> nodes[i].texts[place].values]))

LineNode(channel, nodes) ==
  [texts |-> [channel |-> channel, titles |-> Columns(nodes, "title"), links |-> Columns(nodes, "link")],
   items |-> [ok |-> TRUE, nodes |-> nodes]]

LineNodes ==
  {LineNode(channel, nodes) :
     channel \in {Found(T(1)), Found(<<Blank>>), Found(<<>>), [ok |-> FALSE, values |-> <<>>]},
     nodes \in {<<>>} \cup {<<n>> : n \in EpisodeNodes}}

Page(lines, channels) ==
  [arrives |-> TRUE, parses |-> TRUE,
   root |-> [texts |-> [channels |-> Found(channels), key |-> Found(T(7))],
             items |-> [ok |-> TRUE, nodes |-> lines]]]

Pages(channels) ==
  {Page(<<a, b>>, channels) : a, b \in LineNodes}
  \cup {[Page(<<>>, <<>>) EXCEPT !.arrives = FALSE], [Page(<<>>, <<>>) EXCEPT !.parses = FALSE],
        [Page(<<>>, <<>>) EXCEPT !.root.items.ok = FALSE]}

EpisodeFields ==
  [number |-> Of("item", "title", <<Plain("parse_episode")>>, TRUE),
   url    |-> Of("item", "link", <<Plain("absolute_url")>>, TRUE),
   key    |-> Of("template", "line_key", <<>>, FALSE)]

ColumnFields ==
  [number |-> Of("item", "titles", <<Plain("parse_episode")>>, TRUE),
   url    |-> Of("item", "links", <<>>, FALSE)]

Stage(lineFields, episodes) ==
  [variables |-> <<>>, lines |-> [present |-> TRUE, fields |-> lineFields, episodes |-> episodes]]

Listed == [mode |-> "items", fields |-> EpisodeFields]

ChannelStage == Stage([channel |-> Of("document", "channels", <<>>, FALSE)], Listed)

Stages == {
  ChannelStage,
  Stage([channel |-> Of("item", "channel", <<>>, TRUE)], Listed),
  [Stage([channel  |-> Of("item", "channel", <<>>, FALSE)], Listed)
     EXCEPT !.variables = [key |-> Of("document", "key", <<>>, TRUE)]],
  Stage([channel |-> Of("item", "channel", <<>>, FALSE), line_key |-> Of("template", "line_number", <<>>, FALSE)],
        [mode |-> "zipped", fields |-> ColumnFields]) }

Works == {Text("title", 0), Text("title", 2), Text("title", 3), Text("season", 2), Text("numbered", 2), Text("offtopic", 2)}

SearchNode(title, year, key) ==
  [texts |-> [title |-> Found(title), year |-> Found(year), key |-> Found(key)], items |-> Found(<<>>)]

SearchPage(nodes) ==
  [arrives |-> TRUE, parses |-> TRUE, root |-> [texts |-> <<>>, items |-> [ok |-> TRUE, nodes |-> nodes]]]

OneWork(n) == SearchPage(<<SearchNode(T(n), <<>>, <<>>)>>)

SearchStage ==
  [mode |-> "items",
   fields |-> [title |-> TitleField, year |-> Of("item", "year", <<>>, FALSE),
               subject_key |-> Of("item", "key", <<>>, FALSE)]]

WebSource(searchPages, stage, page, titles, minimum) ==
  [id |-> "w", kind |-> "web", enabled |-> TRUE, valid |-> TRUE,
   search |-> SearchStage, searchPages |-> searchPages,
   episodes |-> stage, episodesPage |-> page,
   selftest |-> [titles |-> titles, episode |-> 1, minimum |-> minimum, transport |-> minimum = 1]]

\* A page without lines, and searches of two pages.
OnePage == Page(<<EpisodeNode(T(1), U(1)), EpisodeNode(T(1), U(2))>>, <<>>)
NoLines == [mode |-> "items", fields |-> [EpisodeFields EXCEPT !.key.at = "episode_number"],
            variables |-> <<>>, lines |-> [present |-> FALSE]]

SearchNodes ==
  {SearchNode(<<work>>, <<>>, <<>>) : work \in Works}
  \cup {SearchNode(T(0), <<Number(1)>>, <<Text("key", 1)>>), SearchNode(T(2), <<Number(2)>>, <<>>),
        SearchNode(<<Text("marks", 0)>>, <<>>, <<>>), SearchNode(<<>>, <<>>, <<>>)}

SearchPages ==
  {<<SearchPage(<<a, b>>)>> : a, b \in SearchNodes}
  \cup {<<SearchPage(<<a>>), SearchPage(<<b>>)>> : a, b \in SearchNodes}
  \cup {<<[OneWork(0) EXCEPT !.arrives = FALSE], OneWork(n)>> : n \in {0, 2}}
  \cup {<<[OneWork(0) EXCEPT !.parses = FALSE]>>}

WebSources ==
  {WebSource(<<OneWork(0)>>, stage, page, T(0), 2) : stage \in Stages, page \in Pages(T(1))}
  \cup {WebSource(<<OneWork(0)>>, ChannelStage, page, T(0), 2) : page \in Pages(T(1) \o <<Text("title", 2)>>)}
  \cup {WebSource(pages, NoLines, OnePage, titles, 2) : pages \in SearchPages, titles \in {T(0), T(2)}}
  \cup {WebSource(<<OneWork(0)>>, NoLines, OnePage, titles, minimum) : titles \in {T(0), <<>>}, minimum \in {1, 3}}

\* What requests ask for: titles of one work, with and without its season.
MCSubjects ==
  {[titles |-> titles, season |-> season, year |-> year, ids |-> ids] :
     titles \in {T(0), T(2), <<Text("title", 0), Text("title", 2)>>, <<Text("season", 2)>>, <<Text("numbered", 2)>>},
     season \in {0, 1, 2}, year \in {0, 1}, ids \in {{}, {Text("key", 1)}}}

WebPlans ==
  {[repository |-> ("w" :> source), file |-> Absent, agenda |-> <<HealthJob("network")>>] : source \in WebSources}

-----------------------------------------------------------------------------
(* The wide plans                                                          *)

A == Source("a", MagnetFeed)
B == Source("b", TorrentFeed)

Documents == {
  ("a" :> A),
  ("a" :> [A EXCEPT !.enabled = FALSE]),
  ("a" :> A) @@ ("b" :> B),
  ("a" :> A) @@ ("b" :> [B EXCEPT !.kind = "web", !.enabled = FALSE]),
  ("a" :> A) @@ ("b" :> [B EXCEPT !.valid = FALSE]) }

CrawlBoth ==
  CrawlJob(<<A, B>>, <<OneItem, Response(<<ItemOf(T(1), U(1), H(1)), ItemOf(T(2), U(2), H(2))>>)>>,
           FALSE, FALSE, Anything)

BuildPlans ==
  {[repository |-> before, file |-> Absent,
    agenda |-> <<CrawlBoth, HealthJob("fixture"), BuildJob(first), EditJob(after), HealthJob("fixture"), BuildJob(second)>>]
     : before, after \in Documents, first, second \in BOOLEAN}
  \cup
  {[repository |-> before, file |-> Absent,
    agenda |-> <<CrawlBoth, HealthJob("fixture"), EditJob(after), BuildJob(TRUE), CrawlBoth, BuildJob(TRUE)>>]
     : before, after \in Documents}

MCPlans == CrawlPlans \cup GuardPlans \cup WebPlans \cup BuildPlans
=============================================================================
