---------------------------- MODULE MCRuleImport ----------------------------
(***************************************************************************)
(* A small instance of RuleImport: every rule that differs from a usable   *)
(* one in one field, imported alone, and lists and directories of rules    *)
(* whose names, mistakes and contents meet.                                *)
(***************************************************************************)
EXTENDS RuleImport

\* The rules that differ from base in at most one field of others.
Near(base, others) ==
  {base} \cup UNION {{[base EXCEPT ![f] = v] : v \in others[f]} : f \in DOMAIN others}

Named(words) == [words |-> words, lossy |-> FALSE, short |-> FALSE]
Lossy(words) == [words |-> words, lossy |-> TRUE, short |-> FALSE]
Short(words) == [words |-> words, lossy |-> FALSE, short |-> TRUE]

URL(host, scheme, vars, query) == [host |-> host, scheme |-> scheme, vars |-> vars, query |-> query]
NoURL   == URL(NoHost, "none", {}, {})
Site    == URL("site", "http", {}, {})
Texts(vars, scalar, size) == [vars |-> vars, scalar |-> scalar, size |-> size]
NoTexts == Texts({}, TRUE, 0)

BaseRequest ==
  [method |-> "GET", url |-> URL("api", "http", {}, {}), query |-> NoTexts, headers |-> {},
   bodyType |-> "none", body |-> NoTexts]

\* Requests whose only template variable is v.
RequestsNear(v) ==
  Near(BaseRequest,
       [method |-> {"PUT"},
        url |-> {NoURL, URL("api", "http", {}, {v}), URL("api", "other", {}, {}), URL("lan", "http", {}, {})},
        query |-> {Texts({v}, TRUE, 1), Texts({"other"}, TRUE, 1), Texts({}, FALSE, 1)},
        headers |-> {{[name |-> "x-client", vars |-> {v}]}, {[name |-> "cookie", vars |-> {"other"}]},
                     {[name |-> "api-key", vars |-> {}], [name |-> "accept", vars |-> {}]}}])
  \cup Near([BaseRequest EXCEPT !.method = "POST", !.bodyType = "form", !.body = Texts({v}, TRUE, 1)],
            [bodyType |-> {"json", "xml"}, body |-> {NoTexts, Texts({"other"}, FALSE, 1)}])

NoAPI == [present |-> FALSE]
SearchAPI(request) ==
  [present |-> TRUE, request |-> request, listPath |-> "good", namePath |-> "good", sourcePath |-> "good"]

Variable(key, name, path) == [key |-> key, name |-> name, path |-> path]
Page(url, query) == [present |-> TRUE, url |-> url, query |-> query]

BaseChapterAPI ==
  [present |-> TRUE, format |-> "none", request |-> BaseRequest, variables |-> {}, roadsPath |-> "none",
   roadNamePath |-> "none", episodesPath |-> "good", episodeNamePath |-> "good", urlPath |-> "good", page |-> NoAPI]

ChapterAPIs ==
  {NoAPI} \cup {[BaseChapterAPI EXCEPT !.request = c] : c \in RequestsNear("source")}
  \cup Near(BaseChapterAPI,
     [format |-> {"delimited"}, roadsPath |-> {"bad"}, episodesPath |-> {"none"}, urlPath |-> {"none"},
      variables |-> {{Variable("roadId", "road_id", "good")},
                     {Variable("roadId", "road_id", "good"), Variable("road_id", "road_id", "good")},
                     {Variable("--", "none", "good")}, {Variable("id", "id", "bad")}},
      page |-> {Page(URL("play", "http", {"episodeUrl"}, {}), NoTexts), Page(NoURL, NoTexts),
                Page(Site, Texts({"roadId"}, TRUE, 1)), Page(Site, Texts({}, FALSE, 1))}])
  \cup {[BaseChapterAPI EXCEPT !.urlPath = "none", !.page = Page(URL("play", "http", {"episodeUrl"}, {}), NoTexts)],
        [BaseChapterAPI EXCEPT !.variables = {Variable("roadId", "road_id", "good")},
                               !.page = Page(URL("play", "http", {"roadId"}, {}), NoTexts)]}

BaseKazumi ==
  [name |-> Named(<<"a">>), api |-> 1, type |-> "anime", version |-> "1.0", base |-> Site,
   searchMode |-> "xpath", searchURL |-> URL("search", "http", {}, {"keyword"}), searchList |-> "good",
   searchName |-> "good", searchResult |-> "good", usePost |-> FALSE, searchApi |-> NoAPI,
   chapterMode |-> "xpath", chapterRoads |-> "good", chapterResult |-> "good", chapterApi |-> NoAPI,
   deprecated |-> FALSE, captcha |-> FALSE]

KazumiRules ==
  Near(BaseKazumi,
    [name |-> {Named(<<>>), Lossy(<<"a">>), Short(<<"a">>)}, api |-> {0, 8, 9}, type |-> {"1", "movie"}, version |-> {"none"},
     base |-> {NoURL, URL("site", "other", {}, {}), URL("site", "none", {}, {})},
     searchURL |-> {NoURL, URL("lan", "http", {}, {}), URL("search", "http", {"page"}, {})},
     searchList |-> {"none", "anchors"}, searchName |-> {"none"}, searchResult |-> {"none"},
     chapterRoads |-> {"none"}, deprecated |-> {TRUE}, captcha |-> {TRUE}])
  \cup Near([BaseKazumi EXCEPT !.usePost = TRUE],
            [searchURL |-> {URL("search", "http", {"keyword"}, {}), URL("search", "none", {}, {"keyword"})}])
  \cup {[BaseKazumi EXCEPT !.searchList = "anchors", !.searchResult = "none"]}
  \cup {[BaseKazumi EXCEPT !.searchMode = "api", !.searchApi = s] :
          s \in {NoAPI, [SearchAPI(BaseRequest) EXCEPT !.namePath = "none"]}
                  \cup {SearchAPI(c) : c \in RequestsNear("keyword")}}
  \cup {[BaseKazumi EXCEPT !.chapterMode = "api", !.chapterApi = c] : c \in ChapterAPIs}

BaseWeb ==
  [name |-> Named(<<"a">>), factory |-> "web-selector", version |-> 2, tier |-> 2,
   searchURL |-> URL("site", "http", {"title"}, {}), rawBase |-> NoURL, subjectFormat |-> "none",
   subjectNames |-> FALSE, subjectLinks |-> FALSE, channelFormat |-> "none", channelNames |-> FALSE,
   episodeLists |-> FALSE, episodeNames |-> FALSE, episodePattern |-> "none", channelPattern |-> "none",
   videoPattern |-> "capture", nestedURLs |-> TRUE, nestedPattern |-> "none", channelTiers |-> {},
   titleCount |-> 1, interval |-> 3000, cacheTTL |-> 7200]

AnimekoRules ==
  Near(BaseWeb,
    [name |-> {Named(<<>>)}, factory |-> {"rss", "dmhy"}, version |-> {1}, tier |-> {-1, 0, 9, 10},
     searchURL |-> {NoURL, URL("lan", "http", {}, {}), URL("site", "none", {}, {}), URL("site", "http", {"area"}, {})},
     rawBase |-> {URL("api", "http", {}, {})}, subjectFormat |-> {"a", "indexed", "grid"},
     channelFormat |-> {"no-channel", "index-grouped", "tabs"},
     episodePattern |-> {"capture", "groups", "flat", "kotlin"}, videoPattern |-> {"none", "kotlin"},
     nestedURLs |-> {FALSE}, nestedPattern |-> {"kotlin"}, channelTiers |-> {{-1, 100}, {0, 99}},
     titleCount |-> {0, 100, 101}, interval |-> {-1, 0, 1, 99, 100, 60000, 60001},
     cacheTTL |-> {-1, 0, 2592000, 2592001}])
  \cup {[BaseWeb EXCEPT !.factory = "rss", !.version = 1],
        [BaseWeb EXCEPT !.subjectFormat = "indexed", !.subjectNames = TRUE, !.subjectLinks = TRUE],
        [BaseWeb EXCEPT !.channelFormat = "index-grouped", !.channelNames = TRUE, !.episodeLists = TRUE,
                        !.episodeNames = TRUE, !.channelPattern = "kotlin"]}

Field(old, name) == [old |-> old, name |-> name, path |-> "plain", options |-> {}, transforms |-> {"trim"}]
Title  == Field("title", "title")
Magnet == Field("magnet", "magnet")
Size   == Field("size", "size_bytes")

BaseNagare ==
  [name |-> Named(<<"a">>), schema |-> 1, url |-> URL("api", "http", {"title"}, {}), format |-> "xml",
   items |-> "plain", fields |-> {Title, Magnet}, timeout |-> 20, selftest |-> TRUE, unknown |-> {},
   headers |-> {}, priority |-> 0, homepage |-> {}, normal |-> TRUE]

NagareRules ==
  Near(BaseNagare,
    [name |-> {Named(<<>>), Lossy(<<"a">>), Short(<<"a">>)}, normal |-> {FALSE}, homepage |-> {{"http"}, {"other"}}, schema |-> {2}, url |-> {NoURL, URL("api", "http", {"area"}, {})},
     format |-> {"json", "html"}, items |-> {"none", "ref"}, timeout |-> {0, 60, 61}, selftest |-> {FALSE},
     unknown |-> {{"notes"}}, headers |-> {{"authorization"}, {"accept"}}, priority |-> {-100001, 100000},
     fields |-> {{}, {Title}, {Title, Magnet, Size}, {Title, Magnet, Size, Field("size_bytes", "size_bytes")},
                 {Title, [Magnet EXCEPT !.transforms = {"magnet", "reverse"}]},
                 {Title, [Magnet EXCEPT !.path = "none"]},
                 {Title, [Magnet EXCEPT !.path = "none", !.options = {"ref", "plain"}]}}])

Document(entries) == [index |-> FALSE, readable |-> TRUE, entries |-> entries]
Run(ecosystem, ds) == [ecosystem |-> ecosystem, options |-> TRUE, directory |-> TRUE, documents |-> ds]

\* Rules whose names meet: the third a takes the id of a-3.
Meeting(base, broken) ==
  {base, [base EXCEPT !.name = Named(<<"a", "3">>)], [base EXCEPT !.name = Lossy(<<"a">>)],
   [base EXCEPT !.name = Short(<<"a">>)], broken, NoRule}

Lists(rules) == [1..2 -> rules] \cup [1..3 -> rules]

Directories(rule) ==
  {<<>>, <<Document(<<rule>>), Document(<<rule>>)>>, <<Document(<<rule>>), Document(<<>>)>>,
   <<[Document(<<rule>>) EXCEPT !.index = TRUE]>>,
   <<[Document(<<rule>>) EXCEPT !.readable = FALSE], Document(<<rule>>)>>,
   <<Document(<<[rule EXCEPT !.name = Named(<<"b">>)]>>), Document(<<rule>>)>>}

MCInputs ==
  {Run("kazumi", <<Document(<<r>>)>>) : r \in KazumiRules}
  \cup {Run("animeko", <<Document(<<r>>)>>) : r \in AnimekoRules}
  \cup {Run("nagare-v1", <<Document(<<r>>)>>) : r \in NagareRules}
  \cup {Run("kazumi", <<Document(rs)>>) : rs \in Lists(Meeting(BaseKazumi, [BaseKazumi EXCEPT !.api = 9]))}
  \cup {Run("animeko", <<Document(rs)>>) : rs \in Lists(Meeting(BaseWeb, [BaseWeb EXCEPT !.version = 1]))}
  \cup {Run("kazumi", ds) : ds \in Directories(BaseKazumi)}
  \cup {[Run("kazumi", ds) EXCEPT !.directory = FALSE] : ds \in {<<[Document(<<BaseKazumi>>) EXCEPT !.index = TRUE]>>}}
  \cup {Run("nagare-v1", ds) : ds \in Directories(BaseNagare)}
  \cup {[Run("animeko", <<Document(<<BaseWeb>>)>>) EXCEPT !.options = FALSE]}

MCPatches ==
  {[f \in {} |-> FALSE], [enabled |-> TRUE], [headers |-> {"cookie"}], [opens |-> {"play"}],
   [id |-> [words |-> <<"b">>, digest |-> NoRule]]}
=============================================================================
