---------------------------- MODULE WebExtraction ----------------------------
(***************************************************************************)
(* The rows of a web page, and what the self-check of a web source makes   *)
(* of them: src/internal/sourceruntime/extract.go and the data of          *)
(* webCandidates and SelfCheck in src/internal/sourceruntime/runner.go.    *)
(*                                                                         *)
(* A page is [arrives, parses, root].  A node of it, the root too, is      *)
(* [texts, items]: the texts a selector finds in it, by place, and the     *)
(* nodes its item selector finds, [ok, nodes].                             *)
(*                                                                         *)
(* A collection is [mode, fields], its mode "items" or "zipped".  The      *)
(* stage of the episodes has besides these variables, a map of             *)
(* definitions, and lines, the fields of a line and the collection of its  *)
(* episodes, or none.                                                      *)
(***************************************************************************)
EXTENDS FieldExtraction, SubjectMatch

Names == <<"channel", "key", "line_key", "number", "subject_key", "title", "url", "year">>

Number(n) == Text("number", n)

NoRows == [ok |-> FALSE, rows |-> <<>>]

NodeContext(fields, page, node, variables, position) ==
  [kind |-> "web", definitions |-> fields, item |-> node.texts, document |-> page.root.texts,
   variables |-> variables, position |-> position]

(***************************************************************************)
(* The columns are as long as the shortest required one, or as the longest *)
(* if none is required.  No field may refer to another.                    *)
(***************************************************************************)
ExtractZipped(fields, context) ==
  LET closed   == [row |-> <<>>, begun |-> DOMAIN fields \cup DOMAIN context.variables]
      column   == [n \in DOMAIN fields |-> EvaluateExtractor(fields[n], context, closed)]
      kept     == {n \in DOMAIN fields : column[n].ok}
      required == {n \in DOMAIN fields : fields[n].required}
      Lengths(names) == {Len(column[n].values) : n \in names}
      length   == IF required = {} THEN Max(Lengths(kept) \cup {0}) ELSE Min(Lengths(required))
  IN IF ~(required \subseteq kept) THEN NoRows
     ELSE [ok   |-> TRUE,
           rows |-> [i \in 1..length |->
                      [n \in {m \in kept : i <= Len(column[m].values)} |-> column[n].values[i]]]]

\* A row that lacks a required field is left out.
UsableRows(extracted) ==
  LET usable == SelectSeq(extracted, LAMBDA e : e.ok)
  IN [ok |-> TRUE, rows |-> [k \in DOMAIN usable |-> usable[k].memo.row]]

ExtractCollection(collection, page, node, variables) ==
  CASE collection.mode = "zipped" ->
         ExtractZipped(collection.fields, NodeContext(collection.fields, page, node, variables, 0))
    [] collection.mode = "items" /\ ~node.items.ok -> NoRows
    [] OTHER ->
         UsableRows([i \in DOMAIN node.items.nodes |->
           ExtractFieldMap(NodeContext(collection.fields, page, node.items.nodes[i],
                                       ("episode_number" :> Number(i)) @@ variables, i), Names)])

\* The variables of line i, whose fields are row.
LineVariables(variables, row, i) ==
  LET own == row @@ ("line_number" :> Number(i)) @@ variables
  IN IF Value(own, "line_key") # Blank THEN own
     ELSE ("line_key" :> FirstNonEmpty(<<Value(row, "line_key"), Value(row, "channel")>>)) @@ own

LineFields(stage, page, variables, i) ==
  ExtractFieldMap(NodeContext(stage.lines.fields, page, page.root.items.nodes[i],
                              ("line_number" :> Number(i)) @@ variables, i), Names)

AddEpisodes(done, variables, line, i, found) ==
  [ok |-> found.ok, variables |-> variables,
   rows |-> done.rows \o [k \in DOMAIN found.rows |-> ("line_number" :> Number(i)) @@ found.rows[k] @@ line]]

\* Mutant of AddLine: the lines share one map of variables.
AddLine_Shares(stage, page, done, line, i) ==
  AddEpisodes(done, LineVariables(done.variables, line, i), line, i,
    ExtractCollection(stage.lines.episodes, page, page.root.items.nodes[i], LineVariables(done.variables, line, i)))

AddLine(stage, page, done, line, i) ==
  AddEpisodes(done, done.variables, line, i,
    ExtractCollection(stage.lines.episodes, page, page.root.items.nodes[i], LineVariables(done.variables, line, i)))

\* The loop over the lines: a line without a required field is left out, but
\* episodes that cannot be read leave nothing of the page.
UsableLine(stage, page, done, extracted, i) ==
  IF extracted.ok THEN AddLine(stage, page, done, extracted.memo.row, i) ELSE done

ReadLine(stage, page, done, i) ==
  IF done.ok THEN UsableLine(stage, page, done, LineFields(stage, page, done.variables, i), i) ELSE done

\* own holds the variables the page itself defines.
EpisodesWith(stage, page, variables, own) ==
  CASE ~own.ok -> NoRows
    [] own.ok /\ ~stage.lines.present -> ExtractCollection(stage, page, page.root, own.memo.row @@ variables)
    [] own.ok /\ stage.lines.present /\ ~page.root.items.ok -> NoRows
    [] OTHER ->
         FoldLeft(LAMBDA done, i : ReadLine(stage, page, done, i),
                  [ok |-> TRUE, rows |-> <<>>, variables |-> own.memo.row @@ variables],
                  [i \in DOMAIN page.root.items.nodes |-> i])

ExtractEpisodes(stage, page, variables) ==
  IF ~page.parses THEN NoRows
  ELSE EpisodesWith(stage, page, variables,
                    ExtractFieldMap(NodeContext(stage.variables, page, page.root, variables, 0), Names))

ExtractSearch(stage, page, variables) ==
  IF page.parses THEN ExtractCollection(stage, page, page.root, variables) ELSE NoRows

MatchingEpisodes(rows, wanted) ==
  SelectSeq(rows, LAMBDA row : Value(row, "number") = Number(wanted))

(***************************************************************************)
(* The rows of the searches, one for each title that is tried: those that  *)
(* fail are passed over, and the first exact match ends the search.        *)
(***************************************************************************)
AddFound(done, found, chosen) ==
  IF found.ok THEN [rows |-> done.rows \o found.rows, exact |-> chosen.found /\ chosen.score = 10] ELSE done

AddRows(done, found, subject) == AddFound(done, found, ChooseSubject(found.rows, subject))

SearchRows(source, subject) ==
  FoldLeft(LAMBDA done, page :
             IF done.exact \/ ~page.arrives THEN done
             ELSE AddRows(done, ExtractSearch(source.search, page, <<>>), subject),
           [rows |-> <<>>, exact |-> FALSE], source.searchPages).rows

(***************************************************************************)
(* What SelfCheck of a web source may find.  An episode of the wanted      *)
(* number gives a candidate if it has an address, and what is behind that  *)
(* can be resolved, which it can for any number of them; a stage before    *)
(* that fails leaves none.  Web sources have no fixtures, a source without *)
(* titles has no request, and a source that names a transport may find     *)
(* another one.                                                            *)
(***************************************************************************)
Resolvable(rows, wanted) ==
  Len(SelectSeq(MatchingEpisodes(rows, wanted), LAMBDA row : Value(row, "url").is = "url"))

Grades(emitted, selftest) ==
  CASE emitted = 0                               -> {"unavailable"}
    [] emitted > 0 /\ emitted < selftest.minimum -> {"degraded"}
    [] OTHER                                     -> {"healthy"} \cup (IF selftest.transport THEN {"degraded"} ELSE {})

CheckEpisodes(source, episodes) ==
  IF ~episodes.ok THEN {"unavailable"}
  ELSE UNION {Grades(emitted, source.selftest) : emitted \in 0..Resolvable(episodes.rows, source.selftest.episode)}

CheckChosen(source, chosen) ==
  IF chosen.found /\ source.episodesPage.arrives
  THEN CheckEpisodes(source, ExtractEpisodes(source.episodes, source.episodesPage, chosen.row))
  ELSE {"unavailable"}

SelfCheck(source, mode) ==
  IF source.selftest.titles = <<>> \/ mode = "fixture" THEN {"degraded"}
  ELSE CheckChosen(source, ChooseSubject(SearchRows(source, SelfTestSubject(source)), SelfTestSubject(source)))
-----------------------------------------------------------------------------
\* What is left of a line whose markup the site has changed.
EmptyNode(node) ==
  [texts |-> [place \in DOMAIN node.texts |-> [ok |-> TRUE, values |-> <<>>]],
   items |-> [ok |-> TRUE, nodes |-> <<>>]]

OnlyLine(page, i) ==
  [page EXCEPT !.root.items.nodes = [k \in DOMAIN @ |-> IF k = i THEN @[k] ELSE EmptyNode(@[k])]]

(***************************************************************************)
(* Where the page can be read at all, its episodes are those of its lines, *)
(* each read as if the others were empty: nothing that one line names, and *)
(* no line that is left out, changes what another gives.                   *)
(***************************************************************************)
EachAlone(stage, page, variables) ==
  FlattenSeq([i \in DOMAIN page.root.items.nodes |-> ExtractEpisodes(stage, OnlyLine(page, i), variables).rows])

LinesApart(stage, page, variables) ==
  stage.lines.present =>
    \E together \in {ExtractEpisodes(stage, page, variables)} :
      together.ok => together.rows = EachAlone(stage, page, variables)
=============================================================================
