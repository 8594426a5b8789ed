---------------------------- MODULE SubjectMatch ----------------------------
(***************************************************************************)
(* chooseSubject of src/internal/sourceruntime/subject_match.go: the row   *)
(* of a search that is the requested work.                                 *)
(*                                                                         *)
(* The titles of one work are texts of class title, which ends with the    *)
(* season it names in Chinese, 0 for none; season, which names one in      *)
(* other words or elsewhere; or numbered, with a bare number in its place. *)
(* Those of a work whose name does not occur in them are offtopic.  So the *)
(* title without season occurs in each of the others.                      *)
(*                                                                         *)
(* A subject is [titles, season, year, ids], season and year 0 if they are *)
(* not given.  Scores are in tenths.                                       *)
(***************************************************************************)
EXTENDS Texts, SequencesExt

\* titleSeason
Season(title) == IF title.is \in {"title", "season", "offtopic"} THEN title.of ELSE 0

\* The Chinese season at the end of a title, as a bare number.
NumberedSeasonTitle(title) ==
  IF title.is = "title" /\ title.of >= 2 THEN Text("numbered", title.of) ELSE Blank

IsNumberedSequel(candidate, titles) ==
  candidate.is = "numbered" /\ candidate.of > 1 /\ Text("title", 0) \in ToSet(titles)

Includes(a, b) ==
  /\ {a.is, b.is} \subseteq {"title", "season", "numbered"}
  /\ Text("title", 0) \in {a, b}

\* The season asked for, or that of the first title that names one.
WantedSeason(subject) ==
  LET named == {i \in DOMAIN subject.titles : Season(subject.titles[i]) > 0}
  IN IF subject.season > 0 THEN subject.season
     ELSE IF named = {} THEN 0 ELSE Season(subject.titles[Min(named)])

\* An unmarked first season is not a later one.
Later(candidate, subject) ==
  WantedSeason(subject) <= 1 /\ (Season(candidate) > 1 \/ IsNumberedSequel(candidate, subject.titles))

IsNumberedAlias(candidate, subject) ==
  \E t \in ToSet(subject.titles) :
    NumberedSeasonTitle(t) = candidate /\ candidate # Blank /\ Season(t) = WantedSeason(subject)

CandidateSeason(candidate, subject) ==
  IF IsNumberedAlias(candidate, subject) THEN WantedSeason(subject) ELSE Season(candidate)

\* The guards of the loop over the rows.
Considered(title, year, season, subject) ==
  /\ subject.year > 0 /\ year.is = "number" => year.of = subject.year
  /\ title \notin {Blank, Text("marks", 0)}
  /\ ~Later(title, subject)
  /\ WantedSeason(subject) > 0 /\ season > 0 => season = WantedSeason(subject)

AliasScore(title, alias, subject) ==
  LET alike == IF title = alias THEN 10 ELSE IF Includes(title, alias) THEN 9 ELSE 0
  IN IF /\ WantedSeason(subject) > 1 /\ CandidateSeason(title, subject) = 0
        /\ alike < 10 \/ Season(alias) = 0
     THEN 6 ELSE alike

\* Mutant of TitleScore: a title that only contains a wanted one is as good as the title.
TitleScore_Contains(title, key, year, subject) ==
  IF \E t \in ToSet(subject.titles) : title = t \/ Includes(title, t) THEN 10 ELSE 0

TitleScore(title, key, year, subject) ==
  IF ~Considered(title, year, CandidateSeason(title, subject), subject) THEN 0
  ELSE IF IsNumberedAlias(title, subject) \/ (key # Blank /\ key \in subject.ids) THEN 10
  ELSE Max({0} \cup {AliasScore(title, t, subject) : t \in ToSet(subject.titles) \ {Blank, Text("marks", 0)}})

Title(row) == FirstNonEmpty(<<Value(row, "title"), Value(row, "name")>>)

RowScore(row, subject) ==
  TitleScore(Title(row), Value(row, "subject_key"), Value(row, "year"), subject)

\* The first of the rows with the best score, if that is good enough.
FirstWith(rows, scores, best) ==
  IF best < 8 THEN [found |-> FALSE]
  ELSE [found |-> TRUE, score |-> best,
        row |-> rows[Min({i \in DOMAIN rows : scores[i] = best})]]

Scored(rows, scores) == FirstWith(rows, scores, Max({0} \cup ToSet(scores)))

ChooseSubject(rows, subject) == Scored(rows, [i \in DOMAIN rows |-> RowScore(rows[i], subject)])

\* Seasons are counted from 1, the first is often not named.
IsTitle(t) == t = Text(t.is, t.of) /\ t.of \in Nat

IsSubject(subject) ==
  /\ subject.titles \in Seq(ToSet(subject.titles)) /\ subject.season \in Nat
  /\ \A i \in DOMAIN subject.titles : IsTitle(subject.titles[i])

AreRows(rows) == rows \in Seq(ToSet(rows)) /\ \A i \in DOMAIN rows : IsTitle(Title(rows[i]))

\* What the self-check of a source asks for.
SelfTestSubject(source) ==
  [titles |-> source.selftest.titles, season |-> 0, year |-> 0, ids |-> {Text("key", 0)}]
-----------------------------------------------------------------------------
(***************************************************************************)
(* What the choice is meant to be.  A title is of the season it names in   *)
(* words or by its number, of the first if it names none.                  *)
(***************************************************************************)
SeasonOf(title) == LET n == IF title.is = "numbered" THEN title.of ELSE Season(title)
                   IN IF n = 0 THEN 1 ELSE n

Fits(row, subject) ==
  \/ Title(row) \in ToSet(subject.titles)
  \/ Value(row, "subject_key") \in subject.ids
  \/ SeasonOf(Title(row)) = IF WantedSeason(subject) = 0 THEN 1 ELSE WantedSeason(subject)

Exact(row, subject) ==
  /\ Title(row) \in ToSet(subject.titles) /\ Title(row).is \in {"title", "season"}
  /\ Season(Title(row)) = WantedSeason(subject)
  /\ Value(row, "year") = Blank

IsRight(chosen, rows, subject) ==
  /\ chosen.found => Fits(chosen.row, subject)
  /\ (\E i \in DOMAIN rows : Exact(rows[i], subject)) => chosen.found /\ chosen.score = 10

ChoiceIsRight(rows, subject) == IsRight(ChooseSubject(rows, subject), rows, subject)
=============================================================================
