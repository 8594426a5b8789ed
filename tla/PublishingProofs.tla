-------------------------- MODULE PublishingProofs --------------------------
(***************************************************************************)
(* Proofs about BTCrawl and Publishing, for every set of plans, whatever   *)
(* texts the rules take from a response, whatever a self-check answers and *)
(* whatever a search finds, and for every number of workers.               *)
(***************************************************************************)
EXTENDS Publishing, WellFoundedInduction, TLAPS

-----------------------------------------------------------------------------
(* Records                                                                 *)

\* A text is a text of its class.
LEMMA FieldsOfText ==
  ASSUME NEW class, NEW n
  PROVE  Text(class, n).is = class /\ Text(class, n).of = n
BY DEF Text

\* Two texts are equal when their class and what they are of it are.
LEMMA TextsAreEqual ==
  ASSUME NEW s, IsText(s), NEW t, IsText(t), s.is = t.is, s.of = t.of
  PROVE  s = t
BY DEF IsText

\* A text with a number is one, unless it is an address with a negative number.
LEMMA TextIsText ==
  ASSUME NEW class, NEW n \in Int, class # "url" \/ n >= 0
  PROVE  IsText(Text(class, n))
BY FieldsOfText DEF IsText

\* The blank text and the failed one.
LEMMA BlankText ==
  /\ IsText(Blank) /\ Blank.is = "blank" /\ Blank.of = 0
  /\ Failed.is = "error"
BY FieldsOfText, TextIsText DEF Blank, Failed

\* What a row has of a field is a text when the row has texts.
LEMMA ValueIsText ==
  ASSUME NEW row, NEW name, \A n \in DOMAIN row : IsText(row[n])
  PROVE  IsText(Value(row, name))
BY BlankText DEF Value

\* A normalized infohash is one in hexadecimal, or an error.
LEMMA NormalizedHash ==
  ASSUME NEW t, IsText(t)
  PROVE  \/ NormalizeInfoHash(t) = Failed
         \/ /\ t.is \in {"hash", "base32"} /\ NormalizeInfoHash(t) = Text("hash", t.of)
            /\ IsText(NormalizeInfoHash(t))
<1>1. t.of \in Int
  BY DEF IsText
<1>2. IsText(Text("hash", t.of))
  BY <1>1, TextIsText
<1> QED
  BY <1>2 DEF NormalizeInfoHash

\* The record of a row has texts where the row has them.
LEMMA RowsGiveRecords ==
  ASSUME NEW row, NEW id, \A n \in DOMAIN row : IsText(row[n])
  PROVE  IsRecord(RecordFromRow(id, row))
<1>1. \A name : IsText(Value(row, name))
  BY ValueIsText
<1>2. IsText(Magnet(row))
  BY <1>1 DEF Magnet
<1>3. IsText(TorrentURL(row))
  BY <1>1 DEF TorrentURL
<1>4. IsText(InfoHash(row))
  <2>1. Magnet(row).of \in Int
    BY <1>2 DEF IsText
  <2>2. IsText(Text("hash", Magnet(row).of))
    BY <2>1, TextIsText
  <2> QED
    BY <1>1, <2>2 DEF InfoHash
<1> QED
  BY <1>1, <1>2, <1>3, <1>4 DEF RecordFromRow, IsRecord

\* A record as WriteJSONL leaves it.
Normal(r) == IsRecord(r) /\ Acceptable(r) /\ NormalizeRecord(r) = r

\* Normalizing a record changes its infohash only.
LEMMA NormalizingChangesTheHash ==
  ASSUME NEW r, IsRecord(r)
  PROVE  NormalizeRecord(r) =
           [source |-> r.source, infoHash |-> CanonicalHash(r), magnet |-> r.magnet,
            torrentURL |-> r.torrentURL, title |-> r.title, episode |-> r.episode]
<1>1. r = [source |-> r.source, infoHash |-> r.infoHash, magnet |-> r.magnet,
           torrentURL |-> r.torrentURL, title |-> r.title, episode |-> r.episode]
  BY DEF IsRecord
<1> QED
  BY <1>1 DEF NormalizeRecord

\* The infohash of an acceptable record is missing beside an address, or is one
\* in hexadecimal.
LEMMA CanonicalHashes ==
  ASSUME NEW r, IsRecord(r), CanonicalHash(r) # Failed
  PROVE  /\ IsText(CanonicalHash(r))
         /\ \/ CanonicalHash(r) = Blank /\ r.infoHash = Blank /\ r.torrentURL # Blank
            \/ CanonicalHash(r).is = "hash" /\ r.infoHash.is \in {"hash", "base32"}
<1>1. IsText(r.infoHash)
  BY DEF IsRecord
<1>2. CASE r.infoHash = Blank /\ r.torrentURL # Blank
  BY <1>2, BlankText DEF CanonicalHash
<1>3. CASE ~(r.infoHash = Blank /\ r.torrentURL # Blank)
  <2>1. CanonicalHash(r) = NormalizeInfoHash(r.infoHash)
    BY <1>3 DEF CanonicalHash
  <2>2. NormalizeInfoHash(r.infoHash) # Failed
    BY <2>1
  <2> QED
    BY <1>1, <2>1, <2>2, NormalizedHash, FieldsOfText
<1> QED
  BY <1>2, <1>3

\* A hash in hexadecimal stays as it is.
LEMMA HashesStay ==
  ASSUME NEW t, IsText(t), t.is = "hash"
  PROVE  NormalizeInfoHash(t) = t
BY DEF NormalizeInfoHash, IsText

\* Normalizing an acceptable record gives one that is normal.
LEMMA NormalizedRecords ==
  ASSUME NEW r, IsRecord(r), Acceptable(r)
  PROVE  Normal(NormalizeRecord(r))
<1> DEFINE n == NormalizeRecord(r)
<1>1. /\ n = [source |-> r.source, infoHash |-> CanonicalHash(r), magnet |-> r.magnet,
              torrentURL |-> r.torrentURL, title |-> r.title, episode |-> r.episode]
      /\ n.infoHash = CanonicalHash(r)
      /\ n.magnet = r.magnet /\ n.torrentURL = r.torrentURL /\ n.title = r.title /\ n.episode = r.episode
  BY NormalizingChangesTheHash
<1>2. CanonicalHash(r) # Failed
  BY DEF Acceptable
<1>3. /\ IsText(CanonicalHash(r))
      /\ \/ CanonicalHash(r) = Blank /\ r.torrentURL # Blank
         \/ CanonicalHash(r).is = "hash"
  BY <1>2, CanonicalHashes
<1>4. IsRecord(n)
  BY <1>1, <1>3 DEF IsRecord
<1>5. CanonicalHash(n) = CanonicalHash(r)
  <2>1. CASE CanonicalHash(r) = Blank /\ r.torrentURL # Blank
    BY <1>1, <2>1 DEF CanonicalHash
  <2>2. CASE CanonicalHash(r).is = "hash"
    <3>1. CanonicalHash(r) # Blank
      BY <2>2, BlankText
    <3>2. CanonicalHash(n) = NormalizeInfoHash(CanonicalHash(r))
      BY <1>1, <3>1 DEF CanonicalHash
    <3> QED
      BY <1>3, <2>2, <3>2, HashesStay
  <2> QED
    BY <1>3, <2>1, <2>2
<1>6. Acceptable(n)
  BY <1>1, <1>5 DEF Acceptable
<1>7. NormalizeRecord(n) = n
  <2>1. NormalizeRecord(n) = [source |-> n.source, infoHash |-> CanonicalHash(n), magnet |-> n.magnet,
              torrentURL |-> n.torrentURL, title |-> n.title, episode |-> n.episode]
    BY <1>4, NormalizingChangesTheHash
  <2> QED
    BY <1>1, <1>5, <2>1
<1> QED
  BY <1>4, <1>6, <1>7 DEF Normal
\* What a normal record can be.
LEMMA NormalRecords ==
  ASSUME NEW r, Normal(r)
  PROVE  /\ r = [source |-> r.source, infoHash |-> r.infoHash, magnet |-> r.magnet,
                 torrentURL |-> r.torrentURL, title |-> r.title, episode |-> r.episode]
         /\ IsText(r.infoHash) /\ IsText(r.magnet) /\ IsText(r.torrentURL) /\ IsText(r.title) /\ IsText(r.episode)
         /\ CanonicalHash(r) = r.infoHash
         /\ (r.infoHash = Blank /\ r.torrentURL # Blank) \/ r.infoHash.is = "hash"
         /\ r.magnet = Blank \/ (r.infoHash.is = "hash" /\ r.magnet = Text("magnet", r.infoHash.of))
         /\ r.torrentURL = Blank \/ r.torrentURL.is = "url"
         /\ r.title.is \in {"title", "offtopic"}
         /\ r.episode = Blank \/ (r.episode.is = "number" /\ r.episode.of > 0)
<1>1. IsRecord(r) /\ Acceptable(r)
  BY DEF Normal
<1>2. CanonicalHash(r) = r.infoHash
  <2>1. NormalizeRecord(r).infoHash = CanonicalHash(r)
    BY <1>1, NormalizingChangesTheHash
  <2> QED
    BY <2>1 DEF Normal
<1>3. (r.infoHash = Blank /\ r.torrentURL # Blank) \/ r.infoHash.is = "hash"
  <2>1. CanonicalHash(r) # Failed
    BY <1>1 DEF Acceptable
  <2> QED
    BY <1>1, <1>2, <2>1, CanonicalHashes
<1>4. r.magnet = Blank \/ (r.infoHash.is = "hash" /\ r.magnet = Text("magnet", r.infoHash.of))
  BY <1>1, <1>2, <1>3 DEF Acceptable
<1>5. /\ r.torrentURL = Blank \/ r.torrentURL.is = "url"
      /\ r.title.is \in {"title", "offtopic"}
      /\ r.episode = Blank \/ (r.episode.is = "number" /\ r.episode.of > 0)
  BY <1>1 DEF Acceptable
<1> QED
  BY <1>1, <1>2, <1>3, <1>4, <1>5 DEF IsRecord

\* The ranks of records are compared place by place.
LEMMA PlaceByPlace ==
  ASSUME NEW r, NEW s
  PROVE  Precedes(r, s) <=>
           \/ Rank(r)[1] < Rank(s)[1]
           \/ Rank(r)[1] = Rank(s)[1] /\ Rank(r)[2] < Rank(s)[2]
           \/ Rank(r)[1] = Rank(s)[1] /\ Rank(r)[2] = Rank(s)[2] /\ Rank(r)[3] < Rank(s)[3]
           \/ /\ Rank(r)[1] = Rank(s)[1] /\ Rank(r)[2] = Rank(s)[2] /\ Rank(r)[3] = Rank(s)[3]
              /\ Rank(r)[4] < Rank(s)[4]
           \/ /\ Rank(r)[1] = Rank(s)[1] /\ Rank(r)[2] = Rank(s)[2] /\ Rank(r)[3] = Rank(s)[3]
              /\ Rank(r)[4] = Rank(s)[4] /\ Rank(r)[5] < Rank(s)[5]
BY DEF Precedes

\* The ranks of normal records are numbers.
LEMMA RanksAreNumbers ==
  ASSUME NEW r, Normal(r)
  PROVE  /\ Rank(r)[1] \in Int /\ Rank(r)[2] \in Int /\ Rank(r)[3] \in Int
         /\ Rank(r)[4] \in Int /\ Rank(r)[5] \in Int
BY NormalRecords DEF Rank, IsText

\* One of two normal records precedes the other, or their ranks are equal, and
\* what precedes a third precedes it too.
LEMMA RanksAreOrdered ==
  ASSUME NEW r, Normal(r), NEW s, Normal(s), NEW t, Normal(t)
  PROVE  /\ Precedes(r, s) /\ Precedes(s, t) => Precedes(r, t)
         /\ ~(Precedes(r, s) /\ Precedes(s, r))
         /\ \/ Precedes(r, s) \/ Precedes(s, r)
            \/ /\ Rank(r)[1] = Rank(s)[1] /\ Rank(r)[2] = Rank(s)[2] /\ Rank(r)[3] = Rank(s)[3]
               /\ Rank(r)[4] = Rank(s)[4] /\ Rank(r)[5] = Rank(s)[5]
<1>1. \A x \in {r, s, t} : /\ Rank(x)[1] \in Int /\ Rank(x)[2] \in Int /\ Rank(x)[3] \in Int
                          /\ Rank(x)[4] \in Int /\ Rank(x)[5] \in Int
  BY RanksAreNumbers
<1>2. Precedes(r, s) /\ Precedes(s, t) => Precedes(r, t)
  BY <1>1, PlaceByPlace
<1>3. ~(Precedes(r, s) /\ Precedes(s, r))
  BY <1>1, PlaceByPlace
<1>4. \/ Precedes(r, s) \/ Precedes(s, r)
      \/ /\ Rank(r)[1] = Rank(s)[1] /\ Rank(r)[2] = Rank(s)[2] /\ Rank(r)[3] = Rank(s)[3]
         /\ Rank(r)[4] = Rank(s)[4] /\ Rank(r)[5] = Rank(s)[5]
  BY <1>1, PlaceByPlace
<1> QED
  BY <1>2, <1>3, <1>4
\* Of two normal records with one key and one rank nothing is different.
LEMMA KeyAndRankSay ==
  ASSUME NEW r, Normal(r), NEW s, Normal(s), Key(r) = Key(s),
         Rank(r)[1] = Rank(s)[1], Rank(r)[2] = Rank(s)[2], Rank(r)[3] = Rank(s)[3],
         Rank(r)[4] = Rank(s)[4], Rank(r)[5] = Rank(s)[5]
  PROVE  r = s
<1>1. /\ (r.magnet = Blank) = (s.magnet = Blank)
      /\ (IF r.torrentURL = Blank THEN -1 ELSE r.torrentURL.of) = IF s.torrentURL = Blank THEN -1 ELSE s.torrentURL.of
      /\ (r.title.is = "offtopic") = (s.title.is = "offtopic")
      /\ r.title.of = s.title.of /\ r.episode.of = s.episode.of
  BY DEF Rank
<1>2. r.title = s.title
  BY <1>1, NormalRecords, TextsAreEqual
<1>3. r.episode = s.episode
  <2>1. (r.episode = Blank) = (s.episode = Blank)
    BY <1>1, NormalRecords, BlankText
  <2>2. r.episode # Blank => r.episode.is = s.episode.is
    BY <2>1, NormalRecords
  <2> QED
    BY <1>1, <2>1, <2>2, NormalRecords, TextsAreEqual
<1>4. r.torrentURL = s.torrentURL
  <2>1. (r.torrentURL = Blank) = (s.torrentURL = Blank)
    BY <1>1, NormalRecords DEF IsText
  <2>2. r.torrentURL # Blank => r.torrentURL.is = s.torrentURL.is /\ r.torrentURL.of = s.torrentURL.of
    BY <1>1, <2>1, NormalRecords
  <2> QED
    BY <2>1, <2>2, NormalRecords, TextsAreEqual
<1>5. r.source = s.source /\ r.infoHash = s.infoHash
  <2>1. /\ r.source = s.source
        /\ (IF r.infoHash # Blank THEN r.infoHash ELSE r.torrentURL) = IF s.infoHash # Blank THEN s.infoHash ELSE s.torrentURL
    BY DEF Key
  <2>2. /\ (r.infoHash = Blank /\ r.torrentURL.is = "url") \/ (r.infoHash.is = "hash" /\ r.infoHash # Blank)
        /\ (s.infoHash = Blank /\ s.torrentURL.is = "url") \/ (s.infoHash.is = "hash" /\ s.infoHash # Blank)
    BY NormalRecords, BlankText
  <2>3. CASE r.infoHash = Blank /\ s.infoHash # Blank
    <3>1. r.torrentURL = s.infoHash
      BY <2>1, <2>3
    <3> QED
      BY <2>2, <2>3, <3>1
  <2>4. CASE r.infoHash # Blank /\ s.infoHash = Blank
    <3>1. r.infoHash = s.torrentURL
      BY <2>1, <2>4
    <3> QED
      BY <2>2, <2>4, <3>1
  <2> QED
    BY <2>1, <2>3, <2>4
<1>6. r.magnet = s.magnet
  BY <1>1, <1>5, NormalRecords
<1> QED
  BY <1>2, <1>3, <1>4, <1>5, <1>6, NormalRecords

-----------------------------------------------------------------------------
(* Collapsing the records with one key                                     *)

\* kept holds of the records of each key the least one.
Gathered(records, least) ==
  /\ least \subseteq records
  /\ \A r \in records : \E q \in least : Key(q) = Key(r) /\ (q = r \/ Precedes(q, r))
  /\ \A q, r \in least : Key(q) = Key(r) => q = r

\* What is gathered are the least of the records.
LEMMA GatheredAreLeast ==
  ASSUME NEW records, \A r \in records : Normal(r), NEW gathered, Gathered(records, gathered)
  PROVE  gathered = Least(records)
<1>1. ASSUME NEW r \in gathered PROVE r \in Least(records)
  <2>1. r \in records
    BY DEF Gathered
  <2>2. ASSUME NEW s \in records, Key(s) = Key(r) PROVE s = r \/ Precedes(r, s)
    BY <1>1, <2>2 DEF Gathered
  <2> QED
    BY <2>1, <2>2 DEF Least
<1>2. ASSUME NEW r \in Least(records) PROVE r \in gathered
  <2>1. r \in records /\ \A s \in records : Key(s) = Key(r) => s = r \/ Precedes(r, s)
    BY DEF Least
  <2>2. PICK q \in gathered : Key(q) = Key(r) /\ (q = r \/ Precedes(q, r))
    BY <2>1 DEF Gathered
  <2>3. q \in records
    BY DEF Gathered
  <2>4. q = r \/ Precedes(r, q)
    BY <2>1, <2>2, <2>3
  <2>5. ~(Precedes(r, q) /\ Precedes(q, r))
    BY <2>1, <2>3, RanksAreOrdered
  <2> QED
    BY <2>2, <2>4, <2>5
<1> QED
  BY <1>1, <1>2

\* One of two normal records with one key precedes the other.
LEMMA OnePrecedes ==
  ASSUME NEW r, Normal(r), NEW s, Normal(s), Key(r) = Key(s), r # s
  PROVE  Precedes(r, s) \/ Precedes(s, r)
BY RanksAreOrdered, KeyAndRankSay

\* Collapse keeps what is gathered when a record is added.
LEMMA CollapseGathers ==
  ASSUME NEW records, \A r \in records : Normal(r), NEW least, Gathered(records, least),
         NEW new, Normal(new)
  PROVE  Gathered(records \cup {new}, Collapse(least, new))
<1> DEFINE collapsed == Collapse(least, new)
<1>1. \A q : q \in collapsed <=> \/ q \in least /\ (Key(q) # Key(new) \/ Precedes(q, new))
                                 \/ q = new /\ ~\E p \in least : Key(p) = Key(new) /\ Precedes(p, new)
  BY DEF Collapse
<1>2. least \subseteq records
  BY DEF Gathered
<1>3. collapsed \subseteq records \cup {new}
  BY <1>1, <1>2
<1>4. ASSUME NEW r \in records \cup {new}
      PROVE  \E q \in collapsed : Key(q) = Key(r) /\ (q = r \/ Precedes(q, r))
  <2>1. CASE \E p \in least : Key(p) = Key(new) /\ Precedes(p, new)
    <3>1. PICK p \in least : Key(p) = Key(new) /\ Precedes(p, new)
      BY <2>1
    <3>2. p \in collapsed
      BY <1>1, <3>1
    <3>3. CASE r = new
      BY <3>1, <3>2, <3>3
    <3>4. CASE r \in records
      <4>1. PICK q \in least : Key(q) = Key(r) /\ (q = r \/ Precedes(q, r))
        BY <3>4 DEF Gathered
      <4>2. CASE Key(q) = Key(new)
        <5>1. q = p
          BY <3>1, <4>2 DEF Gathered
        <5> QED
          BY <3>2, <4>1, <5>1
      <4>3. CASE Key(q) # Key(new)
        <5>1. q \in collapsed
          BY <1>1, <4>3
        <5> QED
          BY <4>1, <5>1
      <4> QED
        BY <4>2, <4>3
    <3> QED
      BY <3>3, <3>4
  <2>2. CASE ~\E p \in least : Key(p) = Key(new) /\ Precedes(p, new)
    <3>1. new \in collapsed
      BY <1>1, <2>2
    <3>2. CASE r = new
      BY <3>1, <3>2
    <3>3. CASE r \in records
      <4>1. PICK q \in least : Key(q) = Key(r) /\ (q = r \/ Precedes(q, r))
        BY <3>3 DEF Gathered
      <4>2. Normal(q) /\ Normal(r)
        BY <1>2, <3>3
      <4>3. CASE Key(q) = Key(new)
        <5>1. q = new \/ Precedes(new, q)
          BY <2>2, <4>2, <4>3, OnePrecedes
        <5>2. new = r \/ Precedes(new, r)
          BY <4>1, <4>2, <5>1, RanksAreOrdered
        <5> QED
          BY <3>1, <4>1, <4>3, <5>2
      <4>4. CASE Key(q) # Key(new)
        <5>1. q \in collapsed
          BY <1>1, <4>4
        <5> QED
          BY <4>1, <5>1
      <4> QED
        BY <4>3, <4>4
    <3> QED
      BY <3>2, <3>3
  <2> QED
    BY <2>1, <2>2
<1>5. ASSUME NEW q \in collapsed, NEW r \in collapsed, Key(q) = Key(r)
      PROVE  q = r
  <2>1. CASE q \in least /\ r \in least
    BY <1>5, <2>1 DEF Gathered
  <2>2. CASE q \notin least \/ r \notin least
    BY <1>1, <1>5, <2>2
  <2> QED
    BY <2>1, <2>2
<1> QED
  BY <1>3, <1>4, <1>5 DEF Gathered

\* Without records there is nothing to gather.
LEMMA NothingGathered == Gathered({}, {})
BY DEF Gathered

\* What a row of texts adds to the records kept so far is nothing, or one normal
\* record, and this does not depend on them.
LEMMA RowsAddARecord ==
  ASSUME NEW records, NEW source, NEW query, NEW extracted,
         extracted.ok => \A name \in DOMAIN extracted.memo.row : IsText(extracted.memo.row[name])
  PROVE  \/ /\ AddExtracted(records, source, query, extracted) = records
            /\ AddExtracted({}, source, query, extracted) = {}
         \/ \E r : /\ Normal(r)
                   /\ AddExtracted(records, source, query, extracted) = Collapse(records, r)
                   /\ AddExtracted({}, source, query, extracted) = {r}
<1> DEFINE record == RecordFromRow(source.id, extracted.memo.row)
           normal == NormalizeRecord(record)
<1>1. CASE ~extracted.ok
  BY <1>1 DEF AddExtracted
<1>2. CASE extracted.ok /\ ~Acceptable(record)
  BY <1>2 DEF AddExtracted, AddRow
<1>3. CASE extracted.ok /\ Acceptable(record) /\ ~MatchesQuery(source.matching, normal, query)
  BY <1>3 DEF AddExtracted, AddRow, AddRecord
<1>4. CASE extracted.ok /\ Acceptable(record) /\ MatchesQuery(source.matching, normal, query)
  <2>1. IsRecord(record)
    BY <1>4, RowsGiveRecords
  <2>2. Normal(normal)
    BY <1>4, <2>1, NormalizedRecords
  <2>3. \A some : AddExtracted(some, source, query, extracted) = Collapse(some, normal)
    BY <1>4 DEF AddExtracted, AddRow, AddRecord
  <2>4. Collapse({}, normal) = {normal}
    BY DEF Collapse
  <2>5. AddExtracted({}, source, query, extracted) = {normal}
    BY <2>3, <2>4
  <2> QED
    BY <2>2, <2>3, <2>5
<1> QED
  BY <1>1, <1>2, <1>3, <1>4

-----------------------------------------------------------------------------
(* Sequences                                                               *)

\* The empty sequence has no elements.
LEMMA EmptySequence ==
  /\ <<>> \in Seq(ToSet(<<>>))
  /\ Len(<<>>) = 0 /\ DOMAIN <<>> = {}
BY DEF ToSet

\* What Append does to a sequence.
LEMMA Appended ==
  ASSUME NEW s, s \in Seq(ToSet(s)), NEW x
  PROVE  /\ Append(s, x) \in Seq(ToSet(Append(s, x)))
         /\ Len(Append(s, x)) = Len(s) + 1 /\ DOMAIN Append(s, x) = 1..Len(s) + 1
         /\ \A i \in DOMAIN s : Append(s, x)[i] = s[i]
         /\ Append(s, x)[Len(s) + 1] = x
<1> DEFINE t == Append(s, x)
<1>1. Len(s) \in Nat /\ DOMAIN s = 1..Len(s)
  OBVIOUS
<1>2. s \in Seq(ToSet(s) \cup {x}) /\ x \in ToSet(s) \cup {x}
  OBVIOUS
<1>3. t \in Seq(ToSet(s) \cup {x}) /\ Len(t) = Len(s) + 1
      /\ \A i \in 1..Len(s) : t[i] = s[i]
  BY <1>2
<1>4. t[Len(s) + 1] = x
  BY <1>2
<1>5. DOMAIN t = 1..Len(t)
  BY <1>3
<1>6. ToSet(t) = ToSet(s) \cup {x}
  BY <1>1, <1>3, <1>4, <1>5 DEF ToSet
<1> QED
  BY <1>1, <1>3, <1>4, <1>5, <1>6

\* What Head and Tail do to a sequence that is not empty.
LEMMA HeadAndTail ==
  ASSUME NEW S, NEW s \in Seq(S), s # <<>>
  PROVE  Head(s) \in S /\ Tail(s) \in Seq(S) /\ Len(s) \in Nat /\ Len(Tail(s)) \in Nat /\ Len(Tail(s)) < Len(s)
OBVIOUS

\* A sequence of some of the elements of a set is one of its elements.
LEMMA SequenceOfMore ==
  ASSUME NEW S, NEW T, S \subseteq T, NEW s \in Seq(S)
  PROVE  s \in Seq(T)
OBVIOUS

-----------------------------------------------------------------------------
(* The commands                                                            *)

\* Everything a plan can put on the agenda, or into the working tree.
Jobs         == UNION {ToSet(plan.agenda) : plan \in Plans}
Repositories == {plan.repository : plan \in Plans} \cup {j.repository : j \in {k \in Jobs : k.command = "edit"}}

crawlSteps  == {"crawling", "reading", "renaming"}
healthSteps == {"checking", "json", "html"}

\* Where the commands are: none is under way without a job, and a crawl has the
\* job of one.
Control ==
  /\ agenda \in Seq(Jobs)
  /\ repository \in Repositories
  /\ step \in {"idle", "replacing"} \cup crawlSteps \cup healthSteps
  /\ step # "idle" => agenda # <<>>
  /\ step \in crawlSteps => job.command = "crawl-bt"

\* A command that ends leaves the agenda one shorter.
LEMMA EndShortens ==
  ASSUME Control, agenda # <<>>, NEW r, End(r)
  PROVE  agenda' \in Seq(Jobs) /\ step' = "idle" /\ Len(agenda') < Len(agenda) /\ Len(agenda) \in Nat
BY HeadAndTail DEF Control, End

\* At the start every command is still to come.
LEMMA ControlAtFirst == Init => Control
<1> SUFFICES ASSUME Init PROVE Control
  OBVIOUS
<1>1. PICK plan \in Plans : agenda = plan.agenda /\ repository = plan.repository
  BY DEF Init
<1>2. agenda \in Seq(ToSet(agenda))
  BY <1>1, PlansAssumption
<1>3. ToSet(agenda) \subseteq Jobs
  BY <1>1 DEF Jobs
<1>4. agenda \in Seq(Jobs)
  BY <1>2, <1>3, SequenceOfMore
<1>5. repository \in Repositories
  BY <1>1 DEF Repositories
<1>6. step = "idle"
  BY DEF Init
<1> QED
  BY <1>4, <1>5, <1>6 DEF Control, crawlSteps

\* A step of a crawl keeps the commands in order.
LEMMA ControlOfCrawl == Control /\ Crawl => Control'
<1> SUFFICES ASSUME Control, Crawl PROVE Control'
  OBVIOUS
<1>1. UNCHANGED repository
  BY DEF Crawl
<1>2. ASSUME NEW r, End(r), agenda # <<>> PROVE Control'
  BY <1>1, <1>2, EndShortens DEF Control, crawlSteps
<1>3. ASSUME StartCrawl PROVE Control'
  <2>1. agenda # <<>> /\ job.command = "crawl-bt"
    BY <1>3 DEF StartCrawl
  <2>2. CASE End("failed")
    BY <1>2, <2>1, <2>2
  <2>3. CASE step' = "crawling" /\ UNCHANGED agenda
    BY <1>1, <2>1, <2>3 DEF Control, crawlSteps, job
  <2> QED
    BY <1>3, <2>2, <2>3 DEF StartCrawl
<1>4. ASSUME StartSource \/ ReadItem \/ EndSource \/ WriteTemporary PROVE Control'
  <2>1. step \in crawlSteps /\ step' \in crawlSteps /\ UNCHANGED agenda
    BY <1>4 DEF StartSource, ReadItem, EndSource, WriteTemporary, crawlSteps
  <2>2. agenda # <<>> /\ job.command = "crawl-bt"
    BY <2>1 DEF Control, crawlSteps
  <2> QED
    BY <1>1, <2>1, <2>2 DEF Control, job, crawlSteps
<1>5. ASSUME CrawlFails \/ WriteFails \/ RenameRecords PROVE Control'
  <2>1. step # "idle" /\ \E r : End(r)
    BY <1>5 DEF CrawlFails, WriteFails, RenameRecords
  <2> QED
    BY <1>2, <2>1 DEF Control
<1> QED
  BY <1>3, <1>4, <1>5 DEF Crawl, CrawlNext

\* A step of a health run keeps the commands in order.
LEMMA ControlOfHealth == Control /\ Health => Control'
<1> SUFFICES ASSUME Control, Health PROVE Control'
  OBVIOUS
<1>1. ASSUME NEW r, End(r), agenda # <<>>, UNCHANGED repository PROVE Control'
  BY <1>1, EndShortens DEF Control, crawlSteps
<1>2. ASSUME step' \in healthSteps, agenda # <<>>, UNCHANGED <<agenda, repository>> PROVE Control'
  BY <1>2 DEF Control, crawlSteps, healthSteps
<1>3. ASSUME StartHealth PROVE Control'
  BY <1>1, <1>2, <1>3 DEF StartHealth, EndHealth, healthSteps
<1>4. ASSUME NEW id, TakeSource(id) \/ CheckSource(id) PROVE Control'
  <2>1. step = "checking" /\ UNCHANGED <<agenda, step, repository>>
    BY <1>4 DEF TakeSource, CheckSource
  <2> QED
    BY <1>2, <2>1 DEF Control, healthSteps
<1>5. ASSUME EndChecks PROVE Control'
  BY <1>2, <1>5 DEF EndChecks, Control, healthSteps
<1>6. ASSUME NEW f \in {"json", "html"}, ReplaceReport(f) PROVE Control'
  <2>1. agenda # <<>> /\ UNCHANGED repository
    BY <1>6 DEF ReplaceReport, Control
  <2> QED
    BY <1>1, <1>2, <1>6, <2>1 DEF ReplaceReport, Written, EndHealth, healthSteps
<1>7. ASSUME NEW f \in {"json", "html"}, MoveAside(f) PROVE Control'
  <2>1. step = f /\ UNCHANGED <<agenda, step, repository>>
    BY <1>7 DEF MoveAside
  <2> QED
    BY <1>2, <2>1 DEF Control, healthSteps
<1>8. ASSUME NEW f \in {"json", "html"}, ReportFails(f) PROVE Control'
  BY <1>1, <1>8 DEF ReportFails, EndHealth, Control
<1> QED
  BY <1>3, <1>4, <1>5, <1>6, <1>7, <1>8 DEF Health

\* So does every other step.
LEMMA ControlHolds == Control /\ [Next]_publishVars => Control'
<1> SUFFICES ASSUME Control, [Next]_publishVars PROVE Control'
  OBVIOUS
<1>1. ASSUME EditSources PROVE Control'
  <2>1. agenda # <<>> /\ job.command = "edit" /\ repository' = job.repository /\ End("ok")
    BY <1>1 DEF EditSources
  <2>2. job \in Jobs
    BY <2>1, HeadAndTail DEF Control, job
  <2>3. repository' \in Repositories
    BY <2>1, <2>2 DEF Repositories
  <2> QED
    BY <2>1, <2>3, EndShortens DEF Control, crawlSteps
<1>2. ASSUME NEW r, End(r), agenda # <<>>, UNCHANGED repository PROVE Control'
  BY <1>2, EndShortens DEF Control, crawlSteps
<1>3. ASSUME StartBuild PROVE Control'
  BY <1>3 DEF StartBuild, Control, crawlSteps
<1>4. ASSUME BuildFails \/ Publish \/ Crash PROVE Control'
  <2>1. agenda # <<>> /\ UNCHANGED repository /\ \E r : End(r)
    BY <1>4 DEF BuildFails, Publish, Crash, EndHealth, Control
  <2> QED
    BY <1>2, <2>1
<1>5. ASSUME NEW x, RemovePart(x) \/ RemoveSource(x) PROVE Control'
  BY <1>5 DEF RemovePart, RemoveSource, Control, crawlSteps
<1>6. ASSUME UNCHANGED publishVars PROVE Control'
  BY <1>6 DEF publishVars, Control, job
<1> QED
  BY <1>1, <1>3, <1>4, <1>5, <1>6, ControlOfCrawl, ControlOfHealth DEF Next, Build

\* The commands are always in order.
LEMMA CommandsInOrder == Spec => []Control
BY ControlAtFirst, ControlHolds, PTL DEF Spec

-----------------------------------------------------------------------------
(* What a crawl gathers                                                    *)

\* The records of the first n items of a response.
Harvest(source, response, query, n) == UNION {Alone(source, response, query, i) : i \in 1..n}

\* The sources of a crawl on the agenda give texts.
LEMMA CrawlJobs ==
  ASSUME NEW j \in Jobs, j.command = "crawl-bt"
  PROVE  /\ j.sources \in Seq(ToSet(j.sources))
         /\ \A k \in DOMAIN j.sources : GivesTexts(j.sources[k], j.responses[k])
BY CrawlsAssumption DEF Jobs

\* The row of an item does not depend on the other items.
LEMMA AloneIsTheRow ==
  ASSUME NEW source, NEW response, NEW query, NEW i
  PROVE  Alone(source, response, query, i) = AddExtracted({}, source, query, Extracted(source, response, i))
BY DEF Alone, Extracted, Context

\* One more item adds to the harvest what it gives alone.
LEMMA HarvestGrows ==
  ASSUME NEW source, NEW response, NEW query, NEW n \in Nat
  PROVE  /\ Harvest(source, response, query, 0) = {}
         /\ Harvest(source, response, query, n + 1) =
              Harvest(source, response, query, n) \cup Alone(source, response, query, n + 1)
<1>1. 1..n + 1 = (1..n) \cup {n + 1} /\ 1..0 = {}
  OBVIOUS
<1> QED
  BY <1>1, Zenon DEF Harvest

\* What an item gives alone is one normal record at most.
LEMMA AloneIsNormal ==
  ASSUME NEW source, NEW response, NEW query, GivesTexts(source, response),
         NEW i \in DOMAIN response.items
  PROVE  \A r \in Alone(source, response, query, i) : Normal(r)
<1>1. Extracted(source, response, i).ok =>
        \A name \in DOMAIN Extracted(source, response, i).memo.row : IsText(Extracted(source, response, i).memo.row[name])
  BY DEF GivesTexts
<1>2. \/ Alone(source, response, query, i) = {}
      \/ \E r : Normal(r) /\ Alone(source, response, query, i) = {r}
  BY <1>1, RowsAddARecord, AloneIsTheRow
<1> QED
  BY <1>2

\* A harvest consists of normal records.
LEMMA HarvestIsNormal ==
  ASSUME NEW source, NEW response, NEW query, GivesTexts(source, response),
         NEW n \in Nat, n <= Len(response.items)
  PROVE  \A r \in Harvest(source, response, query, n) : Normal(r)
<1>1. 1..n \subseteq DOMAIN response.items
  BY DEF GivesTexts
<1> QED
  BY <1>1, AloneIsNormal DEF Harvest

\* Reading one more item gathers one more.
LEMMA ReadingGathers ==
  ASSUME NEW source, NEW response, NEW query, GivesTexts(source, response),
         NEW n \in Nat, n < Len(response.items),
         NEW least, Gathered(Harvest(source, response, query, n), least)
  PROVE  Gathered(Harvest(source, response, query, n + 1),
                  AddExtracted(least, source, query, Extracted(source, response, n + 1)))
<1> DEFINE extracted == Extracted(source, response, n + 1)
           harvest   == Harvest(source, response, query, n)
<1>1. n + 1 \in DOMAIN response.items
  BY DEF GivesTexts
<1>2. extracted.ok => \A name \in DOMAIN extracted.memo.row : IsText(extracted.memo.row[name])
  BY <1>1 DEF GivesTexts
<1>3. \A r \in harvest : Normal(r)
  BY HarvestIsNormal
<1>4. Harvest(source, response, query, n + 1) = harvest \cup AddExtracted({}, source, query, extracted)
  BY HarvestGrows, AloneIsTheRow
<1>5. CASE AddExtracted(least, source, query, extracted) = least /\ AddExtracted({}, source, query, extracted) = {}
  BY <1>4, <1>5
<1>6. CASE \E r : /\ Normal(r)
                  /\ AddExtracted(least, source, query, extracted) = Collapse(least, r)
                  /\ AddExtracted({}, source, query, extracted) = {r}
  BY <1>3, <1>4, <1>6, CollapseGathers
<1> QED
  BY <1>2, <1>5, <1>6, RowsAddARecord

\* The harvest of the first n items of source b of the current job.
HarvestOf(b, n) == Harvest(job.sources[b], job.responses[b], Query(job.sources[b]), n)

ItemsOf(b) == Len(job.responses[b].items)

\* The sources that have been crawled have given the least of all their records,
\* the one that is being read those of the items that have been.
Harvested ==
  /\ batches \in Seq(ToSet(batches))
  /\ step \notin crawlSteps => batches = <<>>
  /\ step \in crawlSteps => Len(batches) <= Len(job.sources)
  /\ \A b \in DOMAIN batches : Gathered(HarvestOf(b, ItemsOf(b)), batches[b])

Reading ==
  /\ step # "reading" => next = 1 /\ kept = {}
  /\ step = "reading" =>
       /\ Len(batches) < Len(job.sources)
       /\ next \in Nat /\ 1 <= next /\ next <= ItemsOf(At) + 1
       /\ Gathered(HarvestOf(At, next - 1), kept)

\* The files of records are well written.
Files ==
  /\ step = "renaming" => WellWritten(staged)
  /\ file # Absent => WellWritten(file)

\* A command that ends leaves no records but those of the file.
LEMMA EndHarvests ==
  ASSUME NEW r, End(r)
  PROVE  Harvested' /\ Reading' /\ (step = "renaming" => WellWritten(staged))'
<1>1. step' = "idle" /\ batches' = <<>> /\ next' = 1 /\ kept' = {}
  BY DEF End
<1>2. Harvested'
  BY <1>1, EmptySequence DEF Harvested, crawlSteps
<1> QED
  BY <1>1, <1>2 DEF Reading

\* The current source of a crawl gives texts.
LEMMA CurrentSource ==
  ASSUME Control, Harvested, step \in crawlSteps
  PROVE  /\ job \in Jobs /\ job.command = "crawl-bt"
         /\ Len(batches) \in Nat /\ DOMAIN batches = 1..Len(batches)
         /\ Len(job.sources) \in Nat /\ DOMAIN job.sources = 1..Len(job.sources)
         /\ \A b \in DOMAIN job.sources :
              /\ GivesTexts(job.sources[b], job.responses[b])
              /\ ItemsOf(b) \in Nat
<1>1. agenda # <<>> /\ job.command = "crawl-bt"
  BY DEF Control, crawlSteps
<1>2. job \in Jobs
  BY <1>1, HeadAndTail DEF Control, job
<1>3. /\ job.sources \in Seq(ToSet(job.sources))
      /\ \A b \in DOMAIN job.sources : GivesTexts(job.sources[b], job.responses[b])
  BY <1>1, <1>2, CrawlJobs
<1>4. \A b \in DOMAIN job.sources : ItemsOf(b) \in Nat
  BY <1>3 DEF GivesTexts, ItemsOf
<1>5. Len(batches) \in Nat /\ DOMAIN batches = 1..Len(batches)
  BY DEF Harvested
<1> QED
  BY <1>1, <1>2, <1>3, <1>4, <1>5

\* While the agenda stays, so does what its sources give.
LEMMA HarvestStays ==
  ASSUME UNCHANGED agenda
  PROVE  /\ job' = job
         /\ \A b : ItemsOf(b)' = ItemsOf(b)
         /\ \A b, n : HarvestOf(b, n)' = HarvestOf(b, n)
BY DEF job, ItemsOf, HarvestOf, Query

\* Reading an item.
LEMMA ReadItemHarvests ==
  ASSUME Control, Harvested, Reading, ReadItem
  PROVE  Harvested' /\ Reading'
<1>1. /\ step = "reading" /\ next <= ItemsOf(At) /\ next' = next + 1
      /\ kept' = AddExtracted(kept, job.sources[At], Query(job.sources[At]),
                              Extracted(job.sources[At], job.responses[At], next))
      /\ UNCHANGED <<agenda, step, batches>>
  BY DEF ReadItem, ItemsOf
<1>2. /\ job' = job
      /\ \A b : ItemsOf(b)' = ItemsOf(b)
      /\ \A b, n : HarvestOf(b, n)' = HarvestOf(b, n)
  BY <1>1, HarvestStays
<1>3. Harvested'
  BY <1>1, <1>2 DEF Harvested
<1>4. /\ At \in DOMAIN job.sources /\ Len(batches) < Len(job.sources)
      /\ GivesTexts(job.sources[At], job.responses[At]) /\ ItemsOf(At) \in Nat
  BY <1>1, CurrentSource DEF Reading, crawlSteps, At
<1>5. next \in Nat /\ 1 <= next /\ Gathered(HarvestOf(At, next - 1), kept)
  BY <1>1 DEF Reading
<1>6. Gathered(HarvestOf(At, next), kept')
  <2> DEFINE n == next - 1
  <2>1. n \in Nat /\ n < Len(job.responses[At].items) /\ n + 1 = next
    BY <1>1, <1>4, <1>5 DEF ItemsOf
  <2>2. Gathered(Harvest(job.sources[At], job.responses[At], Query(job.sources[At]), n), kept)
    BY <1>5 DEF HarvestOf
  <2> HIDE DEF n
  <2>3. Gathered(Harvest(job.sources[At], job.responses[At], Query(job.sources[At]), n + 1),
                 AddExtracted(kept, job.sources[At], Query(job.sources[At]),
                              Extracted(job.sources[At], job.responses[At], n + 1)))
    BY <1>4, <2>1, <2>2, ReadingGathers
  <2> QED
    BY <1>1, <2>1, <2>3 DEF HarvestOf
<1>7. At' = At /\ next' - 1 = next
  BY <1>1, <1>5 DEF At
<1>8. Gathered(HarvestOf(At, next - 1), kept)'
  BY <1>2, <1>6, <1>7
<1> QED
  BY <1>1, <1>2, <1>3, <1>4, <1>5, <1>7, <1>8 DEF Reading

\* A step of a crawl that keeps the records of its sources.
LEMMA HarvestedStays ==
  ASSUME Harvested, UNCHANGED <<agenda, batches>>, (step \in crawlSteps) = (step \in crawlSteps)'
  PROVE  Harvested'
BY HarvestStays DEF Harvested

\* The end of a source.
LEMMA EndSourceHarvests ==
  ASSUME Control, Harvested, Reading, EndSource
  PROVE  Harvested' /\ Reading'
<1>1. /\ step = "reading" /\ next > ItemsOf(At) /\ step' = "crawling"
      /\ batches' = Append(batches, kept) /\ next' = 1 /\ kept' = {} /\ UNCHANGED agenda
  BY DEF EndSource, ItemsOf
<1>2. /\ job' = job
      /\ \A b : ItemsOf(b)' = ItemsOf(b)
      /\ \A b, n : HarvestOf(b, n)' = HarvestOf(b, n)
  BY <1>1, HarvestStays
<1>3. /\ At \in DOMAIN job.sources /\ Len(batches) < Len(job.sources) /\ Len(job.sources) \in Nat
      /\ Len(batches) \in Nat /\ DOMAIN batches = 1..Len(batches) /\ ItemsOf(At) \in Nat
  BY <1>1, CurrentSource DEF Reading, crawlSteps, At
<1>4. next - 1 = ItemsOf(At)
  BY <1>1, <1>3 DEF Reading
<1>5. Gathered(HarvestOf(At, ItemsOf(At)), kept)
  BY <1>1, <1>4 DEF Reading
<1>6. /\ batches' \in Seq(ToSet(batches')) /\ Len(batches') = At /\ DOMAIN batches' = 1..At
      /\ \A b \in DOMAIN batches : batches'[b] = batches[b]
      /\ batches'[At] = kept
  BY <1>1, Appended DEF Harvested, At
<1>7. ASSUME NEW b \in DOMAIN batches' PROVE Gathered(HarvestOf(b, ItemsOf(b)), batches'[b])
  <2>1. CASE b = At
    BY <1>5, <1>6, <2>1
  <2>2. CASE b # At
    <3>1. b \in DOMAIN batches
      BY <1>3, <1>6, <2>2 DEF At
    <3> QED
      BY <1>6, <3>1 DEF Harvested
  <2> QED
    BY <2>1, <2>2
<1>8. \A b \in DOMAIN batches' : Gathered(HarvestOf(b, ItemsOf(b)), batches[b])'
  BY <1>2, <1>7
<1>9. Harvested'
  BY <1>1, <1>2, <1>3, <1>6, <1>8 DEF Harvested, At, crawlSteps
<1> QED
  BY <1>1, <1>9 DEF Reading

\* The start of a source.
LEMMA StartSourceHarvests ==
  ASSUME Control, Harvested, Reading, StartSource
  PROVE  Harvested' /\ Reading'
<1>1. /\ step = "crawling" /\ step' = "reading" /\ At <= Len(job.sources)
      /\ UNCHANGED <<agenda, batches, next, kept>>
  BY DEF StartSource, crawlVars, crawlLocals
<1>2. Harvested'
  BY <1>1, HarvestedStays DEF crawlSteps
<1>3. /\ At \in DOMAIN job.sources /\ Len(batches) < Len(job.sources) /\ ItemsOf(At) \in Nat
      /\ next = 1 /\ kept = {}
  BY <1>1, CurrentSource DEF Reading, crawlSteps, At
<1>4. Gathered(HarvestOf(At, next - 1), kept)
  <2>1. HarvestOf(At, 0) = {}
    BY HarvestGrows DEF HarvestOf
  <2> QED
    BY <1>3, <2>1, NothingGathered
<1>5. /\ job' = job /\ At' = At
      /\ ItemsOf(At)' = ItemsOf(At)
      /\ \A n : HarvestOf(At, n)' = HarvestOf(At, n)
  BY <1>1, HarvestStays DEF At
<1>6. Gathered(HarvestOf(At, next - 1), kept)'
  BY <1>1, <1>4, <1>5
<1> QED
  BY <1>1, <1>2, <1>3, <1>5, <1>6 DEF Reading

\* The records of all sources together are well written when no key repeats.
LEMMA TogetherWellWritten ==
  ASSUME Control, Harvested, step \in crawlSteps, ~RepeatedKey
  PROVE  WellWritten(UNION ToSet(batches))
<1> DEFINE together == UNION ToSet(batches)
<1>1. /\ Len(batches) \in Nat /\ DOMAIN batches = 1..Len(batches)
      /\ \A b \in DOMAIN batches : b \in DOMAIN job.sources
      /\ \A b \in DOMAIN job.sources : GivesTexts(job.sources[b], job.responses[b]) /\ ItemsOf(b) \in Nat
  BY CurrentSource DEF Harvested
<1>2. ASSUME NEW r \in together
      PROVE  /\ Normal(r)
             /\ \E b \in DOMAIN batches : r \in batches[b]
  <2>1. PICK b \in DOMAIN batches : r \in batches[b]
    BY <1>2 DEF ToSet
  <2>2. r \in HarvestOf(b, ItemsOf(b))
    BY <2>1 DEF Harvested, Gathered
  <2>3. Normal(r)
    BY <1>1, <2>2, HarvestIsNormal DEF HarvestOf, ItemsOf
  <2> QED
    BY <2>1, <2>3
<1>3. ASSUME NEW r \in together, NEW s \in together, Key(r) = Key(s) PROVE r = s
  <2>1. PICK b \in DOMAIN batches : r \in batches[b]
    BY <1>2
  <2>2. PICK c \in DOMAIN batches : s \in batches[c]
    BY <1>2
  <2>3. ~(b < c) /\ ~(c < b)
    BY <1>3, <2>1, <2>2 DEF RepeatedKey
  <2>4. b = c
    BY <1>1, <2>3
  <2> QED
    BY <1>3, <2>1, <2>2, <2>4 DEF Harvested, Gathered
<1> QED
  BY <1>2, <1>3 DEF WellWritten, Normal

\* A step of a crawl keeps the records in order.
LEMMA CrawlHarvests ==
  ASSUME Control, Harvested, Reading, Files, Crawl
  PROVE  Harvested' /\ Reading' /\ Files'
<1>1. ASSUME NEW r, End(r), UNCHANGED file PROVE Harvested' /\ Reading' /\ Files'
  BY <1>1, EndHarvests DEF Files
<1>2. ASSUME StartCrawl PROVE Harvested' /\ Reading' /\ Files'
  <2>1. CASE End("failed") /\ UNCHANGED file
    BY <1>1, <2>1
  <2>2. CASE /\ job.command = "crawl-bt" /\ agenda # <<>> /\ step = "idle" /\ step' = "crawling"
             /\ UNCHANGED <<agenda, crawlVars>>
    <3>1. UNCHANGED <<batches, next, kept, staged, file>>
      BY <2>2 DEF crawlVars, crawlLocals
    <3>2. batches = <<>> /\ next = 1 /\ kept = {}
      BY <2>2 DEF Harvested, Reading, crawlSteps
    <3>3. job \in Jobs
      BY <2>2, HeadAndTail DEF Control, job
    <3>4. Len(job.sources) \in Nat
      BY <2>2, <3>3, CrawlJobs
    <3>5. job' = job
      BY <2>2, HarvestStays
    <3>6. Harvested'
      BY <2>2, <3>1, <3>2, <3>4, <3>5, EmptySequence DEF Harvested, crawlSteps
    <3> QED
      BY <2>2, <3>1, <3>2, <3>6 DEF Reading, Files
  <2> QED
    BY <1>2, <2>1, <2>2 DEF StartCrawl
<1>3. ASSUME StartSource PROVE Harvested' /\ Reading' /\ Files'
  BY <1>3, StartSourceHarvests DEF StartSource, Files, crawlVars, crawlLocals
<1>4. ASSUME ReadItem PROVE Harvested' /\ Reading' /\ Files'
  BY <1>4, ReadItemHarvests DEF ReadItem, Files
<1>5. ASSUME EndSource PROVE Harvested' /\ Reading' /\ Files'
  BY <1>5, EndSourceHarvests DEF EndSource, Files
<1>6. ASSUME CrawlFails \/ WriteFails PROVE Harvested' /\ Reading' /\ Files'
  BY <1>1, <1>6 DEF CrawlFails, WriteFails
<1>7. ASSUME WriteTemporary PROVE Harvested' /\ Reading' /\ Files'
  <2>1. /\ step = "crawling" /\ step' = "renaming" /\ ~RepeatedKey /\ staged' = UNION ToSet(batches)
        /\ UNCHANGED <<agenda, batches, next, kept, file>>
    BY <1>7 DEF WriteTemporary
  <2>2. Harvested'
    BY <2>1, HarvestedStays DEF crawlSteps
  <2>3. Reading'
    BY <2>1 DEF Reading
  <2>4. WellWritten(staged')
    BY <2>1, TogetherWellWritten DEF crawlSteps
  <2> QED
    BY <2>1, <2>2, <2>3, <2>4 DEF Files
<1>8. ASSUME RenameRecords PROVE Harvested' /\ Reading' /\ Files'
  BY <1>8, EndHarvests DEF RenameRecords, Files
<1> QED
  BY <1>2, <1>3, <1>4, <1>5, <1>6, <1>7, <1>8 DEF Crawl, CrawlNext

\* A step outside a crawl touches no records.
LEMMA OtherStepsHarvestNothing ==
  ASSUME Control, Harvested, Reading, Files, [Next]_publishVars, ~Crawl
  PROVE  Harvested' /\ Reading' /\ Files'
<1>1. ASSUME NEW r, End(r), UNCHANGED file PROVE Harvested' /\ Reading' /\ Files'
  BY <1>1, EndHarvests DEF Files
<1>2. ASSUME UNCHANGED crawlVars, step \notin crawlSteps, step' \notin crawlSteps
      PROVE  Harvested' /\ Reading' /\ Files'
  <2>1. UNCHANGED <<batches, next, kept, staged, file>>
    BY <1>2 DEF crawlVars, crawlLocals
  <2>2. batches = <<>> /\ next = 1 /\ kept = {}
    BY <1>2 DEF Harvested, Reading, crawlSteps
  <2>3. Harvested'
    BY <1>2, <2>1, <2>2, EmptySequence DEF Harvested
  <2> QED
    BY <1>2, <2>1, <2>2, <2>3 DEF Reading, Files, crawlSteps
<1>3. ASSUME EditSources \/ Crash PROVE Harvested' /\ Reading' /\ Files'
  BY <1>1, <1>3 DEF EditSources, Crash, EndHealth
<1>4. ASSUME Health PROVE Harvested' /\ Reading' /\ Files'
  <2>1. CASE StartHealth
    BY <1>1, <1>2, <2>1 DEF StartHealth, EndHealth, crawlSteps, crawlVars
  <2>2. ASSUME NEW id, TakeSource(id) \/ CheckSource(id) PROVE Harvested' /\ Reading' /\ Files'
    BY <1>2, <2>2 DEF TakeSource, CheckSource, crawlSteps
  <2>3. CASE EndChecks
    BY <1>2, <2>3 DEF EndChecks, crawlSteps
  <2>4. ASSUME NEW f \in {"json", "html"}, ReplaceReport(f) PROVE Harvested' /\ Reading' /\ Files'
    <3>1. CASE EndHealth("ok")
      BY <1>1, <2>4, <3>1 DEF ReplaceReport, EndHealth
    <3>2. CASE f = "json" /\ step' = "html" /\ UNCHANGED crawlLocals
      BY <1>2, <2>4, <3>2 DEF ReplaceReport, crawlSteps, crawlVars
    <3> QED
      BY <2>4, <3>1, <3>2 DEF ReplaceReport, Written
  <2>5. ASSUME NEW f \in {"json", "html"}, MoveAside(f) PROVE Harvested' /\ Reading' /\ Files'
    BY <1>2, <2>5 DEF MoveAside, crawlSteps
  <2>6. ASSUME NEW f \in {"json", "html"}, ReportFails(f) PROVE Harvested' /\ Reading' /\ Files'
    BY <1>1, <2>6 DEF ReportFails, EndHealth
  <2> QED
    BY <1>4, <2>1, <2>2, <2>3, <2>4, <2>5, <2>6 DEF Health
<1>5. ASSUME Build PROVE Harvested' /\ Reading' /\ Files'
  <2>1. CASE StartBuild
    BY <1>2, <2>1 DEF StartBuild, crawlSteps
  <2>2. CASE BuildFails
    BY <1>1, <2>2 DEF BuildFails
  <2>3. ASSUME NEW x, RemovePart(x) \/ RemoveSource(x) PROVE Harvested' /\ Reading' /\ Files'
    BY <1>2, <2>3 DEF RemovePart, RemoveSource, crawlSteps
  <2>4. CASE Publish
    BY <1>1, <2>4 DEF Publish
  <2> QED
    BY <1>5, <2>1, <2>2, <2>3, <2>4 DEF Build
<1>6. ASSUME UNCHANGED publishVars PROVE Harvested' /\ Reading' /\ Files'
  <2>1. UNCHANGED <<agenda, step, batches, next, kept, staged, file>>
    BY <1>6 DEF publishVars, crawlVars, crawlLocals
  <2>2. Harvested'
    BY <2>1, HarvestedStays
  <2>3. Reading'
    BY <2>1, HarvestStays DEF Reading, At
  <2> QED
    BY <2>1, <2>2, <2>3 DEF Files
<1> QED
  BY <1>3, <1>4, <1>5, <1>6 DEF Next

\* At the start nothing has been crawled, and a file of records is well written.
LEMMA HarvestedAtFirst == Init => Harvested /\ Reading /\ Files
<1> SUFFICES ASSUME Init PROVE Harvested /\ Reading /\ Files
  OBVIOUS
<1>1. step = "idle" /\ batches = <<>> /\ next = 1 /\ kept = {}
  BY DEF Init
<1>2. file # Absent => WellWritten(file)
  BY PlansAssumption DEF Init
<1>3. Harvested
  BY <1>1, EmptySequence DEF Harvested, crawlSteps
<1> QED
  BY <1>1, <1>2, <1>3 DEF Reading, Files

\* Whatever commands run, the records are in order.
LEMMA RecordsInOrder == Spec => [](Control /\ Harvested /\ Reading /\ Files)
<1>1. Init => Control /\ Harvested /\ Reading /\ Files
  BY ControlAtFirst, HarvestedAtFirst
<1>2. Control /\ Harvested /\ Reading /\ Files /\ [Next]_publishVars => (Control /\ Harvested /\ Reading /\ Files)'
  BY ControlHolds, CrawlHarvests, OtherStepsHarvestNothing
<1> QED
  BY <1>1, <1>2, PTL DEF Spec

(***************************************************************************)
(* The loop of Crawl: a bad item costs nothing but itself, and the order   *)
(* of the items does not matter, for any number of sources and items and   *)
(* whatever the rules take from them.                                      *)
(***************************************************************************)
THEOREM ItemsStandAlone == Spec => []ItemsAreIndependent
<1>1. ASSUME Control, Harvested PROVE ItemsAreIndependent
  <2> SUFFICES ASSUME NEW b \in DOMAIN batches
               PROVE  batches[b] = Least(UNION {Alone(job.sources[b], job.responses[b], Query(job.sources[b]), i)
                                                  : i \in DOMAIN job.responses[b].items})
    BY DEF ItemsAreIndependent
  <2>1. step \in crawlSteps
    BY <1>1, EmptySequence DEF Harvested
  <2>2. /\ b \in DOMAIN job.sources /\ GivesTexts(job.sources[b], job.responses[b])
        /\ ItemsOf(b) \in Nat
    BY <2>1, <1>1, CurrentSource DEF Harvested
  <2>3. Gathered(HarvestOf(b, ItemsOf(b)), batches[b])
    BY <1>1 DEF Harvested
  <2>4. \A r \in HarvestOf(b, ItemsOf(b)) : Normal(r)
    BY <2>2, HarvestIsNormal DEF HarvestOf, ItemsOf
  <2>5. batches[b] = Least(HarvestOf(b, ItemsOf(b)))
    BY <2>3, <2>4, GatheredAreLeast
  <2>6. DOMAIN job.responses[b].items = 1..ItemsOf(b)
    BY <2>2 DEF GivesTexts, ItemsOf
  <2> QED
    BY <2>5, <2>6 DEF HarvestOf, Harvest
<1> QED
  BY <1>1, RecordsInOrder, PTL

(***************************************************************************)
(* What crawl-bt writes, build can load and index, unless a release has no *)
(* infohash: the keys of WriteJSONL and the duplicates of LoadJSONL agree. *)
(***************************************************************************)
THEOREM WrittenFilesAreGood == Spec => []WrittenFilesLoad
<1>1. ASSUME Files PROVE WrittenFilesLoad
  <2> SUFFICES ASSUME file # Absent, \A r \in file : r.infoHash # Blank
               PROVE  /\ LoadJSONL(file) /\ Indexable(file)
                      /\ \A r \in file : NormalizeRecord(r) = r /\ (r.magnet # Blank => r.magnet.of = r.infoHash.of)
    BY DEF WrittenFilesLoad
  <2>1. /\ \A r \in file : Normal(r)
        /\ \A r, s \in file : Key(r) = Key(s) => r = s
    BY <1>1 DEF Files, WellWritten, Normal
  <2>2. \A r \in file : CanonicalHash(r) = r.infoHash
    BY <2>1, NormalRecords
  <2>3. ~RejectDuplicates(file)
    BY <2>1, <2>2 DEF RejectDuplicates, Key
  <2>4. \A r \in file : Acceptable(r) /\ NormalizeRecord(r) = r
    BY <2>1 DEF Normal
  <2>5. ASSUME NEW r \in file, r.magnet # Blank PROVE r.magnet.of = r.infoHash.of
    <3>1. r.magnet = Text("magnet", r.infoHash.of)
      BY <2>1, <2>5, NormalRecords
    <3> QED
      BY <3>1, FieldsOfText
  <2> QED
    BY <2>3, <2>4, <2>5 DEF LoadJSONL, Indexable
<1> QED
  BY <1>1, RecordsInOrder, PTL

-----------------------------------------------------------------------------
(* The reports of a health run                                             *)

\* Two reports agree when the page is no younger than the report beside it.
Agree(json, html) == html.at >= json.at /\ (html.at = json.at => html = json)

\* The workers and what they have found: each source of the repository waits, is
\* being checked or has a status.
Checks ==
  /\ step \notin healthSteps => waiting = {} /\ busy = {} /\ checked = None
  /\ step = "checking" => DOMAIN repository = waiting \cup busy \cup DOMAIN checked
  /\ step \in {"json", "html"} => DOMAIN checked = DOMAIN repository /\ waiting = {} /\ busy = {}
  /\ \A id \in DOMAIN checked : checked[id] \in Status(repository[id], job.mode)

\* A report that is in place or aside is of an earlier run, but for the JSON
\* report of this one while the page is being written.
Reports ==
  /\ DOMAIN reports \subseteq {"json", "html"}
  /\ \A f \in DOMAIN reports : reports[f].at \in Nat /\ reports[f].at >= Len(agenda)
  /\ \A old \in aside : old.at \in Nat /\ old.at > Len(agenda)
  /\ step # "html" => \A f \in DOMAIN reports : reports[f].at > Len(agenda)
  /\ step = "html" =>
       /\ "json" \in DOMAIN reports /\ reports["json"] = Report
       /\ "html" \in DOMAIN reports => reports["html"].at > Len(agenda)
  /\ {"json", "html"} \subseteq DOMAIN reports => Agree(reports["json"], reports["html"])
  /\ aside # {} => step \in {"json", "html"}
  /\ step = "json" /\ "html" \in DOMAIN reports => \A old \in aside : Agree(old, reports["html"])

\* What With does to a map.
LEMMA WithOneMore ==
  ASSUME NEW map, NEW key, NEW value
  PROVE  /\ DOMAIN With(map, key, value) = DOMAIN map \cup {key}
         /\ With(map, key, value)[key] = value
         /\ \A k \in DOMAIN map : k # key => With(map, key, value)[k] = map[k]
BY DEF With

\* The commands other than health, and a step that does nothing.
LEMMA OtherCommands ==
  ASSUME Control, Crawl \/ EditSources \/ Build \/ UNCHANGED publishVars
  PROVE  /\ UNCHANGED healthVars
         /\ step' = step \/ (step \notin healthSteps /\ step' \notin healthSteps)
         /\ UNCHANGED <<agenda, repository>> \/ step \notin healthSteps
         /\ UNCHANGED agenda \/ (agenda # <<>> /\ \E r : End(r))
<1>1. CASE UNCHANGED publishVars
  BY <1>1 DEF publishVars
<1>2. CASE EditSources
  BY <1>2 DEF EditSources, End, healthSteps
<1>3. ASSUME Crawl PROVE /\ UNCHANGED <<healthVars, repository>>
                         /\ step \notin healthSteps /\ step' \notin healthSteps
                         /\ UNCHANGED agenda \/ (agenda # <<>> /\ \E r : End(r))
  <2>1. UNCHANGED <<healthVars, repository>> /\ CrawlNext
    BY <1>3 DEF Crawl
  <2>2. CASE StartCrawl
    BY <2>1, <2>2 DEF StartCrawl, End, healthSteps
  <2>3. CASE StartSource \/ ReadItem \/ EndSource \/ WriteTemporary
    BY <2>1, <2>3 DEF StartSource, ReadItem, EndSource, WriteTemporary, healthSteps
  <2>4. CASE CrawlFails \/ WriteFails \/ RenameRecords
    <3>1. step \notin healthSteps /\ step # "idle" /\ \E r : End(r)
      BY <2>4 DEF CrawlFails, WriteFails, RenameRecords, healthSteps
    <3> QED
      BY <2>1, <3>1 DEF Control, End, healthSteps
  <2> QED
    BY <2>1, <2>2, <2>3, <2>4 DEF CrawlNext
<1>4. ASSUME Build PROVE /\ UNCHANGED <<healthVars, repository>>
                         /\ step \notin healthSteps /\ step' \notin healthSteps
                         /\ UNCHANGED agenda \/ (agenda # <<>> /\ \E r : End(r))
  <2>1. CASE StartBuild
    BY <2>1 DEF StartBuild, healthSteps
  <2>2. CASE BuildFails \/ Publish
    BY <2>2 DEF BuildFails, Publish, End, Control, healthSteps
  <2>3. ASSUME NEW x, RemovePart(x) \/ RemoveSource(x)
        PROVE  UNCHANGED <<healthVars, repository, agenda, step>> /\ step = "replacing"
    BY <2>3 DEF RemovePart, RemoveSource
  <2> QED
    BY <1>4, <2>1, <2>2, <2>3 DEF Build, healthSteps
<1> QED
  BY <1>1, <1>2, <1>3, <1>4


\* The statuses of the sources stay within reach.
LEMMA ChecksHold == Control /\ Checks /\ [Next]_publishVars => Checks'
<1> SUFFICES ASSUME Control, Checks, [Next]_publishVars PROVE Checks'
  OBVIOUS
<1>1. DOMAIN None = {}
  BY DEF None
<1>2. ASSUME NEW r, EndHealth(r) PROVE Checks'
  BY <1>1, <1>2 DEF EndHealth, End, Checks, healthSteps
<1>3. ASSUME Crawl \/ EditSources \/ Build \/ UNCHANGED publishVars PROVE Checks'
  <2>1. UNCHANGED <<waiting, busy, checked>>
    BY <1>3, OtherCommands DEF healthVars
  <2>2. CASE UNCHANGED <<agenda, step, repository>>
    BY <2>1, <2>2 DEF Checks, job
  <2>3. CASE step \notin healthSteps /\ step' \notin healthSteps
    <3>1. waiting = {} /\ busy = {} /\ checked = None
      BY <2>3 DEF Checks
    <3> QED
      BY <1>1, <2>1, <2>3, <3>1 DEF Checks, healthSteps
  <2>4. (UNCHANGED <<agenda, step, repository>>) \/ (step \notin healthSteps /\ step' \notin healthSteps)
    BY <1>3, OtherCommands
  <2> QED
    BY <2>2, <2>3, <2>4
<1>4. ASSUME StartHealth PROVE Checks'
  <2>1. CASE EndHealth("failed")
    BY <1>2, <2>1
  <2>2. CASE step' = "checking" /\ waiting' = DOMAIN repository /\ UNCHANGED <<busy, checked>>
    <3>1. busy = {} /\ checked = None /\ UNCHANGED repository
      BY <1>4 DEF StartHealth, Checks, healthSteps
    <3> QED
      BY <1>1, <2>2, <3>1 DEF Checks, healthSteps
  <2> QED
    BY <1>4, <2>1, <2>2 DEF StartHealth
<1>5. ASSUME NEW id, TakeSource(id) PROVE Checks'
  BY <1>5 DEF TakeSource, Checks, healthSteps, job
<1>6. ASSUME NEW id \in DOMAIN repository, CheckSource(id) PROVE Checks'
  <2>1. /\ step = "checking" /\ id \in busy /\ busy' = busy \ {id}
        /\ UNCHANGED <<step, repository, waiting, agenda>>
    BY <1>6 DEF CheckSource
  <2>2. PICK status \in Status(repository[id], job.mode) : checked' = With(checked, id, status)
    BY <1>6 DEF CheckSource
  <2>3. /\ DOMAIN checked' = DOMAIN checked \cup {id} /\ checked'[id] = status
        /\ \A k \in DOMAIN checked : k # id => checked'[k] = checked[k]
    BY <2>2 DEF With
  <2>4. \A k \in DOMAIN checked' : checked'[k] \in Status(repository'[k], job'.mode)
    BY <2>1, <2>2, <2>3 DEF Checks, job
  <2>5. DOMAIN repository' = waiting' \cup busy' \cup DOMAIN checked'
    BY <2>1, <2>3 DEF Checks
  <2> QED
    BY <2>1, <2>4, <2>5 DEF Checks, healthSteps
<1>7. ASSUME EndChecks PROVE Checks'
  <2>1. /\ step = "checking" /\ step' = "json" /\ waiting = {} /\ busy = {}
        /\ UNCHANGED <<agenda, repository, waiting, busy, checked>>
    BY <1>7 DEF EndChecks, healthVars
  <2> QED
    BY <2>1 DEF Checks, healthSteps, job
<1>8. ASSUME NEW f \in {"json", "html"}, ReplaceReport(f) PROVE Checks'
  <2>1. CASE EndHealth("ok")
    BY <1>2, <2>1
  <2>2. CASE f = "json" /\ step' = "html" /\ UNCHANGED <<agenda, waiting, busy, checked>>
    BY <1>8, <2>2 DEF ReplaceReport, Checks, healthSteps, job
  <2> QED
    BY <1>8, <2>1, <2>2 DEF ReplaceReport, Written
<1>9. ASSUME NEW f \in {"json", "html"}, MoveAside(f) PROVE Checks'
  BY <1>9 DEF MoveAside, Checks, job
<1>10. ASSUME NEW f \in {"json", "html"}, ReportFails(f) PROVE Checks'
  BY <1>2, <1>10 DEF ReportFails
<1>11. ASSUME Health PROVE Checks'
  BY <1>4, <1>5, <1>6, <1>7, <1>8, <1>9, <1>10, <1>11 DEF Health
<1>12. ASSUME Crash PROVE Checks'
  BY <1>2, <1>12 DEF Crash
<1> QED
  BY <1>3, <1>11, <1>12 DEF Next


\* When a command ends, the reports that are in place are of the past.
LEMMA ReportsAtEnd ==
  ASSUME Control, agenda # <<>>, NEW r, End(r), aside' = {},
         DOMAIN reports' \subseteq {"json", "html"},
         \A f \in DOMAIN reports' : reports'[f].at \in Nat /\ reports'[f].at >= Len(agenda),
         {"json", "html"} \subseteq DOMAIN reports' => Agree(reports'["json"], reports'["html"])
  PROVE  Reports'
<1>1. step' = "idle" /\ Len(agenda') < Len(agenda) /\ Len(agenda) \in Nat /\ Len(agenda') \in Nat
  BY EndShortens
<1>2. \A f \in DOMAIN reports' : reports'[f].at > Len(agenda') /\ reports'[f].at >= Len(agenda')
  BY <1>1
<1> QED
  BY <1>1, <1>2 DEF Reports

\* The reports stay in order.
LEMMA ReportsHold == Control /\ Reports /\ [Next]_publishVars => Reports'
<1> SUFFICES ASSUME Control, Reports, [Next]_publishVars PROVE Reports'
  OBVIOUS
<1> Len(agenda) \in Nat
  BY DEF Control
<1>1. ASSUME NEW r, End(r), agenda # <<>>, aside' = {}, UNCHANGED reports PROVE Reports'
  <2>1. \A f \in DOMAIN reports' : reports'[f].at \in Nat /\ reports'[f].at >= Len(agenda)
    BY <1>1 DEF Reports
  <2>2. {"json", "html"} \subseteq DOMAIN reports' => Agree(reports'["json"], reports'["html"])
    BY <1>1 DEF Reports
  <2>3. DOMAIN reports' \subseteq {"json", "html"}
    BY <1>1 DEF Reports
  <2> QED
    BY <1>1, <2>1, <2>2, <2>3, ReportsAtEnd
<1>2. ASSUME UNCHANGED <<agenda, reports, aside>>, step \notin {"json", "html"}, step' # "html" PROVE Reports'
  <2>1. aside = {}
    BY <1>2 DEF Reports
  <2> QED
    BY <1>2, <2>1 DEF Reports
<1>3. ASSUME Crawl \/ EditSources \/ Build \/ UNCHANGED publishVars PROVE Reports'
  <2>1. UNCHANGED <<reports, aside, checked>>
    BY <1>3, OtherCommands DEF healthVars
  <2>2. CASE UNCHANGED <<agenda, step>>
    BY <2>1, <2>2 DEF Reports, Report
  <2>3. CASE UNCHANGED agenda /\ step \notin healthSteps /\ step' \notin healthSteps
    BY <1>2, <2>1, <2>3 DEF healthSteps
  <2>4. CASE agenda # <<>> /\ (\E r : End(r)) /\ step \notin healthSteps
    <3>1. aside = {}
      BY <2>4 DEF Reports, healthSteps
    <3> QED
      BY <1>1, <2>1, <2>4, <3>1
  <2>5. step' = step \/ (step \notin healthSteps /\ step' \notin healthSteps)
    BY <1>3, OtherCommands
  <2>6. UNCHANGED agenda \/ (agenda # <<>> /\ \E r : End(r))
    BY <1>3, OtherCommands
  <2>7. UNCHANGED <<agenda, repository>> \/ step \notin healthSteps
    BY <1>3, OtherCommands
  <2> QED
    BY <2>2, <2>3, <2>4, <2>5, <2>6, <2>7
<1>4. ASSUME StartHealth PROVE Reports'
  <2>1. agenda # <<>> /\ step = "idle" /\ UNCHANGED <<reports, aside>>
    BY <1>4 DEF StartHealth
  <2>2. aside = {}
    BY <2>1 DEF Reports
  <2>3. CASE EndHealth("failed")
    BY <1>1, <2>1, <2>2, <2>3 DEF EndHealth
  <2>4. CASE step' = "checking" /\ UNCHANGED agenda
    BY <1>2, <2>1, <2>4
  <2> QED
    BY <1>4, <2>3, <2>4 DEF StartHealth
<1>5. ASSUME NEW id, TakeSource(id) \/ CheckSource(id) PROVE Reports'
  <2>1. step = "checking" /\ UNCHANGED <<agenda, step, reports, aside>>
    BY <1>5 DEF TakeSource, CheckSource
  <2> QED
    BY <1>2, <2>1
<1>6. ASSUME EndChecks PROVE Reports'
  <2>1. step = "checking" /\ step' = "json" /\ UNCHANGED <<agenda, reports, aside>>
    BY <1>6 DEF EndChecks, healthVars
  <2> QED
    BY <1>2, <2>1
<1>7. ASSUME ReplaceReport("json") PROVE Reports'
  <2>1. step = "json" /\ step' = "html" /\ aside' = {} /\ UNCHANGED <<agenda, checked>>
    BY <1>7 DEF ReplaceReport, Written
  <2>2. reports' = With(reports, "json", Report) /\ Report' = Report
    BY <1>7, <2>1 DEF ReplaceReport, Report
  <2>3. /\ DOMAIN reports' = DOMAIN reports \cup {"json"} /\ reports'["json"] = Report
        /\ "html" \in DOMAIN reports => reports'["html"] = reports["html"]
    BY <2>2 DEF With
  <2>4. Report.at = Len(agenda)
    BY DEF Report
  <2>5. "html" \in DOMAIN reports => reports["html"].at \in Nat /\ reports["html"].at > Len(agenda)
    BY <2>1 DEF Reports
  <2>6. "html" \in DOMAIN reports' => reports'["html"].at \in Nat /\ reports'["html"].at > Len(agenda')
    BY <2>1, <2>3, <2>5
  <2>7. DOMAIN reports' \subseteq {"json", "html"} /\ "json" \in DOMAIN reports'
    BY <2>3 DEF Reports
  <2>8. \A f \in DOMAIN reports' : reports'[f].at \in Nat /\ reports'[f].at >= Len(agenda')
    BY <2>1, <2>3, <2>4, <2>6, <2>7
  <2>9. "html" \in DOMAIN reports' => Agree(reports'["json"], reports'["html"])
    BY <2>1, <2>3, <2>4, <2>6 DEF Agree
  <2> QED
    BY <2>1, <2>2, <2>3, <2>6, <2>7, <2>8, <2>9 DEF Reports
<1>8. ASSUME ReplaceReport("html") PROVE Reports'
  <2>1. step = "html" /\ aside' = {} /\ End("ok") /\ reports' = With(reports, "html", Report)
    BY <1>8 DEF ReplaceReport, Written, EndHealth
  <2>2. "json" \in DOMAIN reports /\ reports["json"] = Report
    BY <2>1 DEF Reports
  <2>3. DOMAIN reports' = {"json", "html"} /\ reports'["json"] = Report /\ reports'["html"] = Report
    BY <2>1, <2>2 DEF With, Reports
  <2>4. Report.at = Len(agenda)
    BY DEF Report
  <2>5. Agree(Report, Report)
    BY <2>4 DEF Agree
  <2>6. \A f \in DOMAIN reports' : reports'[f].at \in Nat /\ reports'[f].at >= Len(agenda)
    BY <2>3, <2>4
  <2>7. agenda # <<>>
    BY <2>1 DEF Control
  <2> QED
    BY <2>1, <2>3, <2>5, <2>6, <2>7, ReportsAtEnd
<1>9. ASSUME NEW f \in {"json", "html"}, MoveAside(f) PROVE Reports'
  <2>1. /\ step = f /\ f \in DOMAIN reports /\ aside' = {reports[f]} /\ UNCHANGED <<agenda, step, checked>>
        /\ DOMAIN reports' = DOMAIN reports \ {f} /\ \A g \in DOMAIN reports' : reports'[g] = reports[g]
    BY <1>9 DEF MoveAside
  <2>2. Report' = Report
    BY <2>1 DEF Report
  <2>3. reports[f].at \in Nat /\ reports[f].at > Len(agenda)
    BY <2>1 DEF Reports
  <2>4. CASE f = "json"
    <3>1. "html" \in DOMAIN reports => Agree(reports["json"], reports["html"])
      BY <2>1, <2>4 DEF Reports
    <3>2. \A g \in DOMAIN reports : reports[g].at \in Nat /\ reports[g].at >= Len(agenda) /\ reports[g].at > Len(agenda)
      BY <2>1, <2>4 DEF Reports
    <3>3. DOMAIN reports' \subseteq {"html"} /\ "json" \notin DOMAIN reports'
      BY <2>1, <2>4 DEF Reports
    <3> QED
      BY <2>1, <2>3, <2>4, <3>1, <3>2, <3>3 DEF Reports
  <2>5. CASE f = "html"
    <3>1. "json" \in DOMAIN reports /\ reports["json"] = Report
      BY <2>1, <2>5 DEF Reports
    <3>2. reports["json"].at \in Nat /\ reports["json"].at >= Len(agenda)
      BY <3>1 DEF Reports
    <3>3. DOMAIN reports' = {"json"} /\ reports'["json"] = Report'
      BY <2>1, <2>2, <2>5, <3>1 DEF Reports
    <3>4. reports'["json"].at \in Nat /\ reports'["json"].at >= Len(agenda')
      BY <2>1, <2>2, <3>1, <3>2, <3>3
    <3> QED
      BY <2>1, <2>3, <2>5, <3>3, <3>4 DEF Reports
  <2> QED
    BY <2>4, <2>5
<1>10. ASSUME NEW f \in {"json", "html"}, ReportFails(f) PROVE Reports'
  <2>1. step = f /\ aside' = {} /\ End("failed") /\ agenda # <<>>
    BY <1>10 DEF ReportFails, EndHealth, Control
  <2>2. CASE reports' = reports
    BY <1>1, <2>1, <2>2
  <2>3. ASSUME NEW old \in aside, reports' = With(reports, f, old) PROVE Reports'
    <3>1. old.at \in Nat /\ old.at > Len(agenda)
      BY DEF Reports
    <3>2. /\ DOMAIN reports' = DOMAIN reports \cup {f} /\ reports'[f] = old
          /\ \A g \in DOMAIN reports : g # f => reports'[g] = reports[g]
      BY <2>3 DEF With
    <3>3. DOMAIN reports' \subseteq {"json", "html"}
      BY <3>2 DEF Reports
    <3>4. \A g \in DOMAIN reports : reports[g].at \in Nat /\ reports[g].at >= Len(agenda)
      BY DEF Reports
    <3>5. \A g \in DOMAIN reports' : reports'[g].at \in Nat /\ reports'[g].at >= Len(agenda)
      BY <3>1, <3>2, <3>4
    <3>6. CASE f = "json"
      <4>1. "html" \in DOMAIN reports => Agree(old, reports["html"])
        BY <2>1, <3>6 DEF Reports
      <4> QED
        BY <2>1, <3>2, <3>3, <3>5, <3>6, <4>1, ReportsAtEnd
    <3>7. CASE f = "html"
      <4>1. "json" \in DOMAIN reports /\ reports["json"].at = Len(agenda)
        BY <2>1, <3>7 DEF Reports, Report
      <4>2. Agree(reports["json"], old)
        BY <3>1, <4>1 DEF Agree
      <4> QED
        BY <2>1, <3>2, <3>3, <3>5, <3>7, <4>1, <4>2, ReportsAtEnd
    <3> QED
      BY <3>6, <3>7
  <2> QED
    BY <1>10, <2>2, <2>3 DEF ReportFails
<1>11. ASSUME Health PROVE Reports'
  BY <1>4, <1>5, <1>6, <1>7, <1>8, <1>9, <1>10, <1>11 DEF Health
<1>12. ASSUME Crash PROVE Reports'
  <2>1. End("crashed") /\ aside' = {} /\ UNCHANGED reports /\ agenda # <<>>
    BY <1>12 DEF Crash, EndHealth, Control
  <2> QED
    BY <1>1, <2>1
<1> QED
  BY <1>3, <1>11, <1>12 DEF Next


\* At the start there is no report, and nothing is being checked.
LEMMA NothingReportedAtFirst == Init => Checks /\ Reports
<1> SUFFICES ASSUME Init PROVE Checks /\ Reports
  OBVIOUS
<1>1. step = "idle" /\ waiting = {} /\ busy = {} /\ checked = None /\ reports = None /\ aside = {}
  BY DEF Init
<1>2. DOMAIN None = {}
  BY DEF None
<1> QED
  BY <1>1, <1>2 DEF Checks, Reports, healthSteps

\* Whatever commands run, the reports are in order.
LEMMA ReportsInOrder == Spec => [](Control /\ Checks /\ Reports)
<1>1. Init => Control /\ Checks /\ Reports
  BY ControlAtFirst, NothingReportedAtFirst
<1>2. Control /\ Checks /\ Reports /\ [Next]_publishVars => (Control /\ Checks /\ Reports)'
  BY ControlHolds, ChecksHold, ReportsHold
<1> QED
  BY <1>1, <1>2, PTL DEF Spec

(***************************************************************************)
(* Generate and WriteAtomic: the report to be written has a status of each *)
(* source, for any number of workers and in any order of theirs, and the   *)
(* page in place is never younger than the JSON report beside it.          *)
(***************************************************************************)
THEOREM ReportsAreOfOneRun == Spec => []ReportsAgree
<1>1. Checks /\ Reports => ReportsAgree
  BY DEF Checks, Reports, ReportsAgree, Agree
<1> QED
  BY <1>1, ReportsInOrder, PTL

\* What FailedRunsKeepReports says of a step.
Keeps(f) ==
  LET Ends(r)      == step' = "idle" /\ result' = r
      Has(version) == f \in DOMAIN reports' /\ reports'[f] = version
  IN /\ f \in DOMAIN reports /\ f \notin DOMAIN reports' =>
          step = f /\ step' = f /\ aside' = {reports[f]}
     /\ step = f /\ aside # {} /\ step' # f =>
          \/ Has(Report) /\ ~Ends("failed")
          \/ Ends("failed") /\ ((\E old \in aside : Has(old)) \/ refusals' = 3)
          \/ Ends("crashed")

KeepsReports == \A f \in {"json", "html"} : Keeps(f)

(***************************************************************************)
(* WriteAtomic: a report leaves its place only for its backup, and a run   *)
(* that goes on or fails leaves the new one or the old one in that place,  *)
(* wherever it fails, unless the rename that puts the old one back is the  *)
(* third that is refused.                                                  *)
(***************************************************************************)
THEOREM ReportsAreKept == Spec => FailedRunsKeepReports
<1>1. ASSUME Control, [Next]_publishVars PROVE KeepsReports
  <2>1. ASSUME UNCHANGED reports, step \notin {"json", "html"} \/ UNCHANGED step PROVE KeepsReports
    BY <2>1 DEF KeepsReports, Keeps
  <2>2. ASSUME Crawl \/ EditSources \/ Build \/ UNCHANGED publishVars PROVE KeepsReports
    <3>1. UNCHANGED reports /\ (UNCHANGED step \/ step \notin healthSteps)
      BY <1>1, <2>2, OtherCommands DEF healthVars
    <3> QED
      BY <2>1, <3>1 DEF healthSteps
  <2>3. ASSUME NEW id, StartHealth \/ TakeSource(id) \/ CheckSource(id) \/ EndChecks PROVE KeepsReports
    <3>1. UNCHANGED reports /\ step \notin {"json", "html"}
      BY <2>3 DEF StartHealth, TakeSource, CheckSource, EndChecks, healthVars
    <3> QED
      BY <2>1, <3>1
  <2>4. ASSUME NEW f \in {"json", "html"}, ReplaceReport(f) PROVE KeepsReports
    <3>1. /\ step = f /\ DOMAIN reports' = DOMAIN reports \cup {f} /\ reports'[f] = Report
          /\ step' = "html" \/ (step' = "idle" /\ result' = "ok")
      BY <2>4 DEF ReplaceReport, With, Written, EndHealth, End
    <3> QED
      BY <3>1 DEF KeepsReports, Keeps
  <2>5. ASSUME NEW f \in {"json", "html"}, MoveAside(f) PROVE KeepsReports
    <3>1. /\ step = f /\ step' = f /\ aside = {} /\ aside' = {reports[f]}
          /\ DOMAIN reports' = DOMAIN reports \ {f}
      BY <2>5 DEF MoveAside
    <3> QED
      BY <3>1 DEF KeepsReports, Keeps
  <2>6. ASSUME NEW f \in {"json", "html"}, ReportFails(f) PROVE KeepsReports
    <3>1. step = f /\ step' = "idle" /\ result' = "failed"
      BY <2>6 DEF ReportFails, EndHealth, End
    <3>2. CASE reports' = reports /\ (aside = {} \/ refusals' = 3)
      BY <3>1, <3>2 DEF KeepsReports, Keeps
    <3>3. ASSUME NEW old \in aside, reports' = With(reports, f, old) PROVE KeepsReports
      <4>1. DOMAIN reports' = DOMAIN reports \cup {f} /\ reports'[f] = old
        BY <3>3 DEF With
      <4> QED
        BY <3>1, <4>1 DEF KeepsReports, Keeps
    <3> QED
      BY <2>6, <3>2, <3>3 DEF ReportFails
  <2>7. ASSUME Crash PROVE KeepsReports
    <3>1. UNCHANGED reports /\ step' = "idle" /\ result' = "crashed"
      BY <2>7 DEF Crash, EndHealth, End
    <3> QED
      BY <3>1 DEF KeepsReports, Keeps
  <2> QED
    BY <1>1, <2>2, <2>3, <2>4, <2>5, <2>6, <2>7 DEF Next, Health
<1>2. Control /\ [Next]_publishVars => KeepsReports
  BY <1>1
<1>3. Spec => [][KeepsReports]_publishVars
  BY <1>2, CommandsInOrder, PTL DEF Spec
<1> QED
  BY <1>3 DEF FailedRunsKeepReports, KeepsReports, Keeps


-----------------------------------------------------------------------------
(* The release                                                             *)

\* A release that lacks parts is as much of one piece as it was with them.
LEMMA FewerParts ==
  ASSUME NEW parts, OnePiece(parts), NEW part,
         NEW fewer, fewer = [p \in DOMAIN parts \ {part} |-> parts[p]]
  PROVE  OnePiece(fewer)
<1>1. /\ DOMAIN fewer \subseteq DOMAIN parts
      /\ "index"   \in DOMAIN fewer => fewer.index = parts.index
      /\ "sources" \in DOMAIN fewer => fewer.sources = parts.sources
      /\ "health"  \in DOMAIN fewer => fewer.health = parts.health
      /\ "btIndex" \in DOMAIN fewer => fewer.btIndex = parts.btIndex
  OBVIOUS
<1> QED
  BY <1>1 DEF OnePiece

\* So is one that lacks files of its sources.
LEMMA FewerSources ==
  ASSUME NEW parts, OnePiece(parts), NEW ids, ids \subseteq DOMAIN parts.sources,
         NEW fewer, fewer = [parts EXCEPT !.sources = [i \in ids |-> parts.sources[i]]]
  PROVE  OnePiece(fewer)
<1>1. /\ DOMAIN fewer = DOMAIN parts
      /\ "index"   \in DOMAIN fewer => fewer.index = parts.index
      /\ "health"  \in DOMAIN fewer => fewer.health = parts.health
      /\ "btIndex" \in DOMAIN fewer => fewer.btIndex = parts.btIndex
      /\ "sources" \in DOMAIN fewer =>
           /\ DOMAIN fewer.sources \subseteq DOMAIN parts.sources
           /\ \A id \in DOMAIN fewer.sources : fewer.sources[id] = parts.sources[id]
  OBVIOUS
<1> QED
  BY <1>1 DEF OnePiece

\* No part is missing where there is none, and none does not fit.
LEMMA NoParts == OnePiece(None)
<1>1. DOMAIN None = {}
  BY DEF None
<1> QED
  BY <1>1 DEF OnePiece

\* What build assembles is of one piece and whole: its checks are enough.
LEMMA AssembledOfOnePiece ==
  ASSUME Files, Buildable,
         NEW parts, parts = [index   |-> Index(reports["json"], BTRecordsOf(job)), sources |-> repository,
                             health  |-> reports["json"], btIndex |-> BTRecordsOf(job)]
  PROVE  OnePiece(parts) /\ Whole(parts)
<1> DEFINE records == BTRecordsOf(job)
<1>1. /\ parts.sources = repository /\ parts.health = reports["json"] /\ parts.btIndex = records
      /\ DOMAIN parts = Parts
      /\ parts.index.health = Digest(parts.health) /\ parts.index.btIndex = Digest(parts.btIndex)
      /\ DOMAIN parts.index.sources = DOMAIN repository
      /\ \A id \in DOMAIN repository :
           /\ parts.index.sources[id] = IndexEntry(repository[id])
           /\ parts.index.sources[id].kind = repository[id].kind
  BY DEF Index, IndexEntry, Parts
<1>2. DOMAIN repository = DOMAIN parts.health.statuses
  BY <1>1 DEF Buildable, ValidateHealthReport
<1>3. ASSUME NEW r \in records
      PROVE  /\ r.source \in DOMAIN repository /\ repository[r.source].kind = "bt"
             /\ r.infoHash.is = "hash"
             /\ \A s \in records : s.source = r.source /\ s.infoHash = r.infoHash => s = r
  <2>1. ValidateBTRecordSources(records) /\ Indexable(records)
    BY DEF Buildable
  <2>2. r.source \in DOMAIN repository /\ repository[r.source].kind = "bt"
    BY <2>1 DEF ValidateBTRecordSources
  <2>3. r.infoHash # Blank /\ ~RejectDuplicates(records)
    BY <2>1 DEF Indexable
  <2>4. job.records /\ file # Absent /\ records = {NormalizeRecord(q) : q \in file}
    BY DEF BTRecordsOf, Buildable
  <2>5. \A q \in file : Normal(q)
    BY <2>4 DEF Files, WellWritten, Normal
  <2>6. \A q \in records : Normal(q)
    BY <2>4, <2>5 DEF Normal
  <2>7. \A q \in records : CanonicalHash(q) = q.infoHash
    BY <2>6, NormalRecords
  <2>8. r.infoHash.is = "hash"
    BY <2>3, <2>6, NormalRecords
  <2>9. \A s \in records : s.source = r.source /\ s.infoHash = r.infoHash => s = r
    BY <2>3, <2>7 DEF RejectDuplicates
  <2> QED
    BY <2>2, <2>8, <2>9
<1>4. OnePiece(parts)
  <2> HIDE DEF records
  <2> QED
    BY <1>1, <1>2, <1>3 DEF OnePiece
<1> QED
  BY <1>1, <1>4 DEF Whole

\* The release being assembled, when there is one, and the one in place.
Pieces ==
  /\ OnePiece(assembled)
  /\ OnePiece(release)
  /\ step = "replacing" => Whole(assembled)

\* No command but build begins to replace a release.
LEMMA OnlyBuildReplaces ==
  ASSUME [Next]_publishVars, step' = "replacing"
  PROVE  step = "replacing" \/ StartBuild
<1>1. CASE Crawl
  BY <1>1 DEF Crawl, CrawlNext, StartCrawl, StartSource, ReadItem, EndSource, CrawlFails,
              WriteTemporary, WriteFails, RenameRecords, End
<1>2. CASE EditSources \/ Crash
  BY <1>2 DEF EditSources, Crash, EndHealth, End
<1>3. CASE Health
  BY <1>3 DEF Health, StartHealth, TakeSource, CheckSource, EndChecks, ReplaceReport, Written,
              MoveAside, ReportFails, EndHealth, End
<1>4. CASE Build
  BY <1>4 DEF Build, BuildFails, RemovePart, RemoveSource, Publish, End
<1>5. CASE UNCHANGED publishVars
  BY <1>5 DEF publishVars
<1> QED
  BY <1>1, <1>2, <1>3, <1>4, <1>5 DEF Next

\* Each step leaves both of one piece.
LEMMA PiecesHold == Files /\ Pieces /\ [Next]_publishVars => Pieces'
<1> SUFFICES ASSUME Files, Pieces, [Next]_publishVars PROVE Pieces'
  OBVIOUS
<1>1. ASSUME UNCHANGED releaseVars, ~StartBuild PROVE Pieces'
  BY <1>1, OnlyBuildReplaces DEF Pieces, releaseVars
<1>2. ASSUME assembled' = None, OnePiece(release'), step' = "idle" PROVE Pieces'
  BY <1>2, NoParts DEF Pieces
<1>3. ASSUME StartBuild PROVE Pieces'
  <2>1. OnePiece(assembled') /\ Whole(assembled')
    BY <1>3, AssembledOfOnePiece DEF StartBuild
  <2> QED
    BY <1>3, <2>1 DEF StartBuild, Pieces
<1>4. ASSUME NEW part, RemovePart(part) PROVE Pieces'
  <2>1. OnePiece(release')
    BY <1>4, FewerParts DEF RemovePart, Pieces
  <2> QED
    BY <1>4, <2>1 DEF RemovePart, Pieces
<1>5. ASSUME NEW id, RemoveSource(id) PROVE Pieces'
  <2> DEFINE ids == SourceFiles \ {id}
  <2>1. ids \subseteq DOMAIN release.sources
    BY DEF SourceFiles
  <2>2. release' = [release EXCEPT !.sources = [i \in ids |-> release.sources[i]]]
    BY <1>5 DEF RemoveSource
  <2>3. OnePiece(release')
    <3> HIDE DEF ids
    <3> QED
      BY <2>1, <2>2, FewerSources DEF Pieces
  <2> QED
    BY <1>5, <2>3 DEF RemoveSource, Pieces
<1>6. ASSUME Publish PROVE Pieces'
  BY <1>2, <1>6 DEF Publish, Pieces, End
<1>7. ASSUME Health PROVE Pieces'
  <2>1. UNCHANGED releaseVars
    BY <1>7 DEF Health, StartHealth, TakeSource, CheckSource, EndChecks,
                ReplaceReport, MoveAside, ReportFails
  <2>2. step' = "replacing" => step = "replacing"
    BY <1>7 DEF Health, StartHealth, TakeSource, CheckSource, EndChecks, ReplaceReport, Written,
                MoveAside, ReportFails, EndHealth, End
  <2> QED
    BY <2>1, <2>2 DEF Pieces, releaseVars
<1>8. ASSUME BuildFails \/ Crash PROVE Pieces'
  BY <1>2, <1>8 DEF BuildFails, Crash, EndHealth, End, Pieces
<1>9. ASSUME Crawl \/ EditSources \/ UNCHANGED publishVars PROVE Pieces'
  <2>1. UNCHANGED releaseVars
    BY <1>9 DEF Crawl, EditSources, publishVars
  <2> QED
    BY <1>1, <1>3, <2>1
<1> QED
  BY <1>3, <1>4, <1>5, <1>6, <1>7, <1>8, <1>9 DEF Next, Build

\* A build that ends well has put what it assembled in place.
LEMMA PublishedWhole ==
  ASSUME Pieces, [Next]_publishVars, step = "replacing", step' = "idle", result' = "ok"
  PROVE  Whole(release')
<1>1. CASE Publish
  BY <1>1 DEF Publish, Pieces
<1>2. CASE Crawl
  BY <1>2 DEF Crawl, CrawlNext, StartCrawl, StartSource, ReadItem, EndSource, CrawlFails,
              WriteTemporary, WriteFails, RenameRecords
<1>3. CASE EditSources \/ Crash
  BY <1>3 DEF EditSources, Crash, EndHealth, End
<1>4. CASE Health
  BY <1>4 DEF Health, StartHealth, TakeSource, CheckSource, EndChecks, ReplaceReport,
              MoveAside, ReportFails
<1>5. CASE StartBuild \/ BuildFails
  BY <1>5 DEF StartBuild, BuildFails, End
<1>6. ASSUME NEW x, RemovePart(x) \/ RemoveSource(x) PROVE FALSE
  BY <1>6 DEF RemovePart, RemoveSource
<1>7. CASE UNCHANGED publishVars
  BY <1>7 DEF publishVars
<1> QED
  BY <1>1, <1>2, <1>3, <1>4, <1>5, <1>6, <1>7 DEF Next, Build

(***************************************************************************)
(* Build: whatever the sources, the records and the reports were when the  *)
(* command ran and wherever it was stopped, between two files of the old   *)
(* release too, the files of the release that are in place are of one      *)
(* release, and a build that ends well leaves a whole one.                 *)
(***************************************************************************)
THEOREM ReleaseIsOfOnePiece == Spec => ReleaseOfOnePiece
<1>1. Init => Pieces
  BY NoParts DEF Init, Pieces
<1>2. Pieces => OnePiece(release)
  BY DEF Pieces
<1>3. Control /\ Harvested /\ Reading /\ Files => Files
  OBVIOUS
<1>4. Pieces /\ [Next]_publishVars =>
        (step = "replacing" /\ step' = "idle" /\ result' = "ok" => Whole(release'))
  BY PublishedWhole
<1> QED
  BY <1>1, <1>2, <1>3, <1>4, PiecesHold, RecordsInOrder, PTL DEF Spec, ReleaseOfOnePiece


-----------------------------------------------------------------------------
(* The choice of a subject                                                 *)

Less == {p \in Nat \X Nat : p[1] < p[2]}

\* A set of numbers that is not empty has a least element.
LEMMA LeastNumber ==
  ASSUME NEW S, S \subseteq Nat, S # {}
  PROVE  Min(S) \in S
<1>1. IsWellFoundedOn(Less, Nat)
  BY NatLessThanWellFounded DEF OpToRel, Less
<1>2. PICK x \in S : \A y \in S : <<y, x>> \notin Less
  BY <1>1, WFMin
<1>3. ASSUME NEW y \in S PROVE x =< y
  <2>1. <<y, x>> \notin Less /\ x \in Nat /\ y \in Nat
    BY <1>2
  <2> QED
    BY <2>1 DEF Less
<1> QED
  BY <1>3 DEF Min

AllScores == {0, 6, 9, 10}

\* The best of some scores is one of them, and none is better.
LEMMA BestScore ==
  ASSUME NEW S, S \subseteq AllScores
  PROVE  /\ Max({0} \cup S) \in {0} \cup S
         /\ \A x \in S : Max({0} \cup S) >= x
<1>1. \E x \in {0} \cup S : \A y \in {0} \cup S : x >= y
  <2>1. CASE 10 \in S
    BY <2>1 DEF AllScores
  <2>2. CASE 10 \notin S /\ 9 \in S
    BY <2>2 DEF AllScores
  <2>3. CASE 10 \notin S /\ 9 \notin S /\ 6 \in S
    BY <2>3 DEF AllScores
  <2>4. CASE 10 \notin S /\ 9 \notin S /\ 6 \notin S
    BY <2>4 DEF AllScores
  <2> QED
    BY <2>1, <2>2, <2>3, <2>4
<1> QED
  BY <1>1 DEF Max

\* The seasons of titles are numbers, as is the season asked for.
LEMMA SeasonsAreNumbers ==
  ASSUME NEW subject, IsSubject(subject)
  PROVE  WantedSeason(subject) \in Nat
<1> DEFINE named == {i \in DOMAIN subject.titles : Season(subject.titles[i]) > 0}
<1>1. CASE named # {}
  <2>1. named \subseteq Nat
    BY DEF IsSubject
  <2>2. Min(named) \in named
    BY <1>1, <2>1, LeastNumber
  <2>3. Season(subject.titles[Min(named)]) \in Nat
    BY <2>2 DEF IsSubject, IsTitle, Season
  <2> QED
    BY <1>1, <2>3 DEF WantedSeason, IsSubject
<1>2. CASE named = {}
  BY <1>2 DEF WantedSeason, IsSubject
<1> QED
  BY <1>1, <1>2

\* A text has the class and the number it is made of.
LEMMA TextHas == \A class, of : Text(class, of).is = class /\ Text(class, of).of = of
BY DEF Text

\* A numbered title that stands for one asked for is of the season asked for.
LEMMA AliasIsOfTheSeason ==
  ASSUME NEW subject, IsSubject(subject), NEW t, IsNumberedAlias(t, subject)
  PROVE  t.is = "numbered" /\ t.of = WantedSeason(subject) /\ t.of >= 2
<1>1. PICK u \in ToSet(subject.titles) :
        NumberedSeasonTitle(u) = t /\ t # Blank /\ Season(u) = WantedSeason(subject)
  BY DEF IsNumberedAlias
<1>2. u.is = "title" /\ u.of >= 2 /\ t = Text("numbered", u.of)
  BY <1>1 DEF NumberedSeasonTitle
<1> QED
  BY <1>1, <1>2, TextHas DEF Season


\* A title is of the season asked for.
OfTheSeason(t, subject) == SeasonOf(t) = IF WantedSeason(subject) = 0 THEN 1 ELSE WantedSeason(subject)

\* A title that contains one asked for, or is contained in it, and is not held
\* back for want of a season is of the season asked for.
LEMMA LikeTitlesFit ==
  ASSUME NEW subject, IsSubject(subject), NEW t, IsTitle(t), NEW year,
         ~IsNumberedAlias(t, subject),
         Considered(t, year, CandidateSeason(t, subject), subject),
         NEW alias \in ToSet(subject.titles), t # alias, Includes(t, alias),
         WantedSeason(subject) > 1 => CandidateSeason(t, subject) # 0
  PROVE  OfTheSeason(t, subject)
<1>1. WantedSeason(subject) \in Nat
  BY SeasonsAreNumbers
<1>2. CandidateSeason(t, subject) = Season(t)
  BY DEF CandidateSeason
<1>3. /\ t.of \in Nat /\ t.is \in {"title", "season", "numbered"}
      /\ Text("title", 0) = t \/ Text("title", 0) = alias
  BY DEF IsTitle, Includes
<1>4. t.is \in {"title", "season"} => Season(t) = t.of
  BY DEF Season
<1>5. t.is = "numbered" => Season(t) = 0
  BY DEF Season
<1>6. /\ WantedSeason(subject) <= 1 => Season(t) <= 1 /\ ~IsNumberedSequel(t, subject.titles)
      /\ WantedSeason(subject) > 1 => Season(t) = WantedSeason(subject)
  <2>1. WantedSeason(subject) > 0 /\ Season(t) > 0 => Season(t) = WantedSeason(subject)
    BY <1>2 DEF Considered
  <2>2. Season(t) \in Nat
    BY <1>3, <1>4, <1>5
  <2>3. WantedSeason(subject) <= 1 => ~(Season(t) > 1) /\ ~IsNumberedSequel(t, subject.titles)
    BY DEF Considered, Later
  <2> QED
    BY <1>1, <1>2, <2>1, <2>2, <2>3
<1>7. CASE t.is \in {"title", "season"}
  BY <1>1, <1>3, <1>4, <1>6, <1>7 DEF OfTheSeason, SeasonOf
<1>8. CASE t.is = "numbered"
  <2>1. WantedSeason(subject) <= 1
    BY <1>1, <1>5, <1>6, <1>8
  <2>2. Text("title", 0) \in ToSet(subject.titles)
    BY <1>3, <1>8, TextHas
  <2>3. ~(t.of > 1)
    BY <1>6, <1>8, <2>1, <2>2 DEF IsNumberedSequel
  <2> QED
    BY <1>1, <1>3, <1>8, <2>1, <2>3 DEF OfTheSeason, SeasonOf
<1> QED
  BY <1>3, <1>7, <1>8

\* The scores of the titles asked for.
Aliases(t, subject) == {AliasScore(t, u, subject) : u \in ToSet(subject.titles) \ {Blank, Text("marks", 0)}}

\* Each of them is one of four.
LEMMA AliasScores ==
  ASSUME NEW t, NEW subject
  PROVE  Aliases(t, subject) \subseteq AllScores
<1>1. \A u : AliasScore(t, u, subject) \in AllScores
  BY DEF AliasScore, AllScores
<1> QED
  BY <1>1 DEF Aliases

\* So is the score of a title.
LEMMA TitleScores ==
  ASSUME NEW t, NEW key, NEW year, NEW subject
  PROVE  TitleScore(t, key, year, subject) \in AllScores
<1>1. Max({0} \cup Aliases(t, subject)) \in AllScores
  BY AliasScores, BestScore DEF AllScores
<1> QED
  BY <1>1 DEF TitleScore, Aliases, AllScores

\* A title with a score that is good enough fits.
LEMMA GoodScoresFit ==
  ASSUME NEW subject, IsSubject(subject), NEW t, IsTitle(t), NEW key, NEW year,
         TitleScore(t, key, year, subject) >= 8
  PROVE  t \in ToSet(subject.titles) \/ key \in subject.ids \/ OfTheSeason(t, subject)
<1>1. Considered(t, year, CandidateSeason(t, subject), subject)
  BY DEF TitleScore
<1>2. CASE IsNumberedAlias(t, subject)
  BY <1>2, AliasIsOfTheSeason DEF OfTheSeason, SeasonOf
<1>3. CASE ~IsNumberedAlias(t, subject) /\ key \notin subject.ids
  <2>1. Max({0} \cup Aliases(t, subject)) >= 8
    BY <1>1, <1>3 DEF TitleScore, Aliases
  <2>2. Max({0} \cup Aliases(t, subject)) \in {0} \cup Aliases(t, subject)
    BY AliasScores, BestScore
  <2>3. PICK alias \in ToSet(subject.titles) : AliasScore(t, alias, subject) >= 8
    BY <2>1, <2>2 DEF Aliases
  <2>4. CASE t = alias
    BY <2>4
  <2>5. CASE t # alias
    <3>1. Includes(t, alias) /\ (WantedSeason(subject) > 1 => CandidateSeason(t, subject) # 0)
      BY <2>3, <2>5 DEF AliasScore
    <3> QED
      BY <1>1, <1>3, <2>5, <3>1, LikeTitlesFit
  <2> QED
    BY <2>4, <2>5
<1> QED
  BY <1>2, <1>3


\* An exact match has the best score of all.
LEMMA ExactScores ==
  ASSUME NEW subject, IsSubject(subject), NEW row, Exact(row, subject)
  PROVE  RowScore(row, subject) = 10
<1> DEFINE t    == Title(row)
           key  == Value(row, "subject_key")
           year == Value(row, "year")
<1> HIDE DEF t, key, year
<1>1. /\ t \in ToSet(subject.titles) /\ t.is \in {"title", "season"} /\ Season(t) = WantedSeason(subject)
      /\ year = Blank /\ RowScore(row, subject) = TitleScore(t, key, year, subject)
  BY DEF Exact, t, key, year, RowScore
<1>2. WantedSeason(subject) \in Nat
  BY SeasonsAreNumbers
<1>3. CandidateSeason(t, subject) = WantedSeason(subject)
  BY <1>1 DEF CandidateSeason
<1>4. t # Blank /\ t # Text("marks", 0)
  BY <1>1, TextHas DEF Blank
<1>5. ~Later(t, subject)
  BY <1>1, <1>2 DEF Later, IsNumberedSequel
<1>6. year.is # "number"
  BY <1>1, TextHas DEF Blank
<1>7. Considered(t, year, CandidateSeason(t, subject), subject)
  BY <1>3, <1>4, <1>5, <1>6 DEF Considered
<1>8. AliasScore(t, t, subject) = 10
  BY <1>1, <1>2, <1>3 DEF AliasScore
<1>9. 10 \in Aliases(t, subject)
  BY <1>1, <1>4, <1>8 DEF Aliases
<1>10. Max({0} \cup Aliases(t, subject)) = 10
  <2>1. Max({0} \cup Aliases(t, subject)) \in {0} \cup Aliases(t, subject)
    BY AliasScores, BestScore
  <2>2. Max({0} \cup Aliases(t, subject)) >= 10
    BY <1>9, AliasScores, BestScore
  <2>3. Max({0} \cup Aliases(t, subject)) \in AllScores
    BY <2>1, AliasScores DEF AllScores
  <2> QED
    BY <2>2, <2>3 DEF AllScores
<1>11. TitleScore(t, key, year, subject) = 10
  BY <1>7, <1>10 DEF TitleScore, Aliases
<1> QED
  BY <1>1, <1>11

(***************************************************************************)
(* chooseSubject, for any rows and any subject: the row that is chosen     *)
(* fits, and an exact match is not passed over.                            *)
(***************************************************************************)
THEOREM ChoicesAreRight ==
  ASSUME NEW subject, IsSubject(subject), NEW rows, AreRows(rows)
  PROVE  ChoiceIsRight(rows, subject)
<1> DEFINE scores == [i \in DOMAIN rows |-> RowScore(rows[i], subject)]
           best   == Max({0} \cup ToSet(scores))
           chosen == FirstWith(rows, scores, best)
           firsts == {i \in DOMAIN rows : scores[i] = best}
<1>1. ChooseSubject(rows, subject) = chosen
  BY DEF ChooseSubject, Scored
<1>2. \A i \in DOMAIN rows : scores[i] = RowScore(rows[i], subject) /\ scores[i] \in AllScores
  BY TitleScores DEF RowScore
<1>3. ToSet(scores) = {scores[i] : i \in DOMAIN rows}
  BY DEF ToSet
<1> HIDE DEF scores
<1>4. ToSet(scores) \subseteq AllScores
  BY <1>2, <1>3
<1>5. best \in {0} \cup ToSet(scores) /\ \A x \in ToSet(scores) : best >= x
  BY <1>4, BestScore
<1>6. best \in AllScores
  BY <1>4, <1>5 DEF AllScores
<1> HIDE DEF best, firsts
<1>7. ASSUME chosen.found PROVE Fits(chosen.row, subject)
  <2>1. best >= 8
    BY <1>6, <1>7 DEF FirstWith, AllScores
  <2>2. best \in ToSet(scores)
    BY <1>5, <2>1
  <2>3. firsts # {}
    BY <1>3, <2>2 DEF firsts
  <2>4. firsts \subseteq Nat
    BY DEF firsts, AreRows
  <2>5. Min(firsts) \in firsts
    BY <2>3, <2>4, LeastNumber
  <2>6. chosen.row = rows[Min(firsts)]
    BY <2>1, <1>6 DEF FirstWith, firsts, AllScores
  <2> DEFINE k == Min(firsts)
  <2>7. k \in DOMAIN rows /\ RowScore(rows[k], subject) >= 8
    BY <1>2, <2>1, <2>5 DEF firsts
  <2>8. IsTitle(Title(rows[k]))
    BY <2>7 DEF AreRows
  <2>9. \/ Title(rows[k]) \in ToSet(subject.titles)
        \/ Value(rows[k], "subject_key") \in subject.ids
        \/ OfTheSeason(Title(rows[k]), subject)
    BY <2>7, <2>8, GoodScoresFit DEF RowScore
  <2> QED
    BY <2>6, <2>9 DEF Fits, OfTheSeason
<1>8. ASSUME NEW i \in DOMAIN rows, Exact(rows[i], subject) PROVE chosen.found /\ chosen.score = 10
  <2>1. scores[i] = 10
    BY <1>2, <1>8, ExactScores
  <2>2. best >= 10
    BY <1>3, <1>5, <2>1
  <2>3. best = 10
    BY <1>6, <2>2 DEF AllScores
  <2> QED
    BY <2>3 DEF FirstWith
<1> QED
  BY <1>1, <1>7, <1>8 DEF ChoiceIsRight, IsRight


\* The searches of every source that is ever checked find rows with titles.
LEMMA SourcesGiveTitles ==
  ASSUME Control
  PROVE  GivesTitles(repository)
<1>1. CASE \E plan \in Plans : repository = plan.repository
  BY <1>1, SearchesAssumption
<1>2. CASE \E j \in Jobs : j.command = "edit" /\ repository = j.repository
  <2>1. PICK plan \in Plans : \E j \in ToSet(plan.agenda) : j.command = "edit" /\ repository = j.repository
    BY <1>2 DEF Jobs
  <2> QED
    BY <2>1, SearchesAssumption
<1> QED
  BY <1>1, <1>2 DEF Control, Repositories

(***************************************************************************)
(* The self-check of a web source, whatever its searches find: the work it *)
(* goes on with is the one it was asked for.                               *)
(***************************************************************************)
THEOREM SubjectsFit == Spec => []ChosenSubjectsFit
<1>1. ASSUME Control, Checks PROVE ChosenSubjectsFit
  <2> SUFFICES ASSUME NEW id \in busy, repository[id].kind = "web", repository[id].enabled,
                      NEW subject \in Subjects \cup {SelfTestSubject(repository[id])}
               PROVE  ChoiceIsRight(FoundRows(repository[id], subject), subject)
    BY DEF ChosenSubjectsFit
  <2>1. id \in DOMAIN repository
    <3>1. step \in healthSteps
      BY <1>1 DEF Checks
    <3>2. step = "checking" => id \in DOMAIN repository
      BY <1>1 DEF Checks
    <3>3. step # "checking" => busy = {}
      BY <1>1, <3>1 DEF Checks, healthSteps
    <3> QED
      BY <3>2, <3>3
  <2>2. GivesTitles(repository)
    BY <1>1, SourcesGiveTitles
  <2>3. AreRows(FoundRows(repository[id], subject))
    BY <2>1, <2>2 DEF GivesTitles
  <2>4. IsSubject(subject)
    BY <2>1, <2>2, SearchesAssumption DEF GivesTitles
  <2> QED
    BY <2>3, <2>4, ChoicesAreRight
<1> QED
  BY <1>1, ReportsInOrder, PTL
=============================================================================
