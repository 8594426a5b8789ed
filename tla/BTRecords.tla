----------------------------- MODULE BTRecords -----------------------------
(***************************************************************************)
(* The records of BT releases: recordFromRow and matchesQuery of           *)
(* src/internal/btcrawler/crawler.go, and the checks a record passes       *)
(* before it enters a file or the published index, of                      *)
(* src/internal/btindex/btindex.go.                                        *)
(*                                                                         *)
(* A record is [source, infoHash, magnet, torrentURL, title, episode]: the *)
(* ID of its source, and texts as in Texts.  Dates, sizes,       *)
(* seeders, groups, resolutions and languages are left out; they are read  *)
(* and checked the way the episode is.                                     *)
(***************************************************************************)
EXTENDS Texts, FiniteSets

\* Addresses are counted from 0.
IsText(t) == t = Text(t.is, t.of) /\ t.of \in Int /\ (t.is = "url" => t.of >= 0)

IsRecord(r) ==
  /\ r = [source |-> r.source, infoHash |-> r.infoHash, magnet |-> r.magnet,
          torrentURL |-> r.torrentURL, title |-> r.title, episode |-> r.episode]
  /\ \A text \in {r.infoHash, r.magnet, r.torrentURL, r.title, r.episode} : IsText(text)

\* A download_url stands in for the magnet or the address the row lacks.
Magnet(row) ==
  IF Value(row, "magnet") = Blank /\ Value(row, "download_url").is = "magnet"
  THEN Value(row, "download_url") ELSE Value(row, "magnet")

TorrentURL(row) ==
  IF Value(row, "torrent_url") = Blank /\ Value(row, "download_url").is \in {"url", "local"}
  THEN Value(row, "download_url") ELSE Value(row, "torrent_url")

InfoHash(row) ==
  IF Value(row, "info_hash") = Blank /\ Magnet(row).is = "magnet"
  THEN Text("hash", Magnet(row).of) ELSE Value(row, "info_hash")

RecordFromRow(source, row) ==
  [source     |-> source,
   infoHash   |-> InfoHash(row),
   magnet     |-> Magnet(row),
   torrentURL |-> TorrentURL(row),
   title      |-> Value(row, "title"),
   episode    |-> Value(row, "episode")]

\* The infohash may be missing only beside the address of a .torrent file.
CanonicalHash(r) ==
  IF r.infoHash = Blank /\ r.torrentURL # Blank THEN Blank ELSE NormalizeInfoHash(r.infoHash)

NormalizeRecord(r) == [r EXCEPT !.infoHash = CanonicalHash(r)]

\* NormalizeRecord returns no error.
Acceptable(r) ==
  /\ CanonicalHash(r) # Failed
  /\ r.title.is \in {"title", "offtopic"}
  /\ r.magnet # Blank \/ r.torrentURL # Blank
  /\ r.magnet # Blank => CanonicalHash(r) # Blank /\ r.magnet = Text("magnet", CanonicalHash(r).of)
  /\ r.torrentURL # Blank => r.torrentURL.is = "url"
  /\ r.episode # Blank => r.episode.is = "number" /\ r.episode.of > 0

\* A title with a range of episodes stands for each of them.
EpisodeRange(title) == 1..(-title.of)

\* matchesQuery: the wanted episode, 0 for any, and the wanted subject.
MatchesQuery(matching, r, query) ==
  /\ query.episode > 0 /\ matching.episode =>
       IF r.episode = Blank THEN query.episode \in EpisodeRange(r.title)
                            ELSE r.episode.of = query.episode
  /\ query.titled /\ matching.subject => r.title.is = "title"

\* Mutant: the address comes before the infohash.
Key_Address(r) == <<r.source, IF r.torrentURL # Blank THEN r.torrentURL ELSE r.infoHash>>

\* Record.Key
Key(r) == <<r.source, IF r.infoHash # Blank THEN r.infoHash ELSE r.torrentURL>>

(***************************************************************************)
(* The order of the records with one key by their JSON.  Which of them is  *)
(* first does not matter, only that no two are equal.                      *)
(***************************************************************************)
Rank(r) ==
  <<IF r.magnet = Blank THEN 1 ELSE 0, IF r.torrentURL = Blank THEN -1 ELSE r.torrentURL.of,
    IF r.title.is = "offtopic" THEN 0 ELSE 1, r.title.of, r.episode.of>>

Precedes(r, s) ==
  \E i \in 1..5 : Rank(r)[i] < Rank(s)[i] /\ \A j \in 1..(i - 1) : Rank(r)[j] = Rank(s)[j]

(***************************************************************************)
(* rejectDuplicates, LoadJSONL and the checks of Build: unlike Key these   *)
(* know no address, so that a source has at most one record without        *)
(* infohash in a file, and none in the index.  Both compare the records    *)
(* they have normalized.                                                   *)
(***************************************************************************)
RejectDuplicates(records) ==
  \E r, s \in records : r # s /\ r.source = s.source /\ CanonicalHash(r) = CanonicalHash(s)

LoadJSONL(records) ==
  /\ \A r \in records : Acceptable(r)
  /\ ~RejectDuplicates(records)

Indexable(records) ==
  /\ \A r \in records : r.infoHash # Blank /\ Acceptable(r)
  /\ ~RejectDuplicates(records)

\* What WriteJSONL leaves: normalized records, one for a key.
WellWritten(records) ==
  /\ \A r \in records : IsRecord(r) /\ Acceptable(r) /\ NormalizeRecord(r) = r
  /\ \A r, s \in records : Key(r) = Key(s) => r = s
=============================================================================
