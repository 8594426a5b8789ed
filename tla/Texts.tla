------------------------------- MODULE Texts -------------------------------
(***************************************************************************)
(* The texts that rules take from a response, and what is made of one of   *)
(* them: firstNonEmpty, firstValue and the conversions of an infohash, an  *)
(* episode and an address of src/internal/btcrawler.                       *)
(*                                                                         *)
(* A text is [is, of], its class and what of that class it is:             *)
(*   title, offtopic  a release title with the wanted subject or another;  *)
(*                    of is its episode, -n a batch 1-n, 0 neither (no     *)
(*                    title has an episode 0)                              *)
(*   marks            a title without a letter or a number                 *)
(*   hash, base32     an infohash in hexadecimal or another encoding       *)
(*   magnet           the magnet of an infohash                            *)
(*   link, url        a relative or an absolute address; the address 0 is  *)
(*                    that of the response itself                          *)
(*   local            an address on a local host                           *)
(*   number           a number                                             *)
(* Case, entities and surrounding blanks are not told apart: the           *)
(* transforms that only change these have nothing to do.                   *)
(***************************************************************************)
EXTENDS Integers, Sequences, FiniteSetsExt

Text(class, of) == [is |-> class, of |-> of]
Blank  == Text("blank", 0)
Failed == Text("error", 0)

FirstNonEmpty(values) ==
  LET texts == {i \in DOMAIN values : values[i] # Blank}
  IN IF texts = {} THEN Blank ELSE values[Min(texts)]

\* firstValue: a row need not have the field.
Value(row, name) == IF name \in DOMAIN row THEN row[name] ELSE Blank

NormalizeInfoHash(text) ==
  IF text.is \in {"hash", "base32"} THEN Text("hash", text.of) ELSE Failed

ParseEpisode(text) ==
  IF text.is \in {"number", "title", "offtopic"} /\ text.of > 0 THEN Text("number", text.of) ELSE Failed

\* A text that is no address is resolved against that of the response; a
\* blank one gives the address of the response itself.
AbsoluteURL(text) ==
  IF text.is \in {"url", "local", "magnet"} THEN text ELSE Text("url", text.of)
=============================================================================
