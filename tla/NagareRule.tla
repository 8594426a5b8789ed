----------------------------- MODULE NagareRule -----------------------------
(***************************************************************************)
(* The conversion of one Nagare schema 1 document: ImportNagareV1,         *)
(* src/internal/importer/nagarev1.go.                                      *)
(*                                                                         *)
(* A field of the old document is [old, name, path, options, transforms]:  *)
(* its old name and canonicalNagareField of it, whether it has a path and  *)
(* else the paths of its "any" alternatives, and its transforms.  A path   *)
(* is "none", "ref" ($field) or "plain".  homepage is the set of its       *)
(* scheme, empty without one; normal says that stableID leaves the id as   *)
(* it is written, but for a digest.                                        *)
(***************************************************************************)
EXTENDS SourceLint

NagareTransforms ==
  {"trim", "lower", "format_bytes", "format_kb", "unix_rfc3339", "parse_fansub",
   "regex", "magnet"}

\* nagareTransform: a pattern beyond RE2 and an unknown name are refused.
TransformsOK(f) == f.transforms \subseteq NagareTransforms

\* nagarePathExtractor and nagareFieldExtractor: any failure refuses the field.
FieldOK(f) ==
  /\ \/ f.path # "none"
     \/ f.path = "none" /\ f.options # {} /\ "none" \notin f.options
  /\ TransformsOK(f)

Names(d) == {f.name : f \in d.fields}

NagareOK(d) ==
  /\ d.schema = 1
  /\ d.url.host # NoHost
  /\ d.format \in {"xml", "json"}
  /\ d.items # "none"
  /\ d.fields # {} /\ \A f \in d.fields : FieldOK(f)
  /\ {"title", "magnet"} \subseteq Names(d)

(***************************************************************************)
(* The new fields are a map filled in the random order of the old one: of  *)
(* two old fields with one canonical name the later replaces the other.    *)
(* Kept(d) is every set of fields that can remain.                         *)
(***************************************************************************)
Kept(d) ==
  {K \in SUBSET d.fields : \A n \in Names(d) : \E f \in K : f.name = n /\ \A g \in K : g.name = n => g = f}

\* The timeout in milliseconds: the default below one second, at most sixty.
TimeoutMs(d) ==
  1000 * (IF d.timeout < 1 THEN 20 ELSE IF d.timeout > 60 THEN 60 ELSE d.timeout)

NagareWarnings(d) ==
  {w \in {"id_normalized", "limit_clamped", "selftest_missing", "unsupported_field"} :
     \/ w = "id_normalized" /\ (d.name.lossy \/ d.name.short \/ ~d.normal)
     \/ w = "limit_clamped" /\ d.timeout > 60
     \/ w = "selftest_missing" /\ ~d.selftest
     \/ w = "unsupported_field" /\ d.unknown # {}}

NagareSource(id, d, kept) ==
  [id |-> id, kind |-> "bt", enabled |-> TRUE, origin |-> d,
   sites    |-> d.homepage,
   requests |-> {[host |-> d.url.host, scheme |-> d.url.scheme, allowed |-> {d.url.host}]},
   follows  |-> {}, opens |-> {}, links |-> d.url.host,
   uses     |-> d.url.vars \cup {"magnet"},
   fields   |-> {f.name : f \in kept} \cup {"episode"},
   headers  |-> d.headers,
   patterns |-> {"re2"},
   numbers  |-> [tier |-> 3, channelTiers |-> {}, titles |-> 1, perMinute |-> 30,
                 timeout |-> TimeoutMs(d), ttl |-> -1, priority |-> d.priority],
   lost     |-> {f.old : f \in d.fields \ kept} \cup (IF d.timeout < 1 THEN {"timeout_seconds"} ELSE {})]
=============================================================================
