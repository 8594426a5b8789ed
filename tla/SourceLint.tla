----------------------------- MODULE SourceLint -----------------------------
(***************************************************************************)
(* What the repository demands of one Source Spec document before it lets  *)
(* the document in: Validator.ValidateSource, that is the JSON schema      *)
(* followed by lintSource, of src/internal/repository/repository.go.       *)
(*                                                                         *)
(* A document is abstracted to the parts those checks and the properties   *)
(* of the importers tell apart:                                            *)
(*   id, kind, enabled  its fields of these names                          *)
(*   origin             the upstream object its origin.digest is taken of  *)
(*   sites              the schemes of its homepage and base_url           *)
(*   requests           the requests with a fixed URL: [host, scheme,      *)
(*                      allowed]; a scheme is "http" (HTTPS too), "other"  *)
(*                      or "none" (the URL is relative)                    *)
(*   follows            the allowed_hosts of requests whose URL is a link  *)
(*                      found by an earlier stage                          *)
(*   opens              resolve.allowed_hosts                              *)
(*   links              the host its relative links lead to                *)
(*   uses               the variables its templates mention                *)
(*   fields             the names its "fields" and "variables" define      *)
(*   headers            the lower-case names of its request headers        *)
(*   patterns           the dialects of its regular expressions            *)
(*   numbers            [tier, channelTiers, titles, perMinute, timeout,   *)
(*                      ttl, priority]; timeout in milliseconds, ttl in    *)
(*                      seconds, -1 when the document has no cache         *)
(*   lost               the parts of the upstream object that neither the  *)
(*                      document nor a diagnostic mentions                 *)
(***************************************************************************)
EXTENDS Integers, Sequences, FiniteSets

CONSTANTS PublicHosts,   \* hosts on the public network
          LocalHosts,    \* localhost, *.local and non-public addresses
          NoHost         \* what a URL without a host has

ASSUME HostsAssumption ==
  /\ PublicHosts \cap LocalHosts = {}
  /\ NoHost \notin PublicHosts \cup LocalHosts

\* The variables every template may use; a document adds its own fields.
TemplateVariables ==
  {"title", "keyword", "source", "episode", "episode_number",
   "episode_index", "line_key", "line_index", "line_number", "page"}

LintTemplates(s) == s.uses \subseteq TemplateVariables \cup s.fields

LintRegexes(s) == s.patterns \subseteq {"re2"}

LintRequests(s) ==
  /\ s.headers \cap {"authorization", "cookie"} = {}
  /\ \A r \in s.requests :
       r.scheme = "http" => /\ r.host \in PublicHosts
                            /\ r.allowed # {} => r.host \in r.allowed

MaxTimeout  == 60000     \* milliseconds
MaxTTL      == 2592000   \* thirty days, in seconds
MaxPriority == 100000

(***************************************************************************)
(* The JSON schema: URLs are HTTP(S), no allow-list is empty, and every    *)
(* number lies in its range.                                               *)
(***************************************************************************)
InSchema(s) ==
  /\ s.sites \subseteq {"http"}
  /\ \A r \in s.requests : r.scheme = "http" /\ r.allowed # {}
  /\ {} \notin s.follows \cup (IF s.kind = "web" THEN {s.opens} ELSE {})
  /\ s.numbers.tier \in 0..9
  /\ s.numbers.channelTiers \subseteq 0..99
  /\ s.numbers.titles \in 1..100
  /\ s.numbers.perMinute \in 1..600
  /\ s.numbers.timeout \in 100..MaxTimeout
  /\ s.numbers.ttl \in -1..MaxTTL
  /\ s.numbers.priority \in -MaxPriority..MaxPriority

\* The file of a source is <kind>/<id>.yaml, so its place always matches it.
ValidateSource(s) ==
  /\ InSchema(s)
  /\ LintTemplates(s)
  /\ LintRegexes(s)
  /\ LintRequests(s)
=============================================================================
