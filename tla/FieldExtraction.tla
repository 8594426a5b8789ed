-------------------------- MODULE FieldExtraction --------------------------
(***************************************************************************)
(* The fields of one row of a response: extractFieldMap, evaluateExtractor *)
(* and applyTransform of src/internal/btcrawler/extract.go, which          *)
(* src/internal/sourceruntime/extract.go repeats for web sources.          *)
(*                                                                         *)
(* A definition is [type, at, of, transforms, required].  Its type is      *)
(* "item" or "document", a selector applied to either, "field", another    *)
(* field, "template", a variable or another field, or "any", the first of  *)
(* the definitions of that has a text.  What a selector finds at a place   *)
(* is [ok, values], ok unless it is malformed.                             *)
(*                                                                         *)
(* A context is [kind, definitions, item, document, variables, position];  *)
(* BT rows have no variables, and only the rows of a web list have a position *)
(* that picks their part of what the whole document holds.                 *)
(***************************************************************************)
EXTENDS Texts, SequencesExt, TLC

\* applyTransform, but for the field a magnet's display name is taken from.
\* Rules of web sources take any text for an infohash; the magnet 0 is that of
\* a text that is none.
Applied(kind, transform, text) ==
  CASE transform.type = "normalize_infohash" -> IF kind = "web" THEN text ELSE NormalizeInfoHash(text)
    [] transform.type = "parse_episode"      -> ParseEpisode(text)
    [] transform.type = "absolute_url"       -> AbsoluteURL(text)
    [] transform.type = "default"            -> IF text = Blank THEN transform.value ELSE text
    [] transform.type = "magnet"             -> IF NormalizeInfoHash(text) # Failed THEN Text("magnet", text.of)
                                                ELSE IF kind = "web" THEN Text("magnet", 0) ELSE Failed

HasDefault(transforms) == \E t \in ToSet(transforms) : t.type = "default"

(***************************************************************************)
(* The locals of extractFieldMap that outlive one call of resolve: row has *)
(* the values of the fields in state 2, and begun the fields in state 1 or *)
(* 2.  A required field that failed stays in state 1.                      *)
(***************************************************************************)
RECURSIVE Resolve(_, _, _), EvaluateExtractor(_, _, _)

\* An alternative that fails or has no text is passed over.
Usable(evaluated) ==
  [ok |-> TRUE, memo |-> evaluated.memo,
   values |-> IF evaluated.ok /\ FirstNonEmpty(evaluated.values) # Blank THEN evaluated.values ELSE <<>>]

Alternatives(definition, context, memo) ==
  FoldLeft(LAMBDA found, alternative :
             IF found.values # <<>> THEN found
             ELSE Usable(EvaluateExtractor(alternative, context, found.memo)),
           [ok |-> TRUE, values |-> <<>>, memo |-> memo],
           definition.of)

Reference(resolved) == [ok |-> resolved.ok, values |-> <<resolved.value>>, memo |-> resolved.memo]

Referred(definition, context, memo) == Reference(Resolve(definition.at, context, memo))

\* A template reads the variables before the fields.
Rendered(definition, context, memo) ==
  IF definition.at \in DOMAIN context.variables
  THEN [ok |-> TRUE, values |-> <<context.variables[definition.at]>>, memo |-> memo]
  ELSE Referred(definition, context, memo)

Selected(definition, context, memo) ==
  LET found == IF definition.type = "document" THEN context.document[definition.at] ELSE context.item[definition.at]
  IN [ok |-> found.ok, values |-> found.values, memo |-> memo]

\* The texts that a transform gives, once the name a magnet shows is resolved.
Renamed(texts, named) ==
  [ok |-> named.ok /\ Failed \notin ToSet(texts), values |-> texts, memo |-> named.memo]

\* One transform applied to every value; one that fails fails all of them.
Transformed(context, done, transform) ==
  IF ~done.ok \/ done.values = <<>> THEN done
  ELSE Renamed([i \in DOMAIN done.values |-> Applied(context.kind, transform, done.values[i])],
               IF transform.type = "magnet" /\ transform.name # "" /\ Applied(context.kind, transform, done.values[1]) # Failed
               THEN Resolve(transform.name, context, done.memo)
               ELSE [ok |-> TRUE, memo |-> done.memo])

\* What was found, the definition's default in its place, through the transforms.
Processed(definition, context, found) ==
  LET filled == IF found.values = <<>> /\ HasDefault(definition.transforms) THEN <<Blank>> ELSE found.values
  IN IF ~found.ok THEN found
     ELSE FoldLeft(LAMBDA done, t : Transformed(context, done, t),
                   [found EXCEPT !.values = filled], definition.transforms)

EvaluateExtractor(definition, context, memo) ==
  Processed(definition, context,
    CASE definition.type = "any"      -> Alternatives(definition, context, memo)
      [] definition.type = "field"    -> Referred(definition, context, memo)
      [] definition.type = "template" -> Rendered(definition, context, memo)
      [] OTHER                        -> Selected(definition, context, memo))

\* A row of a list takes its own part of what the whole document holds.
OwnPart(definition, context, values) ==
  IF context.position = 0 \/ definition.type # "document" THEN values
  ELSE IF context.position <= Len(values) THEN <<values[context.position]>> ELSE <<>>

\* The field's value, given what its definition evaluates to.
Picked(definition, context, evaluated) ==
  [value |-> IF evaluated.ok THEN FirstNonEmpty(OwnPart(definition, context, evaluated.values)) ELSE Blank,
   memo  |-> evaluated.memo]

\* Mutant of Settled: a required field that failed counts as resolved.
Settled_Remembers(name, required, picked) ==
  [ok |-> ~(required /\ picked.value = Blank), value |-> picked.value,
   memo |-> [picked.memo EXCEPT !.row = (name :> picked.value) @@ @]]

Settled(name, required, picked) ==
  IF required /\ picked.value = Blank
  THEN [ok |-> FALSE, value |-> Blank, memo |-> picked.memo]
  ELSE [ok |-> TRUE, value |-> picked.value, memo |-> [picked.memo EXCEPT !.row = (name :> picked.value) @@ @]]

Resolve(name, context, memo) ==
  CASE name \in DOMAIN memo.row -> [ok |-> TRUE, value |-> memo.row[name], memo |-> memo]
    [] name \notin DOMAIN memo.row /\ name \in memo.begun -> [ok |-> FALSE, value |-> Blank, memo |-> memo]
    [] name \notin DOMAIN memo.row \cup memo.begun /\ name \notin DOMAIN context.definitions ->
         IF name \in DOMAIN context.variables
         THEN [ok |-> TRUE, value |-> context.variables[name], memo |-> memo]
         ELSE [ok |-> FALSE, value |-> Blank, memo |-> memo]
    [] OTHER ->
         LET definition == context.definitions[name]
         IN Settled(name, definition.required,
                    Picked(definition, context,
                           EvaluateExtractor(definition, context, [memo EXCEPT !.begun = @ \cup {name}])))

\* The fields are resolved in the order of their names, given as names.
ExtractFieldMap(context, names) ==
  FoldLeft(LAMBDA done, name :
             IF ~done.ok \/ name \notin DOMAIN context.definitions THEN done
             ELSE Resolve(name, context, done.memo),
           [ok |-> TRUE, value |-> Blank, memo |-> [row |-> <<>>, begun |-> {}]], names)

(***************************************************************************)
(* What a row should be, whatever the order of evaluation: every field is  *)
(* its definition evaluated with the references read from the row.         *)
(***************************************************************************)
MeansItsDefinitions(row, context) ==
  \A name \in DOMAIN context.definitions :
    LET definition == context.definitions[name]
    IN /\ row[name] = Picked(definition, context,
                             EvaluateExtractor(definition, context, [row |-> row, begun |-> {}])).value
       /\ definition.required => row[name] # Blank
=============================================================================
