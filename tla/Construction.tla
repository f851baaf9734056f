---------------------------- MODULE Construction ----------------------------
(***************************************************************************)
(* How rules become a ruleset: core/src/runtime/ingestion.rs reads GeoJSON,*)
(* core/src/runtime/ruleset.rs reads the canonical form, writes it, and    *)
(* builds what either read, or what a program made, behind one gate.       *)
(*                                                                         *)
(* A document is a sequence of rules as JSON: an id, a geometry, a         *)
(* priority, and properties as field to scalar.  A geometry is what the    *)
(* gates make of it, a string id is a number.                              *)
(***************************************************************************)
EXTENDS PropertyValues, Sorting, FiniteSetsExt, SequencesExt

CONSTANTS Documents,  \* documents loaded, as GeoJSON or as canonical JSON
          Programs,   \* sequences of rules that programs make
          Ids,        \* the string ids that are looked up
          MaxBuilds,  \* bound: rulesets begun
          None        \* no ruleset, no document, no id

\* "empty" is a MultiPolygon without a polygon: valid, but with no bounding box.
Geometries == {"valid", "empty", "invalid", "unsupported"}

IsDocument(doc) ==
  /\ Len(doc) \in Nat /\ DOMAIN doc = 1..Len(doc)
  /\ \A i \in DOMAIN doc :
       /\ IsJson(doc[i].id) /\ doc[i].geometry \in Geometries \cup {"missing"}
       /\ \A f \in DOMAIN doc[i].properties : IsJson(doc[i].properties[f])

\* What the types of Rust let a rule be.
IsRule(rule) ==
  /\ rule = [id |-> rule.id, geometry |-> rule.geometry, priority |-> rule.priority,
             properties |-> [f \in DOMAIN rule.properties |-> rule.properties[f]]]
  /\ rule.id \in Int /\ rule.geometry \in Geometries
  /\ rule.priority \in (-IntLimit)..(IntLimit - 1)
  /\ \A f \in DOMAIN rule.properties : IsPropertyValue(rule.properties[f])

IsProgram(rules) ==
  /\ Len(rules) \in Nat /\ rules = [i \in 1..Len(rules) |-> rules[i]]
  /\ \A i \in DOMAIN rules : IsRule(rules[i])

ASSUME ConstructionAssumption ==
  /\ MaxBuilds \in Nat
  /\ None \notin Int \cup [index : Int, owner : Int]
  /\ \A doc \in Documents : IsDocument(doc)
  /\ \A rules \in Programs : IsProgram(rules)
  /\ Ids \subseteq Int

VARIABLES nextId,   \* NEXT_RULESET_ID
          active,   \* the ruleset in use
          input,    \* what was last loaded, and from what
          outcome,  \* what the last load or build came to
          saved,    \* the document last saved
          source,   \* the rules it was saved from
          handle    \* a RuleId the caller holds, and the string it looked up

vars == <<nextId, active, input, outcome, saved, source, handle>>

Built == [code |-> "built", at |-> 0]
Failed(code, at) == [code |-> code, at |-> at]

\* The outcome of a step over a sequence: that of the first element to fail.
FirstFailure(codes) ==
  LET failing == {i \in DOMAIN codes : codes[i] # "ok"} IN
  IF failing = {} THEN Built ELSE Failed(codes[Min(failing)], Min(failing))

-----------------------------------------------------------------------------
\* extract_feature_id: the member, a number as its text, or the property "id"
\* when it is a string.
extract_feature_id(f) ==
  CASE f.id # JsonNull /\ f.id.form = "integer" -> f.id.value \div 2
    [] f.id # JsonNull /\ f.id.form # "integer" -> f.id.value
    [] f.id = JsonNull /\ "id" \in DOMAIN f.properties /\ f.properties["id"].form = "string"
         -> f.properties["id"].value
    [] OTHER -> None

as_i64(j) == j.form = "integer" /\ FitsI64(j.value)

Absent == Json("absent", 0)
PriorityIsTyped(f) == f.priority = Absent \/ as_i64(f.priority)
Priority(f) == IF f.priority = Absent THEN 0 ELSE f.priority.value \div 2

IngestCode(f) ==
  CASE extract_feature_id(f) = None  -> "InvalidGeoJson"
    [] extract_feature_id(f) # None /\ f.geometry = "missing" -> "InvalidGeoJson"
    [] extract_feature_id(f) # None /\ f.geometry # "missing" /\ ~PriorityIsTyped(f)
         -> "RulesetConstructionFailed"
    [] OTHER -> "ok"

rule_from_feature(f) ==
  [id |-> extract_feature_id(f), geometry |-> f.geometry, priority |-> Priority(f),
   properties |-> properties_from_json(f.properties)]

-----------------------------------------------------------------------------
\* The gates of build_indexed, in their order.
GateCode(rules, i) ==
  CASE rules[i].geometry = "unsupported" -> "UnsupportedGeometryType"
    [] rules[i].geometry = "invalid"     -> "InvalidGeometry"
    [] /\ rules[i].geometry \in {"valid", "empty"}
       /\ \/ rules[i].priority < 0
          \/ \E f \in DOMAIN rules[i].properties : ~is_serializable(rules[i].properties[f])
          \/ \E j \in 1..(i - 1) : rules[j].id = rules[i].id
       -> "RulesetConstructionFailed"
    [] OTHER -> "ok"

\* The envelopes, taken once every rule has passed its gates.
EnvelopeCode(rule) ==
  IF rule.geometry = "empty" THEN "RulesetConstructionFailed" ELSE "ok"

\* The order of the ids.
IdLess(rules) ==
  {p \in (DOMAIN rules) \X (DOMAIN rules) : rules[p[1]].id < rules[p[2]].id}

\* Mutants: the id table is in ruleset order; the id table lacks the last rule.
IdOrderUnsorted(rules) == [i \in DOMAIN rules |-> i]
IdOrderShort(rules) == InOrder(1..(Len(rules) - 1), IdLess(rules))

IdOrder(rules) == InOrder(DOMAIN rules, IdLess(rules))

Gates(rules) ==
  LET gates == FirstFailure([i \in DOMAIN rules |-> GateCode(rules, i)]) IN
  IF gates # Built THEN gates
  ELSE FirstFailure([i \in DOMAIN rules |-> EnvelopeCode(rules[i])])

\* build: the identity is drawn before the gates are run.
Build(rules) ==
  /\ nextId' = nextId + 1
  /\ outcome' = Gates(rules)
  /\ active' = IF Gates(rules) # Built THEN active
               ELSE [rules |-> rules, idOrder |-> IdOrder(rules), id |-> nextId]

\* A failure to read the input draws no identity and leaves the ruleset in use.
BuildUnless(failure, rules) ==
  /\ nextId <= MaxBuilds
  /\ IF failure = Built THEN Build(rules)
     ELSE outcome' = failure /\ UNCHANGED <<nextId, active>>

-----------------------------------------------------------------------------
\* What serde makes of one canonical rule.
DeserializesRule(f) ==
  /\ f.id.form = "string"
  /\ f.geometry # "missing"
  /\ PriorityIsTyped(f)
  /\ \A g \in DOMAIN f.properties : deserialize(f.properties[g]) # Unsupported

rule_from_canonical(f) ==
  [id |-> f.id.value, geometry |-> f.geometry, priority |-> Priority(f),
   properties |-> [g \in DOMAIN f.properties |-> deserialize(f.properties[g])]]

\* Mutant: without the slow path, every failure is one of parsing.
from_canonical_fast(doc) == Failed("InvalidGeoJson", 0)

\* Priorities first, naming the rule; what else was wrong still is.  (What the
\* second reading can accept is an object with a key written twice, which a
\* function of the fields is not.)
from_canonical_slow(doc) ==
  LET typed == FirstFailure([i \in DOMAIN doc |-> IF PriorityIsTyped(doc[i]) THEN "ok"
                                                 ELSE "RulesetConstructionFailed"])
  IN  IF typed # Built THEN typed ELSE Failed("InvalidGeoJson", 0)

\* to_canonical
Canonical(rule) ==
  [id |-> Json("string", rule.id), geometry |-> rule.geometry,
   priority |-> Json("integer", 2 * rule.priority),
   properties |-> [g \in DOMAIN rule.properties |-> serialize(rule.properties[g])]]

-----------------------------------------------------------------------------
RuleId(ruleset, index) == [index |-> index, owner |-> ruleset.id]

\* One step of binary_search_by in the id table, from lo to before hi.
Halve(search, lo, hi, string) ==
  LET mid == (lo + hi) \div 2
      id  == active.rules[active.idOrder[mid]].id
  IN  CASE lo >= hi -> None
        [] lo < hi /\ id = string -> RuleId(active, active.idOrder[mid])
        [] lo < hi /\ id < string -> search[<<mid + 1, hi>>]
        [] lo < hi /\ id > string -> search[<<lo, mid>>]

rule_id(string) ==
  LET end    == Len(active.idOrder) + 1
      search[r \in (1..end) \X (1..end)] == Halve(search, r[1], r[2], string)
  IN  search[<<1, end>>]

\* Mutant: an id of another ruleset is looked up by its position.
checked_index_unowned(ruleId) ==
  IF ruleId.index \in DOMAIN active.rules THEN ruleId.index ELSE None

checked_index(ruleId) ==
  IF ruleId.owner = active.id /\ ruleId.index \in DOMAIN active.rules
    THEN ruleId.index ELSE None

string_id(ruleId) ==
  IF checked_index(ruleId) = None THEN None ELSE active.rules[checked_index(ruleId)].id

-----------------------------------------------------------------------------
Init ==
  /\ nextId = 1
  /\ active = None
  /\ input = [from |-> "none", doc |-> <<>>]
  /\ outcome = Built
  /\ saved = None
  /\ source = <<>>
  /\ handle = None

Loaded(from, doc) ==
  /\ input' = [from |-> from, doc |-> doc]
  /\ UNCHANGED <<saved, source, handle>>

\* rules_from_geojson, then build.
FromGeoJson(doc) ==
  /\ BuildUnless(FirstFailure([i \in DOMAIN doc |-> IngestCode(doc[i])]),
                 [i \in DOMAIN doc |-> rule_from_feature(doc[i])])
  /\ Loaded("geojson", doc)

\* The fast path, and the slow one when it fails.
FromCanonical(from, doc) ==
  /\ BuildUnless(IF \A i \in DOMAIN doc : DeserializesRule(doc[i]) THEN Built
                 ELSE from_canonical_slow(doc),
                 [i \in DOMAIN doc |-> rule_from_canonical(doc[i])])
  /\ Loaded(from, doc)

\* Ruleset::build on rules a program made.
FromRules(rules) ==
  /\ BuildUnless(Built, rules)
  /\ Loaded("program", <<>>)

ToCanonical ==
  /\ active # None
  /\ saved' = [i \in DOMAIN active.rules |-> Canonical(active.rules[i])]
  /\ source' = active.rules
  /\ UNCHANGED <<nextId, active, input, outcome, handle>>

LoadSaved == saved # None /\ FromCanonical("saved", saved)

LookUp(string) ==
  /\ active # None
  /\ rule_id(string) # None
  /\ handle' = [ruleId |-> rule_id(string), name |-> string]
  /\ UNCHANGED <<nextId, active, input, outcome, saved, source>>

Next ==
  \/ \E doc \in Documents : FromGeoJson(doc) \/ FromCanonical("canonical", doc)
  \/ \E rules \in Programs : FromRules(rules)
  \/ ToCanonical
  \/ LoadSaved
  \/ \E string \in Ids : LookUp(string)

Spec == Init /\ [][Next]_vars

-----------------------------------------------------------------------------
Codes == {"built", "InvalidGeoJson", "UnsupportedGeometryType", "InvalidGeometry",
          "RulesetConstructionFailed"}

TypeOK ==
  /\ nextId \in 1..(MaxBuilds + 1)
  /\ active # None => /\ active.id \in 1..(nextId - 1)
                      /\ IsInjective(active.idOrder)
                      /\ ToSet(active.idOrder) = DOMAIN active.rules
  /\ outcome.code \in Codes
  /\ outcome.at \in Nat

\* What was saved is what is loaded: every ruleset in use, wherever its rules
\* came from, is accepted again in canonical form, rule for rule, with every
\* property of the same type ("can always round-trip", ruleset.rs).
SavedRulesetsLoad ==
  input.from = "saved" => outcome = Built /\ active.rules = source

\* A string id finds the one rule that has it, and no other string finds any.
LookupFindsTheRule ==
  active # None =>
    \A string \in Ids : \A i \in DOMAIN active.rules :
      rule_id(string) = RuleId(active, i) <=> active.rules[i].id = string

\* A RuleId never names another rule than the one it was looked up for, even
\* after the ruleset it came from was replaced by one with a rule at the same
\* position ("a foreign id is a misuse the accessors reject", ruleset.rs).
HandlesNameTheirRule ==
  active # None /\ handle # None => string_id(handle.ruleId) \in {None, handle.name}

\* "The same gate as GeoJSON ingestion": a document with nothing wrong but
\* priorities fails alike as GeoJSON and as canonical JSON, with the code of
\* construction and the first rule whose priority is no integer, or else the
\* first whose priority is negative.
PriorityFaultsAgree ==
  LET doc      == input.doc
      faulty   == {i \in DOMAIN doc : ~PriorityIsTyped(doc[i])}
      negative == {i \in DOMAIN doc : PriorityIsTyped(doc[i]) /\ Priority(doc[i]) < 0}
  IN  /\ input.from \in {"geojson", "canonical"}
      /\ \A i \in DOMAIN doc :
           /\ doc[i].id.form = "string" /\ doc[i].geometry = "valid"
           /\ \A f \in DOMAIN doc[i].properties : doc[i].properties[f] # JsonNested
           /\ \A j \in 1..(i - 1) : doc[j].id # doc[i].id
      => outcome =
           CASE faulty # {} -> Failed("RulesetConstructionFailed", Min(faulty))
             [] faulty = {} /\ negative # {} ->
                  Failed("RulesetConstructionFailed", Min(negative))
             [] OTHER -> Built
=============================================================================
