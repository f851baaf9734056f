------------------------- MODULE ConstructionProofs -------------------------
(***************************************************************************)
(* What Construction promises, for every document, every program and every *)
(* bound: that a saved ruleset loads as it was, that the binary search     *)
(* finds the rule with an id, that a rule id never names another rule, and *)
(* that both loaders fault priorities alike.                               *)
(***************************************************************************)
EXTENDS Construction, OrderLemmas

\* A sequence, without its elements in a set.
Indexed(s) == s = [i \in DOMAIN s |-> s[i]] /\ \E n \in Nat : DOMAIN s = 1..n

\* The first place of a sequence where something is wrong.
FirstWrong(codes, i) ==
  i \in DOMAIN codes /\ codes[i] # "ok" /\ \A j \in DOMAIN codes : j < i => codes[j] = "ok"

LEMMA BuiltIsNoFailure ==
  \A code : \A at \in Nat \ {0} : Failed(code, at) # Built
BY DEF Built, Failed

\* A number below the others is their minimum.
LEMMA MinIs ==
  ASSUME NEW S \in SUBSET Int, NEW i \in S, \A j \in S : i <= j
  PROVE  Min(S) = i
<1>1. \A j \in S : i =< j
  OBVIOUS
<1>2. Min(S) \in S /\ \A j \in S : Min(S) =< j
  BY <1>1 DEF Min
<1>3. i \in Int /\ Min(S) \in Int /\ i <= Min(S) /\ Min(S) <= i
  BY <1>2
<1>4. QED  BY <1>3

\* The outcome of a sequence is Built, or the failure at the first wrong place.
LEMMA FirstFailureIs ==
  ASSUME NEW codes, \E n \in Nat : DOMAIN codes = 1..n
  PROVE  /\ FirstFailure(codes) = Built => \A i \in DOMAIN codes : codes[i] = "ok"
         /\ (\A i \in DOMAIN codes : codes[i] = "ok") => FirstFailure(codes) = Built
         /\ \A i : FirstWrong(codes, i) => FirstFailure(codes) = Failed(codes[i], i)
         /\ FirstFailure(codes) # Built => \E i : FirstWrong(codes, i)
<1> DEFINE failing == {i \in DOMAIN codes : codes[i] # "ok"}
<1>1. failing \in SUBSET Int /\ \A i \in failing : i \in Nat \ {0} /\ 1 <= i
  OBVIOUS
<1>2. ASSUME NEW i, FirstWrong(codes, i)
      PROVE  FirstFailure(codes) = Failed(codes[i], i) /\ FirstFailure(codes) # Built
  <2>1. i \in failing /\ \A j \in failing : i <= j
    <3>1. i \in failing
      BY <1>2 DEF FirstWrong
    <3>2. \A j \in failing : ~(j < i) /\ j \in Int /\ i \in Int
      BY <1>1, <1>2, <3>1 DEF FirstWrong
    <3>3. QED  BY <3>1, <3>2
  <2>2. Min(failing) = i
    BY <1>1, <2>1, MinIs
  <2>3. FirstFailure(codes) = Failed(codes[i], i)
    BY <2>1, <2>2 DEF FirstFailure
  <2>4. QED  BY <1>1, <2>1, <2>3, BuiltIsNoFailure
<1>3. failing # {} => \E i : FirstWrong(codes, i)
  <2> SUFFICES ASSUME failing # {}  PROVE \E i : FirstWrong(codes, i)
    OBVIOUS
  <2>1. \E i \in failing : \A j \in failing : i <= j
    <3> HIDE DEF failing
    <3>1. QED  BY <1>1, LeastExists
  <2>2. PICK i \in failing : \A j \in failing : i <= j
    BY <2>1
  <2>3. \A j \in DOMAIN codes : j < i => j \notin failing
    BY <1>1, <2>2
  <2>4. QED  BY <2>2, <2>3 DEF FirstWrong
<1>4. failing = {} => FirstFailure(codes) = Built
  BY DEF FirstFailure
<1>5. QED  BY <1>2, <1>3, <1>4

\* The codes of a first failure are among those of the elements.
LEMMA FirstFailureTyped ==
  ASSUME NEW codes, \E n \in Nat : DOMAIN codes = 1..n,
         \A i \in DOMAIN codes : codes[i] \in Codes \cup {"ok"}
  PROVE  FirstFailure(codes).code \in Codes /\ FirstFailure(codes).at \in Nat
<1>1. CASE FirstFailure(codes) = Built
  BY <1>1 DEF Built, Codes
<1>2. CASE FirstFailure(codes) # Built
  <2>1. PICK i : FirstWrong(codes, i)
    BY <1>2, FirstFailureIs
  <2>2. FirstFailure(codes) = Failed(codes[i], i)
    BY <2>1, FirstFailureIs
  <2>3. codes[i] \in Codes /\ i \in Nat
    BY <2>1 DEF FirstWrong
  <2>4. QED  BY <2>2, <2>3 DEF Failed
<1>3. QED  BY <1>1, <1>2

-----------------------------------------------------------------------------
\* Rules that the types of Rust admit, and those the gates admit.
AreRules(rules) == Indexed(rules) /\ \A i \in DOMAIN rules : IsRule(rules[i])

Admitted(rules) ==
  /\ AreRules(rules)
  /\ \A i \in DOMAIN rules :
       /\ rules[i].geometry = "valid" /\ rules[i].priority >= 0
       /\ \A f \in DOMAIN rules[i].properties : is_serializable(rules[i].properties[f])
  /\ \A i, j \in DOMAIN rules : rules[i].id = rules[j].id => i = j

\* Whatever the gates let through is admitted.
LEMMA GatesAdmit ==
  ASSUME NEW rules, AreRules(rules)
  PROVE  /\ Gates(rules) = Built => Admitted(rules)
         /\ Gates(rules).code \in Codes /\ Gates(rules).at \in Nat
<1> DEFINE codes == [i \in DOMAIN rules |-> GateCode(rules, i)]
           boxes == [i \in DOMAIN rules |-> EnvelopeCode(rules[i])]
<1>1. (\E n \in Nat : DOMAIN codes = 1..n) /\ (\E n \in Nat : DOMAIN boxes = 1..n)
  BY DEF AreRules, Indexed
<1>2. /\ DOMAIN codes = DOMAIN rules /\ \A i \in DOMAIN rules : codes[i] = GateCode(rules, i)
      /\ DOMAIN boxes = DOMAIN rules /\ \A i \in DOMAIN rules : boxes[i] = EnvelopeCode(rules[i])
  OBVIOUS
<1>3. Gates(rules) = IF FirstFailure(codes) # Built THEN FirstFailure(codes)
                                                    ELSE FirstFailure(boxes)
  BY DEF Gates
<1>4. \A i \in DOMAIN rules : rules[i].geometry \in Geometries
  BY DEF AreRules, IsRule
<1>5. \A i \in DOMAIN rules :
        codes[i] = "ok" =>
          /\ rules[i].geometry \in {"valid", "empty"} /\ ~(rules[i].priority < 0)
          /\ \A f \in DOMAIN rules[i].properties : is_serializable(rules[i].properties[f])
          /\ \A j \in 1..(i - 1) : rules[j].id # rules[i].id
  BY <1>2, <1>4 DEF GateCode, Geometries
<1>6. \A i \in DOMAIN rules :
        /\ codes[i] \in Codes \cup {"ok"} /\ boxes[i] \in Codes \cup {"ok"}
        /\ boxes[i] = "ok" => rules[i].geometry # "empty"
  BY <1>2, <1>4 DEF GateCode, EnvelopeCode, Geometries, Codes
<1> HIDE DEF codes, boxes
<1>7. ASSUME Gates(rules) = Built  PROVE Admitted(rules)
  <2>1. FirstFailure(codes) = Built /\ FirstFailure(boxes) = Built
    BY <1>3, <1>7
  <2>2. \A i \in DOMAIN rules : codes[i] = "ok" /\ boxes[i] = "ok"
    BY <1>1, <1>2, <2>1, FirstFailureIs
  <2>3. \A i \in DOMAIN rules :
          /\ rules[i].geometry = "valid" /\ ~(rules[i].priority < 0)
          /\ \A f \in DOMAIN rules[i].properties : is_serializable(rules[i].properties[f])
          /\ \A j \in 1..(i - 1) : rules[j].id # rules[i].id
    BY <1>5, <1>6, <2>2
  <2>4. \A i \in DOMAIN rules : rules[i].priority >= 0
    <3>1. \A i \in DOMAIN rules : rules[i].priority \in (-IntLimit)..(IntLimit - 1)
      BY DEF AreRules, IsRule
    <3>2. QED  BY <2>3, <3>1, PropertyValuesAssumption
  <2>5. \A i, j \in DOMAIN rules : rules[i].id = rules[j].id => i = j
    <3>1. PICK n \in Nat : DOMAIN rules = 1..n
      BY DEF AreRules, Indexed
    <3>2. \A i, j \in 1..n : j < i => j \in 1..(i - 1)
      BY <3>1
    <3>3. \A i, j \in 1..n : j < i => rules[j].id # rules[i].id
      BY <2>3, <3>1, <3>2
    <3>4. \A i, j \in 1..n : i = j \/ i < j \/ j < i
      BY <3>1
    <3>5. QED  BY <3>1, <3>3, <3>4
  <2>6. QED  BY <2>3, <2>4, <2>5 DEF Admitted
<1>8. /\ FirstFailure(codes).code \in Codes /\ FirstFailure(codes).at \in Nat
      /\ FirstFailure(boxes).code \in Codes /\ FirstFailure(boxes).at \in Nat
  BY <1>1, <1>2, <1>6, FirstFailureTyped
<1>9. QED  BY <1>3, <1>7, <1>8

-----------------------------------------------------------------------------
\* A property that can be written is read back as it was.
LEMMA ValuesRoundTrip ==
  ASSUME NEW v, IsPropertyValue(v), is_serializable(v)
  PROVE  deserialize(serialize(v)) = v /\ v # Unsupported
<1>1. v = Value(v.variant, v.value) /\ v.variant \in Variants
  BY DEF IsPropertyValue
<1>2. v # Unsupported
  BY <1>1 DEF Unsupported, Value, Variants
<1>3. CASE v.variant = "Null"
  <2>1. v = Value("Null", 0)
    BY <1>1, <1>3 DEF IsPropertyValue
  <2>2. serialize(v) = JsonNull
    BY <1>3 DEF serialize
  <2>3. QED  BY <1>2, <2>1, <2>2 DEF deserialize, JsonNull, Json
<1>4. CASE v.variant = "Bool"
  <2>1. serialize(v) = Json("bool", v.value)
    BY <1>4 DEF serialize, is_serializable
  <2>2. QED  BY <1>1, <1>2, <1>4, <2>1 DEF deserialize, Json
<1>5. CASE v.variant = "Int"
  <2>1. serialize(v) = Json("integer", v.value)
    BY <1>5 DEF serialize, is_serializable
  <2>2. FitsI64(v.value)
    BY <1>5 DEF IsPropertyValue
  <2>3. QED  BY <1>1, <1>2, <1>5, <2>1, <2>2 DEF deserialize, Json
<1>6. CASE v.variant = "Float"
  <2>1. serialize(v) = Json("decimal", v.value)
    BY <1>6 DEF serialize, is_serializable
  <2>2. QED  BY <1>1, <1>2, <1>6, <2>1 DEF deserialize, Json
<1>7. CASE v.variant = "Str"
  <2>1. serialize(v) = Json("string", v.value)
    BY <1>7 DEF serialize, is_serializable
  <2>2. QED  BY <1>1, <1>2, <1>7, <2>1 DEF deserialize, Json
<1>8. QED  BY <1>1, <1>3, <1>4, <1>5, <1>6, <1>7 DEF Variants

\* So is a rule: its id, its geometry, its priority and every property.
LEMMA RulesRoundTrip ==
  ASSUME NEW rule, IsRule(rule), rule.geometry = "valid", rule.priority >= 0,
         \A f \in DOMAIN rule.properties : is_serializable(rule.properties[f])
  PROVE  DeserializesRule(Canonical(rule)) /\ rule_from_canonical(Canonical(rule)) = rule
<1> DEFINE c == Canonical(rule)
<1>1. /\ c.id = Json("string", rule.id) /\ c.geometry = rule.geometry
      /\ c.priority = Json("integer", 2 * rule.priority)
      /\ c.properties = [g \in DOMAIN rule.properties |-> serialize(rule.properties[g])]
  BY DEF Canonical
<1> HIDE DEF c
<1>2. c.id.form = "string" /\ c.id.value = rule.id
  BY <1>1 DEF Json
<1>3. PriorityIsTyped(c) /\ Priority(c) = rule.priority
  <2>1. rule.priority \in (-IntLimit)..(IntLimit - 1) /\ IntLimit \in Nat
    BY PropertyValuesAssumption DEF IsRule
  <2>2. FitsI64(2 * rule.priority) /\ (2 * rule.priority) \div 2 = rule.priority
    BY <2>1 DEF FitsI64
  <2>3. c.priority.form = "integer" /\ c.priority.value = 2 * rule.priority
        /\ c.priority # Absent
    BY <1>1 DEF Json, Absent
  <2>4. QED  BY <2>2, <2>3 DEF PriorityIsTyped, Priority, as_i64
<1>4. \A g \in DOMAIN rule.properties :
        /\ deserialize(c.properties[g]) = rule.properties[g]
        /\ deserialize(c.properties[g]) # Unsupported
  BY <1>1, ValuesRoundTrip DEF IsRule
<1>5. DOMAIN c.properties = DOMAIN rule.properties
  BY <1>1
<1>6. DeserializesRule(c)
  BY <1>1, <1>2, <1>3, <1>4, <1>5 DEF DeserializesRule
<1>7. [g \in DOMAIN c.properties |-> deserialize(c.properties[g])]
        = [f \in DOMAIN rule.properties |-> rule.properties[f]]
  BY <1>4, <1>5
<1>8. rule_from_canonical(c)
        = [id |-> rule.id, geometry |-> rule.geometry, priority |-> rule.priority,
           properties |-> [f \in DOMAIN rule.properties |-> rule.properties[f]]]
  BY <1>1, <1>2, <1>3, <1>7, Zenon DEF rule_from_canonical
<1>9. rule_from_canonical(c) = rule
  BY <1>8, Zenon DEF IsRule
<1>10. QED  BY <1>6, <1>9 DEF c

\* What is saved is read without the slow path, and as the rules it was.
LEMMA SavedIsRead ==
  ASSUME NEW rules, Admitted(rules)
  PROVE  LET doc == [i \in DOMAIN rules |-> Canonical(rules[i])] IN
         /\ \A i \in DOMAIN doc : DeserializesRule(doc[i])
         /\ [i \in DOMAIN doc |-> rule_from_canonical(doc[i])] = rules
<1> DEFINE doc == [i \in DOMAIN rules |-> Canonical(rules[i])]
<1>1. \A i \in DOMAIN rules :
        DeserializesRule(Canonical(rules[i])) /\ rule_from_canonical(Canonical(rules[i])) = rules[i]
  BY RulesRoundTrip DEF Admitted, AreRules
<1>2. \A i \in DOMAIN doc : DeserializesRule(doc[i])
  BY <1>1
<1>3. [i \in DOMAIN doc |-> rule_from_canonical(doc[i])] = [i \in DOMAIN rules |-> rules[i]]
  BY <1>1
<1>4. QED  BY <1>2, <1>3 DEF Admitted, AreRules, Indexed

\* The gates let admitted rules through.
LEMMA AdmittedPass ==
  ASSUME NEW rules, Admitted(rules)
  PROVE  Gates(rules) = Built
<1> DEFINE codes == [i \in DOMAIN rules |-> GateCode(rules, i)]
           boxes == [i \in DOMAIN rules |-> EnvelopeCode(rules[i])]
<1>1. PICK n \in Nat : DOMAIN rules = 1..n
  BY DEF Admitted, AreRules, Indexed
<1>2. ASSUME NEW i \in DOMAIN rules  PROVE GateCode(rules, i) = "ok"
  <2>1. \A j \in 1..(i - 1) : j \in DOMAIN rules /\ j # i
    BY <1>1
  <2>2. \A j \in 1..(i - 1) : rules[j].id # rules[i].id
    BY <2>1 DEF Admitted
  <2>3. /\ rules[i].geometry = "valid" /\ rules[i].priority >= 0
        /\ \A f \in DOMAIN rules[i].properties : is_serializable(rules[i].properties[f])
    BY DEF Admitted
  <2>4. ~(rules[i].priority < 0)
    <3>1. rules[i].priority \in (-IntLimit)..(IntLimit - 1)
      BY DEF Admitted, AreRules, IsRule
    <3>2. QED  BY <2>3, <3>1, PropertyValuesAssumption
  <2>5. QED  BY <2>2, <2>3, <2>4 DEF GateCode
<1>3. /\ DOMAIN codes = 1..n /\ \A i \in DOMAIN codes : codes[i] = "ok"
      /\ DOMAIN boxes = 1..n /\ \A i \in DOMAIN boxes : boxes[i] = "ok"
  BY <1>1, <1>2 DEF EnvelopeCode, Admitted
<1>4. FirstFailure(codes) = Built /\ FirstFailure(boxes) = Built
  <2> HIDE DEF codes, boxes
  <2>1. QED  BY <1>3, FirstFailureIs
<1>5. QED  BY <1>4 DEF Gates

-----------------------------------------------------------------------------
\* What a scalar of a document becomes, both ways.
LEMMA ScalarsBecomeValues ==
  ASSUME NEW j, IsJson(j)
  PROVE  /\ from_json_value(j) # Unsupported =>
              IsPropertyValue(from_json_value(j)) /\ is_serializable(from_json_value(j))
         /\ deserialize(j) # Unsupported =>
              IsPropertyValue(deserialize(j)) /\ is_serializable(deserialize(j))
         /\ j # JsonNested => deserialize(j) # Unsupported
<1>1. j.form \in Forms /\ j = Json(j.form, j.value) /\ j.value \in Int
  BY DEF IsJson
<1>2. j.form \in {"integer", "decimal"} => j.value # NaN
  BY DEF IsJson
<1>3. j # JsonNested => j.form # "nested"
  BY <1>1 DEF IsJson, JsonNested
<1>4. \A n \in Int :
        /\ IsPropertyValue(Value("Null", 0)) /\ IsPropertyValue(Value("Bool", n))
        /\ IsPropertyValue(Value("Str", n)) /\ IsPropertyValue(Value("Float", n))
  BY DEF IsPropertyValue, Value, Variants
<1>5. \A n \in Int : FitsI64(n) => IsPropertyValue(Value("Int", n))
  BY DEF IsPropertyValue, Value, Variants
<1>6. \A n : is_serializable(Value("Null", n)) /\ is_serializable(Value("Bool", n))
             /\ is_serializable(Value("Str", n)) /\ is_serializable(Value("Int", n))
  BY DEF is_serializable, Value
<1>7. j.value # NaN => is_serializable(Value("Float", j.value))
  BY DEF is_serializable, Value
<1>8. \A n : Value("Null", n) # Unsupported /\ Value("Bool", n) # Unsupported
             /\ Value("Str", n) # Unsupported /\ Value("Int", n) # Unsupported
             /\ Value("Float", n) # Unsupported
  BY DEF Value, Unsupported
<1> DEFINE a == from_json_value(j)
           b == deserialize(j)
<1>9. CASE j.form = "null"
  BY <1>1, <1>4, <1>6, <1>8, <1>9 DEF from_json_value, deserialize
<1>10. CASE j.form = "bool"
  BY <1>1, <1>4, <1>6, <1>8, <1>10 DEF from_json_value, deserialize
<1>11. CASE j.form = "string"
  BY <1>1, <1>4, <1>6, <1>8, <1>11 DEF from_json_value, deserialize
<1>12. CASE j.form = "nested"
  <2>1. a = Unsupported /\ b = Unsupported
    BY <1>12 DEF from_json_value, deserialize
  <2>2. QED  BY <1>3, <1>12, <2>1
<1>13. CASE j.form \in {"integer", "decimal"}
  <2>1. a = number_to_property_value(j)
    BY <1>13 DEF from_json_value
  <2>2. a = Value("Float", j.value) \/ (FitsI64(j.value) /\ a = Value("Int", j.value))
    BY <2>1 DEF number_to_property_value
  <2>3. b = Value("Float", j.value) \/ (FitsI64(j.value) /\ b = Value("Int", j.value))
    BY <1>13 DEF deserialize
  <2>4. j.value # NaN
    BY <1>2, <1>13
  <2> HIDE DEF a, b
  <2>5. IsPropertyValue(a) /\ is_serializable(a)
    BY <1>1, <1>4, <1>5, <1>6, <1>7, <2>2, <2>4
  <2>6. IsPropertyValue(b) /\ is_serializable(b) /\ b # Unsupported
    BY <1>1, <1>4, <1>5, <1>6, <1>7, <1>8, <2>3, <2>4
  <2>7. QED  BY <2>5, <2>6 DEF a, b
<1>14. QED  BY <1>1, <1>9, <1>10, <1>11, <1>12, <1>13 DEF Forms

LEMMA PrioritiesFit ==
  ASSUME NEW f, PriorityIsTyped(f)
  PROVE  Priority(f) \in (-IntLimit)..(IntLimit - 1)
<1>1. IntLimit \in Nat \ {0}
  BY PropertyValuesAssumption
<1>2. CASE f.priority = Absent
  BY <1>1, <1>2 DEF Priority
<1>3. CASE f.priority # Absent
  <2>1. f.priority.value \in (-2 * IntLimit)..(2 * IntLimit - 1)
    BY <1>3 DEF PriorityIsTyped, as_i64, FitsI64
  <2>2. f.priority.value \div 2 \in (-IntLimit)..(IntLimit - 1)
    BY <1>1, <2>1
  <2>3. QED  BY <1>3, <2>2 DEF Priority
<1>4. QED  BY <1>2, <1>3

\* A feature of a document, and what either reader makes of it.
IsFeature(f) ==
  /\ IsJson(f.id) /\ f.geometry \in Geometries \cup {"missing"}
  /\ \A g \in DOMAIN f.properties : IsJson(f.properties[g])

LEMMA IdsAreNumbers ==
  ASSUME NEW f, IsFeature(f), extract_feature_id(f) # None
  PROVE  extract_feature_id(f) \in Int
<1>1. f.id.value \in Int
  BY DEF IsFeature, IsJson
<1>2. "id" \in DOMAIN f.properties => f.properties["id"].value \in Int
  BY DEF IsFeature, IsJson
<1>3. f.id.value \div 2 \in Int
  BY <1>1
<1>4. CASE f.id # JsonNull /\ f.id.form = "integer"
  BY <1>3, <1>4 DEF extract_feature_id
<1>5. CASE f.id # JsonNull /\ f.id.form # "integer"
  BY <1>1, <1>5 DEF extract_feature_id
<1>6. CASE f.id = JsonNull
  BY <1>2, <1>6 DEF extract_feature_id
<1>7. QED  BY <1>4, <1>5, <1>6

LEMMA FeaturesAreRules ==
  ASSUME NEW f, IsFeature(f), IngestCode(f) = "ok"
  PROVE  /\ IsRule(rule_from_feature(f))
         /\ \A g \in DOMAIN rule_from_feature(f).properties :
              is_serializable(rule_from_feature(f).properties[g])
<1> DEFINE props == properties_from_json(f.properties)
<1>1. extract_feature_id(f) # None /\ f.geometry # "missing" /\ PriorityIsTyped(f)
  BY DEF IngestCode
<1>2. extract_feature_id(f) \in Int
  BY <1>1, IdsAreNumbers
<1>3. f.geometry \in Geometries
  BY <1>1 DEF IsFeature
<1>4. Priority(f) \in (-IntLimit)..(IntLimit - 1)
  BY <1>1, PrioritiesFit
<1>5. props = [g \in DOMAIN props |-> props[g]]
      /\ \A g \in DOMAIN props : g \in DOMAIN f.properties
           /\ props[g] = from_json_value(f.properties[g])
           /\ from_json_value(f.properties[g]) # Unsupported
  BY DEF properties_from_json
<1> HIDE DEF props
<1>6. \A g \in DOMAIN props : IsPropertyValue(props[g]) /\ is_serializable(props[g])
  BY <1>5, ScalarsBecomeValues DEF IsFeature
<1> DEFINE r == rule_from_feature(f)
<1>7. r = [id |-> extract_feature_id(f), geometry |-> f.geometry, priority |-> Priority(f),
           properties |-> props]
  BY DEF rule_from_feature, props
<1> HIDE DEF r
<1>8. r.id = extract_feature_id(f) /\ r.geometry = f.geometry /\ r.priority = Priority(f)
      /\ r.properties = props
  BY <1>7
<1>9. r = [id |-> r.id, geometry |-> r.geometry, priority |-> r.priority,
           properties |-> [g \in DOMAIN r.properties |-> r.properties[g]]]
  BY <1>5, <1>7, <1>8, Zenon
<1>10. IsRule(r)
  BY <1>2, <1>3, <1>4, <1>6, <1>8, <1>9 DEF IsRule
<1>11. QED  BY <1>6, <1>8, <1>10 DEF r

LEMMA CanonicalsAreRules ==
  ASSUME NEW f, IsFeature(f), DeserializesRule(f)
  PROVE  /\ IsRule(rule_from_canonical(f))
         /\ \A g \in DOMAIN rule_from_canonical(f).properties :
              is_serializable(rule_from_canonical(f).properties[g])
<1> DEFINE props == [g \in DOMAIN f.properties |-> deserialize(f.properties[g])]
<1>1. /\ f.geometry # "missing" /\ PriorityIsTyped(f)
      /\ \A g \in DOMAIN f.properties : deserialize(f.properties[g]) # Unsupported
  BY DEF DeserializesRule
<1>2. f.id.value \in Int
  BY DEF IsFeature, IsJson
<1>3. f.geometry \in Geometries
  BY <1>1 DEF IsFeature
<1>4. Priority(f) \in (-IntLimit)..(IntLimit - 1)
  BY <1>1, PrioritiesFit
<1>5. props = [g \in DOMAIN props |-> props[g]]
      /\ \A g \in DOMAIN props : g \in DOMAIN f.properties
           /\ props[g] = deserialize(f.properties[g])
  OBVIOUS
<1> HIDE DEF props
<1>6. \A g \in DOMAIN props : IsPropertyValue(props[g]) /\ is_serializable(props[g])
  BY <1>1, <1>5, ScalarsBecomeValues DEF IsFeature
<1> DEFINE r == rule_from_canonical(f)
<1>7. r = [id |-> f.id.value, geometry |-> f.geometry, priority |-> Priority(f),
           properties |-> props]
  BY DEF rule_from_canonical, props
<1> HIDE DEF r
<1>8. r.id = f.id.value /\ r.geometry = f.geometry /\ r.priority = Priority(f)
      /\ r.properties = props
  BY <1>7
<1>9. r = [id |-> r.id, geometry |-> r.geometry, priority |-> r.priority,
           properties |-> [g \in DOMAIN r.properties |-> r.properties[g]]]
  BY <1>5, <1>7, <1>8, Zenon
<1>10. IsRule(r)
  BY <1>2, <1>3, <1>4, <1>6, <1>8, <1>9 DEF IsRule
<1>11. QED  BY <1>6, <1>8, <1>10 DEF r

-----------------------------------------------------------------------------
\* What the two readers make of a document, and what a load comes to.
GeoRead(doc)  == FirstFailure([i \in DOMAIN doc |-> IngestCode(doc[i])])
GeoRules(doc) == [i \in DOMAIN doc |-> rule_from_feature(doc[i])]
CanonicalRead(doc) ==
  IF \A i \in DOMAIN doc : DeserializesRule(doc[i]) THEN Built ELSE from_canonical_slow(doc)
CanonicalRules(doc) == [i \in DOMAIN doc |-> rule_from_canonical(doc[i])]
LoadOutcome(read, rules) == IF read = Built THEN Gates(rules) ELSE read

LEMMA DocumentsHaveFeatures ==
  ASSUME NEW doc \in Documents
  PROVE  (\E n \in Nat : DOMAIN doc = 1..n) /\ \A i \in DOMAIN doc : IsFeature(doc[i])
BY ConstructionAssumption DEF IsDocument, IsFeature

LEMMA SlowPathFails ==
  ASSUME NEW doc, \E n \in Nat : DOMAIN doc = 1..n
  PROVE  /\ from_canonical_slow(doc) # Built
         /\ from_canonical_slow(doc).code \in Codes /\ from_canonical_slow(doc).at \in Nat
<1> DEFINE codes == [i \in DOMAIN doc |-> IF PriorityIsTyped(doc[i]) THEN "ok"
                                          ELSE "RulesetConstructionFailed"]
<1>1. (\E n \in Nat : DOMAIN codes = 1..n)
      /\ \A i \in DOMAIN codes : codes[i] \in Codes \cup {"ok"}
  BY DEF Codes
<1>2. from_canonical_slow(doc)
        = IF FirstFailure(codes) # Built THEN FirstFailure(codes) ELSE Failed("InvalidGeoJson", 0)
  BY DEF from_canonical_slow
<1> HIDE DEF codes
<1>3. FirstFailure(codes).code \in Codes /\ FirstFailure(codes).at \in Nat
  BY <1>1, FirstFailureTyped
<1>4. /\ Failed("InvalidGeoJson", 0) # Built
      /\ Failed("InvalidGeoJson", 0).code \in Codes /\ Failed("InvalidGeoJson", 0).at \in Nat
  BY DEF Failed, Built, Codes
<1>5. QED  BY <1>2, <1>3, <1>4

\* What GeoJSON or canonical JSON is read as are rules, and a failure to read
\* has one of the codes.
LEMMA GeoJsonReads ==
  ASSUME NEW doc \in Documents
  PROVE  /\ GeoRead(doc).code \in Codes /\ GeoRead(doc).at \in Nat
         /\ GeoRead(doc) = Built => AreRules(GeoRules(doc))
<1> DEFINE codes == [i \in DOMAIN doc |-> IngestCode(doc[i])]
<1>1. (\E n \in Nat : DOMAIN doc = 1..n) /\ \A i \in DOMAIN doc : IsFeature(doc[i])
  BY DocumentsHaveFeatures
<1>2. DOMAIN codes = DOMAIN doc /\ \A i \in DOMAIN doc : codes[i] = IngestCode(doc[i])
  OBVIOUS
<1>3. \A i \in DOMAIN codes : codes[i] \in Codes \cup {"ok"}
  BY DEF IngestCode, Codes
<1>4. GeoRead(doc) = FirstFailure(codes)
  BY DEF GeoRead
<1> HIDE DEF codes
<1>5. GeoRead(doc).code \in Codes /\ GeoRead(doc).at \in Nat
  BY <1>1, <1>2, <1>3, <1>4, FirstFailureTyped
<1>6. ASSUME GeoRead(doc) = Built  PROVE AreRules(GeoRules(doc))
  <2>1. \A i \in DOMAIN doc : IngestCode(doc[i]) = "ok"
    BY <1>1, <1>2, <1>4, <1>6, FirstFailureIs
  <2>2. \A i \in DOMAIN doc : IsRule(rule_from_feature(doc[i]))
    BY <1>1, <2>1, FeaturesAreRules
  <2>3. QED  BY <1>1, <2>2 DEF AreRules, Indexed, GeoRules
<1>7. QED  BY <1>5, <1>6

LEMMA CanonicalReads ==
  ASSUME NEW doc \in Documents
  PROVE  /\ CanonicalRead(doc).code \in Codes /\ CanonicalRead(doc).at \in Nat
         /\ CanonicalRead(doc) = Built => AreRules(CanonicalRules(doc))
<1>1. (\E n \in Nat : DOMAIN doc = 1..n) /\ \A i \in DOMAIN doc : IsFeature(doc[i])
  BY DocumentsHaveFeatures
<1>2. CASE \A i \in DOMAIN doc : DeserializesRule(doc[i])
  <2>1. CanonicalRead(doc) = Built
    BY <1>2 DEF CanonicalRead
  <2>2. \A i \in DOMAIN doc : IsRule(rule_from_canonical(doc[i]))
    BY <1>1, <1>2, CanonicalsAreRules
  <2>3. AreRules(CanonicalRules(doc))
    BY <1>1, <2>2 DEF AreRules, Indexed, CanonicalRules
  <2>4. QED  BY <2>1, <2>3 DEF Built, Codes
<1>3. CASE ~(\A i \in DOMAIN doc : DeserializesRule(doc[i]))
  <2>1. CanonicalRead(doc) = from_canonical_slow(doc)
    BY <1>3 DEF CanonicalRead
  <2>2. QED  BY <1>1, <2>1, SlowPathFails
<1>4. QED  BY <1>2, <1>3

-----------------------------------------------------------------------------
\* A sequence in which all that is wrong has one code.
LEMMA OneFault ==
  ASSUME NEW codes, \E n \in Nat : DOMAIN codes = 1..n, NEW code, NEW S,
         S = {i \in DOMAIN codes : codes[i] # "ok"}, \A i \in S : codes[i] = code
  PROVE  FirstFailure(codes) = IF S = {} THEN Built ELSE Failed(code, Min(S))
<1>1. FirstFailure(codes) = IF S = {} THEN Built ELSE Failed(codes[Min(S)], Min(S))
  BY DEF FirstFailure
<1>2. ASSUME S # {}  PROVE Min(S) \in S
  <2>1. S \in SUBSET Int /\ \A i \in S : 1 <= i
    OBVIOUS
  <2>2. \E i \in S : \A j \in S : i <= j
    <3>1. 1 \in Int
      OBVIOUS
    <3>2. QED  BY <1>2, <2>1, <3>1, LeastExists, Zenon
  <2>3. QED  BY <2>2 DEF Min
<1>3. QED  BY <1>1, <1>2

\* Rules whose only fault may be a negative priority.
Sound(rules) ==
  \A i \in DOMAIN rules :
    /\ rules[i].geometry = "valid" /\ rules[i].priority \in Int
    /\ \A f \in DOMAIN rules[i].properties : is_serializable(rules[i].properties[f])
    /\ \A j \in 1..(i - 1) : rules[j].id # rules[i].id

LEMMA NegativesAreFaulted ==
  ASSUME NEW rules, \E n \in Nat : DOMAIN rules = 1..n, Sound(rules)
  PROVE  LET S == {i \in DOMAIN rules : rules[i].priority < 0} IN
         Gates(rules) = IF S = {} THEN Built ELSE Failed("RulesetConstructionFailed", Min(S))
<1> DEFINE codes == [i \in DOMAIN rules |-> GateCode(rules, i)]
           boxes == [i \in DOMAIN rules |-> EnvelopeCode(rules[i])]
           S == {i \in DOMAIN rules : rules[i].priority < 0}
<1>1. \A i \in DOMAIN rules :
        /\ codes[i] = IF rules[i].priority < 0 THEN "RulesetConstructionFailed" ELSE "ok"
        /\ boxes[i] = "ok"
  BY DEF GateCode, EnvelopeCode, Sound
<1>2. /\ (\E n \in Nat : DOMAIN codes = 1..n) /\ DOMAIN codes = DOMAIN rules
      /\ (\E n \in Nat : DOMAIN boxes = 1..n) /\ DOMAIN boxes = DOMAIN rules
  OBVIOUS
<1>3. Gates(rules) = IF FirstFailure(codes) # Built THEN FirstFailure(codes)
                                                    ELSE FirstFailure(boxes)
  BY DEF Gates
<1> HIDE DEF codes, boxes
<1>4. S = {i \in DOMAIN codes : codes[i] # "ok"}
      /\ \A i \in S : codes[i] = "RulesetConstructionFailed"
  BY <1>1, <1>2
<1> HIDE DEF S
<1>5. FirstFailure(codes) = IF S = {} THEN Built ELSE Failed("RulesetConstructionFailed", Min(S))
  BY <1>2, <1>4, OneFault
<1>6. FirstFailure(boxes) = Built
  BY <1>1, <1>2, FirstFailureIs
<1>7. QED  BY <1>3, <1>5, <1>6 DEF S

\* Nothing is wrong with a document but, maybe, priorities.
PrioritiesOnly(doc) ==
  \A i \in DOMAIN doc :
    /\ doc[i].id.form = "string" /\ doc[i].geometry = "valid"
    /\ \A f \in DOMAIN doc[i].properties : doc[i].properties[f] # JsonNested
    /\ \A j \in 1..(i - 1) : doc[j].id # doc[i].id

Faulty(doc)   == {i \in DOMAIN doc : ~PriorityIsTyped(doc[i])}
Negative(doc) == {i \in DOMAIN doc : PriorityIsTyped(doc[i]) /\ Priority(doc[i]) < 0}
PriorityOutcome(doc) ==
  CASE Faulty(doc) # {} -> Failed("RulesetConstructionFailed", Min(Faulty(doc)))
    [] Faulty(doc) = {} /\ Negative(doc) # {} ->
         Failed("RulesetConstructionFailed", Min(Negative(doc)))
    [] OTHER -> Built

LEMMA IdsDiffer ==
  ASSUME NEW doc \in Documents, PrioritiesOnly(doc)
  PROVE  \A i \in DOMAIN doc : \A j \in 1..(i - 1) : doc[j].id.value # doc[i].id.value
<1> SUFFICES ASSUME NEW i \in DOMAIN doc, NEW j \in 1..(i - 1)
             PROVE  doc[j].id.value # doc[i].id.value
  OBVIOUS
<1>1. j \in DOMAIN doc
  BY DocumentsHaveFeatures
<1>2. doc[i].id = Json("string", doc[i].id.value) /\ doc[j].id = Json("string", doc[j].id.value)
  BY <1>1, DocumentsHaveFeatures DEF PrioritiesOnly, IsFeature, IsJson
<1>3. doc[j].id # doc[i].id
  BY DEF PrioritiesOnly
<1>4. QED  BY <1>2, <1>3

\* When every priority is an integer, the gates see the negative ones.
LEMMA ReadPrioritiesAreGated ==
  ASSUME NEW doc \in Documents, PrioritiesOnly(doc), Faulty(doc) = {},
         NEW rules, DOMAIN rules = DOMAIN doc,
         \A i \in DOMAIN doc :
           /\ rules[i].id = doc[i].id.value /\ rules[i].geometry = "valid"
           /\ rules[i].priority = Priority(doc[i])
           /\ \A f \in DOMAIN rules[i].properties : is_serializable(rules[i].properties[f])
  PROVE  Gates(rules) = PriorityOutcome(doc)
<1>1. \A i \in DOMAIN doc : PriorityIsTyped(doc[i]) /\ Priority(doc[i]) \in Int
  <2>1. \A i \in DOMAIN doc : PriorityIsTyped(doc[i])
    BY DEF Faulty
  <2>2. QED  BY <2>1, PrioritiesFit, PropertyValuesAssumption
<1>2. \E n \in Nat : DOMAIN doc = 1..n
  BY DocumentsHaveFeatures
<1>3. \A i \in DOMAIN rules : \A j \in 1..(i - 1) : rules[j].id # rules[i].id
  <2>1. \A i \in DOMAIN doc : \A j \in 1..(i - 1) :
          j \in DOMAIN doc /\ doc[j].id.value # doc[i].id.value
    BY <1>2, IdsDiffer
  <2>2. QED  BY <2>1
<1>4. Sound(rules)
  BY <1>1, <1>3 DEF Sound
<1>5. Negative(doc) = {i \in DOMAIN rules : rules[i].priority < 0}
  BY <1>1 DEF Negative
<1>6. Gates(rules) = IF Negative(doc) = {} THEN Built
                     ELSE Failed("RulesetConstructionFailed", Min(Negative(doc)))
  BY <1>2, <1>4, <1>5, NegativesAreFaulted
<1>7. QED  BY <1>6 DEF PriorityOutcome

LEMMA GeoJsonFaultsPriorities ==
  ASSUME NEW doc \in Documents, PrioritiesOnly(doc)
  PROVE  LoadOutcome(GeoRead(doc), GeoRules(doc)) = PriorityOutcome(doc)
<1> DEFINE codes == [i \in DOMAIN doc |-> IngestCode(doc[i])]
           S == Faulty(doc)
<1>1. (\E n \in Nat : DOMAIN doc = 1..n) /\ \A i \in DOMAIN doc : IsFeature(doc[i])
  BY DocumentsHaveFeatures
<1>2. \A i \in DOMAIN doc : extract_feature_id(doc[i]) = doc[i].id.value
                            /\ doc[i].id.value # None
  <2>1. \A i \in DOMAIN doc : doc[i].id.form = "string" /\ doc[i].id.value \in Int
    BY <1>1 DEF PrioritiesOnly, IsFeature, IsJson
  <2>2. \A i \in DOMAIN doc : doc[i].id # JsonNull
    BY <2>1 DEF JsonNull, Json
  <2>3. \A i \in DOMAIN doc : extract_feature_id(doc[i]) = doc[i].id.value
    BY <2>1, <2>2 DEF extract_feature_id
  <2>4. QED  BY <2>1, <2>3, ConstructionAssumption
<1>3. \A i \in DOMAIN doc :
        codes[i] = IF PriorityIsTyped(doc[i]) THEN "ok" ELSE "RulesetConstructionFailed"
  BY <1>2 DEF IngestCode, PrioritiesOnly
<1>4. (\E n \in Nat : DOMAIN codes = 1..n) /\ DOMAIN codes = DOMAIN doc
  BY <1>1
<1>5. GeoRead(doc) = FirstFailure(codes)
  BY DEF GeoRead
<1>6. S = {i \in DOMAIN doc : ~PriorityIsTyped(doc[i])}
  BY DEF Faulty
<1> HIDE DEF codes, S
<1>7. S = {i \in DOMAIN codes : codes[i] # "ok"}
      /\ \A i \in S : codes[i] = "RulesetConstructionFailed"
  BY <1>3, <1>4, <1>6
<1>8. GeoRead(doc) = IF S = {} THEN Built ELSE Failed("RulesetConstructionFailed", Min(S))
  BY <1>4, <1>5, <1>7, OneFault
<1>9. CASE S # {}
  <2>1. Failed("RulesetConstructionFailed", Min(S)) # Built
    BY DEF Failed, Built
  <2>2. QED  BY <1>8, <1>9, <2>1 DEF LoadOutcome, PriorityOutcome, S
<1>10. CASE S = {}
  <2> DEFINE rules == GeoRules(doc)
  <2>1. \A i \in DOMAIN doc : IngestCode(doc[i]) = "ok"
    BY <1>3, <1>6, <1>10 DEF codes
  <2>2. \A i \in DOMAIN doc :
          /\ rule_from_feature(doc[i]).id = doc[i].id.value
          /\ rule_from_feature(doc[i]).geometry = "valid"
          /\ rule_from_feature(doc[i]).priority = Priority(doc[i])
    BY <1>2 DEF rule_from_feature, PrioritiesOnly
  <2>3. \A i \in DOMAIN doc : \A f \in DOMAIN rule_from_feature(doc[i]).properties :
          is_serializable(rule_from_feature(doc[i]).properties[f])
    BY <1>1, <2>1, FeaturesAreRules
  <2>4. DOMAIN rules = DOMAIN doc /\ \A i \in DOMAIN doc : rules[i] = rule_from_feature(doc[i])
    BY DEF GeoRules
  <2> HIDE DEF rules
  <2>5. Gates(rules) = PriorityOutcome(doc)
    BY <1>10, <2>2, <2>3, <2>4, ReadPrioritiesAreGated DEF S
  <2>6. LoadOutcome(GeoRead(doc), rules) = Gates(rules)
    BY <1>8, <1>10 DEF LoadOutcome
  <2>7. QED  BY <2>5, <2>6 DEF rules
<1>11. QED  BY <1>9, <1>10

LEMMA CanonicalFaultsPriorities ==
  ASSUME NEW doc \in Documents, PrioritiesOnly(doc)
  PROVE  LoadOutcome(CanonicalRead(doc), CanonicalRules(doc)) = PriorityOutcome(doc)
<1> DEFINE S == Faulty(doc)
<1>1. (\E n \in Nat : DOMAIN doc = 1..n) /\ \A i \in DOMAIN doc : IsFeature(doc[i])
  BY DocumentsHaveFeatures
<1>2. \A i \in DOMAIN doc : DeserializesRule(doc[i]) <=> PriorityIsTyped(doc[i])
  <2>1. \A i \in DOMAIN doc : \A f \in DOMAIN doc[i].properties :
          deserialize(doc[i].properties[f]) # Unsupported
    BY <1>1, ScalarsBecomeValues DEF IsFeature, PrioritiesOnly
  <2>2. \A i \in DOMAIN doc : doc[i].id.form = "string" /\ doc[i].geometry # "missing"
    BY DEF PrioritiesOnly
  <2>3. QED  BY <2>1, <2>2 DEF DeserializesRule
<1>3. S = {i \in DOMAIN doc : ~PriorityIsTyped(doc[i])}
  BY DEF Faulty
<1>4. CASE S # {}
  <2> DEFINE codes == [i \in DOMAIN doc |-> IF PriorityIsTyped(doc[i]) THEN "ok"
                                            ELSE "RulesetConstructionFailed"]
  <2>1. (\E n \in Nat : DOMAIN codes = 1..n) /\ DOMAIN codes = DOMAIN doc
        /\ \A i \in DOMAIN doc :
             codes[i] = IF PriorityIsTyped(doc[i]) THEN "ok" ELSE "RulesetConstructionFailed"
    BY <1>1
  <2>2. from_canonical_slow(doc)
          = IF FirstFailure(codes) # Built THEN FirstFailure(codes)
            ELSE Failed("InvalidGeoJson", 0)
    BY DEF from_canonical_slow
  <2> HIDE DEF codes
  <2>3. S = {i \in DOMAIN codes : codes[i] # "ok"}
        /\ \A i \in S : codes[i] = "RulesetConstructionFailed"
    BY <1>3, <2>1
  <2> HIDE DEF S
  <2>4. FirstFailure(codes) = IF S = {} THEN Built
                              ELSE Failed("RulesetConstructionFailed", Min(S))
    BY <2>1, <2>3, OneFault
  <2>5. Failed("RulesetConstructionFailed", Min(S)) # Built
    BY DEF Failed, Built
  <2>6. from_canonical_slow(doc) = Failed("RulesetConstructionFailed", Min(S))
    BY <1>4, <2>2, <2>4, <2>5
  <2>7. CanonicalRead(doc) = from_canonical_slow(doc)
    BY <1>2, <1>3, <1>4 DEF CanonicalRead
  <2>8. QED  BY <1>4, <2>5, <2>6, <2>7 DEF LoadOutcome, PriorityOutcome, S
<1>5. CASE S = {}
  <2> DEFINE rules == CanonicalRules(doc)
  <2>1. \A i \in DOMAIN doc : DeserializesRule(doc[i])
    BY <1>2, <1>3, <1>5
  <2>2. \A i \in DOMAIN doc :
          /\ rule_from_canonical(doc[i]).id = doc[i].id.value
          /\ rule_from_canonical(doc[i]).geometry = "valid"
          /\ rule_from_canonical(doc[i]).priority = Priority(doc[i])
    BY DEF rule_from_canonical, PrioritiesOnly
  <2>3. \A i \in DOMAIN doc : \A f \in DOMAIN rule_from_canonical(doc[i]).properties :
          is_serializable(rule_from_canonical(doc[i]).properties[f])
    BY <1>1, <2>1, CanonicalsAreRules
  <2>4. DOMAIN rules = DOMAIN doc /\ \A i \in DOMAIN doc : rules[i] = rule_from_canonical(doc[i])
    BY DEF CanonicalRules
  <2> HIDE DEF rules
  <2>5. Gates(rules) = PriorityOutcome(doc)
    BY <1>5, <2>2, <2>3, <2>4, ReadPrioritiesAreGated
  <2>6. LoadOutcome(CanonicalRead(doc), rules) = Gates(rules)
    BY <2>1 DEF LoadOutcome, CanonicalRead
  <2>7. QED  BY <2>5, <2>6 DEF rules
<1>6. QED  BY <1>4, <1>5

-----------------------------------------------------------------------------
\* The ruleset in use: rules the gates admitted, and the table of their ids.
IsRuleset(ruleset) == Admitted(ruleset.rules) /\ ruleset.idOrder = IdOrder(ruleset.rules)

\* The table has every rule once, in the order of the ids.
LEMMA IdOrderSorts ==
  ASSUME NEW rules, Admitted(rules)
  PROVE  /\ \E n \in Nat : DOMAIN rules = 1..n /\ DOMAIN IdOrder(rules) = 1..n
                           /\ Len(IdOrder(rules)) = n
         /\ \A k \in DOMAIN IdOrder(rules) : IdOrder(rules)[k] \in DOMAIN rules
         /\ \A i \in DOMAIN rules : \E k \in DOMAIN IdOrder(rules) : IdOrder(rules)[k] = i
         /\ \A k, l \in DOMAIN IdOrder(rules) :
              rules[IdOrder(rules)[k]].id < rules[IdOrder(rules)[l]].id <=> k < l
<1> DEFINE S == DOMAIN rules
           before == IdLess(rules)
           order == IdOrder(rules)
<1>1. PICK n \in Nat : S = 1..n
  BY DEF Admitted, AreRules, Indexed
<1>2. IsFiniteSet(S) /\ Cardinality(S) = n
  BY <1>1, FS_Interval
<1>3. \A i \in S : rules[i].id \in Int
  BY DEF Admitted, AreRules, IsRule
<1>4. \A i, j \in S : rules[i].id = rules[j].id => i = j
  BY DEF Admitted
<1>5. \A i, j \in S : <<i, j>> \in before <=> rules[i].id < rules[j].id
  BY DEF IdLess
<1> HIDE DEF before
<1>6. StrictOrder(S, before)
  <2>1. \A i \in S : <<i, i>> \notin before
    BY <1>3, <1>5
  <2>2. \A i, j, k \in S : <<i, j>> \in before /\ <<j, k>> \in before => <<i, k>> \in before
    BY <1>3, <1>5
  <2>3. \A i, j \in S : i = j \/ <<i, j>> \in before \/ <<j, i>> \in before
    <3> SUFFICES ASSUME NEW i \in S, NEW j \in S, i # j
                 PROVE  <<i, j>> \in before \/ <<j, i>> \in before
      OBVIOUS
    <3>1. rules[i].id # rules[j].id
      BY <1>4
    <3>2. rules[i].id \in Int /\ rules[j].id \in Int
      BY <1>3
    <3>3. rules[i].id < rules[j].id \/ rules[j].id < rules[i].id
      BY <3>1, <3>2
    <3>4. QED  BY <1>5, <3>3
  <2>4. QED  BY <2>1, <2>2, <2>3 DEF StrictOrder
<1>7. order = InOrder(S, before)
  BY DEF IdOrder, before
<1> HIDE DEF S, order
<1>8. SortedSequence(order, S, before)
  BY <1>2, <1>6, <1>7, InOrderSorts
<1>9. Len(order) = n /\ DOMAIN order = 1..n
  BY <1>2, <1>8, SortedIsSequence
<1>10. \A k \in DOMAIN order : order[k] \in S
  BY <1>2, <1>8, <1>9 DEF SortedSequence
<1>11. \A i \in S : \E k \in DOMAIN order : order[k] = i
  BY <1>2, <1>8, <1>9 DEF SortedSequence
<1>12. \A k, l \in DOMAIN order : rules[order[k]].id < rules[order[l]].id <=> k < l
  BY <1>2, <1>5, <1>8, <1>9, <1>10 DEF SortedSequence
<1>13. QED  BY <1>1, <1>9, <1>10, <1>11, <1>12 DEF S, order

\* The id at a place of the table, and what a search of its places from lo to
\* before hi should return.
Key(k) == active.rules[active.idOrder[k]].id
Found(lo, hi, string) ==
  IF \E k \in lo..(hi - 1) : Key(k) = string
    THEN RuleId(active, active.idOrder[CHOOSE k \in lo..(hi - 1) : Key(k) = string])
    ELSE None
End == Len(active.idOrder) + 1

LEMMA KeysGrow ==
  ASSUME IsRuleset(active)
  PROVE  /\ End \in Nat \ {0} /\ DOMAIN active.idOrder = 1..(End - 1)
         /\ \A k \in 1..(End - 1) : Key(k) \in Int /\ active.idOrder[k] \in DOMAIN active.rules
         /\ \A k, l \in 1..(End - 1) : Key(k) < Key(l) <=> k < l
         /\ \A k, l \in 1..(End - 1) : Key(k) = Key(l) => k = l
<1> DEFINE rules == active.rules
           order == active.idOrder
<1>1. Admitted(rules) /\ order = IdOrder(rules)
  BY DEF IsRuleset
<1>2. \A k \in DOMAIN rules : rules[k].id \in Int
  BY <1>1 DEF Admitted, AreRules, IsRule
<1> HIDE DEF rules, order
<1>3. PICK n \in Nat : DOMAIN order = 1..n /\ Len(order) = n
  BY <1>1, IdOrderSorts
<1>4. \A k \in 1..n : order[k] \in DOMAIN rules
  BY <1>1, <1>3, IdOrderSorts
<1>5. \A k, l \in 1..n : rules[order[k]].id < rules[order[l]].id <=> k < l
  BY <1>1, <1>3, IdOrderSorts
<1>6. End = n + 1 /\ End - 1 = n
  BY <1>3 DEF End, order
<1>7. \A k \in 1..n : Key(k) = rules[order[k]].id
  BY DEF Key, rules, order
<1>8. \A k \in 1..n : Key(k) \in Int
  BY <1>2, <1>4, <1>7
<1>9. \A k, l \in 1..n : Key(k) < Key(l) <=> k < l
  BY <1>5, <1>7
<1>10. \A k, l \in 1..n : Key(k) = Key(l) => k = l
  <2> SUFFICES ASSUME NEW k \in 1..n, NEW l \in 1..n, Key(k) = Key(l)  PROVE k = l
    OBVIOUS
  <2>1. ~(Key(k) < Key(l)) /\ ~(Key(l) < Key(k))
    BY <1>8
  <2>2. ~(k < l) /\ ~(l < k)
    BY <1>9, <2>1
  <2>3. QED  BY <2>2
<1>11. QED  BY <1>3, <1>4, <1>6, <1>8, <1>9, <1>10 DEF order, rules

LEMMA FoundIs ==
  ASSUME IsRuleset(active), NEW string \in Int,
         NEW lo \in 1..End, NEW hi \in 1..End, NEW k \in lo..(hi - 1), Key(k) = string
  PROVE  Found(lo, hi, string) = RuleId(active, active.idOrder[k])
<1>1. lo..(hi - 1) \subseteq 1..(End - 1)
  BY KeysGrow
<1>2. \A l \in lo..(hi - 1) : Key(l) = string => l = k
  BY <1>1, KeysGrow
<1>3. (CHOOSE l \in lo..(hi - 1) : Key(l) = string) = k
  BY <1>2
<1>4. QED  BY <1>3 DEF Found

\* One halving keeps what is found, if the searches of both halves do.
LEMMA HalvingFinds ==
  ASSUME IsRuleset(active), NEW string \in Int,
         NEW lo \in 1..End, NEW hi \in 1..End, NEW search,
         \A a, b \in 1..End : b - a < hi - lo => search[<<a, b>>] = Found(a, b, string)
  PROVE  Halve(search, lo, hi, string) = Found(lo, hi, string)
<1> DEFINE mid == (lo + hi) \div 2
           id == active.rules[active.idOrder[mid]].id
<1>1. End \in Nat \ {0} /\ lo \in Int /\ hi \in Int /\ 1 <= lo /\ hi <= End
  BY KeysGrow
<1>2. CASE lo >= hi
  <2>1. lo..(hi - 1) = {}
    BY <1>1, <1>2
  <2>2. Found(lo, hi, string) = None
    BY <2>1 DEF Found
  <2>3. ~(lo < hi)
    BY <1>1, <1>2
  <2>4. QED  BY <1>2, <2>2, <2>3 DEF Halve
<1>3. CASE lo < hi
  <2>1. mid \in lo..(hi - 1) /\ mid \in Int /\ lo <= mid /\ mid < hi
    BY <1>1, <1>3
  <2> HIDE DEF mid
  <2>2. lo..(hi - 1) \subseteq 1..(End - 1)
    BY <1>1
  <2>3. id = Key(mid) /\ id \in Int
    BY <2>1, <2>2, KeysGrow DEF Key
  <2>4. ~(lo >= hi)
    BY <1>1, <1>3
  <2> HIDE DEF id
  <2>5. CASE id = string
    <3>1. ~(id < string) /\ ~(id > string)
      BY <2>3, <2>5
    <3>2. Halve(search, lo, hi, string) = RuleId(active, active.idOrder[mid])
      BY <1>3, <2>4, <2>5, <3>1 DEF Halve, mid, id
    <3>3. Key(mid) = string
      BY <2>3, <2>5
    <3>4. Found(lo, hi, string) = RuleId(active, active.idOrder[mid])
      BY <2>1, <3>3, FoundIs
    <3>5. QED  BY <3>2, <3>4
  <2>6. CASE id < string
    <3>1. id # string /\ ~(id > string)
      BY <2>3, <2>6
    <3>2. Halve(search, lo, hi, string) = search[<<mid + 1, hi>>]
      BY <1>3, <2>4, <2>6, <3>1 DEF Halve, mid, id
    <3>3. mid + 1 \in 1..End /\ hi - (mid + 1) < hi - lo
      BY <1>1, <2>1
    <3>4. Halve(search, lo, hi, string) = Found(mid + 1, hi, string)
      BY <3>2, <3>3
    <3>5. \A k \in lo..(hi - 1) : Key(k) = string => k \in (mid + 1)..(hi - 1)
      <4> SUFFICES ASSUME NEW k \in lo..(hi - 1), Key(k) = string
                   PROVE  mid < k
        BY <2>1
      <4>1. Key(mid) < Key(k)
        BY <2>3, <2>6
      <4>2. QED  BY <2>1, <2>2, <4>1, KeysGrow
    <3>6. CASE \E k \in lo..(hi - 1) : Key(k) = string
      <4>1. PICK k \in lo..(hi - 1) : Key(k) = string
        BY <3>6
      <4>2. k \in (mid + 1)..(hi - 1)
        BY <3>5, <4>1
      <4>3. Found(lo, hi, string) = RuleId(active, active.idOrder[k])
        BY <4>1, FoundIs
      <4>4. Found(mid + 1, hi, string) = RuleId(active, active.idOrder[k])
        BY <3>3, <4>1, <4>2, FoundIs
      <4>5. QED  BY <3>4, <4>3, <4>4
    <3>7. CASE ~(\E k \in lo..(hi - 1) : Key(k) = string)
      <4>1. (mid + 1)..(hi - 1) \subseteq lo..(hi - 1)
        BY <1>1, <2>1
      <4>2. ~(\E k \in (mid + 1)..(hi - 1) : Key(k) = string)
        BY <3>7, <4>1
      <4>3. QED  BY <3>4, <3>7, <4>2 DEF Found
    <3>8. QED  BY <3>6, <3>7
  <2>7. CASE id > string
    <3>1. id # string /\ ~(id < string)
      BY <2>3, <2>7
    <3>2. Halve(search, lo, hi, string) = search[<<lo, mid>>]
      BY <1>3, <2>4, <2>7, <3>1 DEF Halve, mid, id
    <3>3. mid \in 1..End /\ mid - lo < hi - lo
      BY <1>1, <2>1
    <3>4. Halve(search, lo, hi, string) = Found(lo, mid, string)
      BY <3>2, <3>3
    <3>5. \A k \in lo..(hi - 1) : Key(k) = string => k \in lo..(mid - 1)
      <4> SUFFICES ASSUME NEW k \in lo..(hi - 1), Key(k) = string
                   PROVE  k < mid
        BY <1>1, <2>1
      <4>1. Key(k) < Key(mid)
        BY <2>3, <2>7
      <4>2. QED  BY <2>1, <2>2, <4>1, KeysGrow
    <3>6. CASE \E k \in lo..(hi - 1) : Key(k) = string
      <4>1. PICK k \in lo..(hi - 1) : Key(k) = string
        BY <3>6
      <4>2. k \in lo..(mid - 1)
        BY <3>5, <4>1
      <4>3. Found(lo, hi, string) = RuleId(active, active.idOrder[k])
        BY <4>1, FoundIs
      <4>4. Found(lo, mid, string) = RuleId(active, active.idOrder[k])
        BY <3>3, <4>1, <4>2, FoundIs
      <4>5. QED  BY <3>4, <4>3, <4>4
    <3>7. CASE ~(\E k \in lo..(hi - 1) : Key(k) = string)
      <4>1. lo..(mid - 1) \subseteq lo..(hi - 1)
        BY <1>1, <2>1
      <4>2. ~(\E k \in lo..(mid - 1) : Key(k) = string)
        BY <3>7, <4>1
      <4>3. QED  BY <3>4, <3>7, <4>2 DEF Found
    <3>8. QED  BY <3>6, <3>7
  <2>8. QED  BY <2>3, <2>5, <2>6, <2>7
<1>4. QED  BY <1>1, <1>2, <1>3

\* The binary search finds what a scan would: the recursive function has a
\* solution, and by induction on the width it is what should be found.
LEMMA SearchFinds ==
  ASSUME IsRuleset(active), NEW string \in Int
  PROVE  rule_id(string) = Found(1, End, string)
<1> DEFINE D == 1..End
           f == [r \in D \X D |-> Found(r[1], r[2], string)]
           eqn(s) == s = [r \in D \X D |-> Halve(s, r[1], r[2], string)]
           search == CHOOSE s : eqn(s)
<1>1. End \in Nat \ {0}
  BY KeysGrow
<1>2. \A a, b \in D : f[<<a, b>>] = Found(a, b, string)
  OBVIOUS
<1>3. eqn(f)
  <2>1. \A a, b \in D : Halve(f, a, b, string) = Found(a, b, string)
    <3> HIDE DEF f
    <3>1. QED  BY <1>2, HalvingFinds
  <2>2. \A r \in D \X D : Halve(f, r[1], r[2], string) = Found(r[1], r[2], string)
    BY <2>1
  <2>3. QED  BY <2>2
<1>4. eqn(search)
  <2> HIDE DEF eqn
  <2>1. QED  BY <1>3, Zenon
<1> HIDE DEF search
<1>5. \A a, b \in D : search[<<a, b>>] = Halve(search, a, b, string)
  BY <1>4
<1> DEFINE T == {n \in Nat : \A a, b \in D : b - a < n => search[<<a, b>>] = Found(a, b, string)}
<1>6. \A n \in Nat : (\A a, b \in D : b - a < n => search[<<a, b>>] = Found(a, b, string))
                       => \A a, b \in D : b - a < n + 1 => search[<<a, b>>] = Found(a, b, string)
  <2> SUFFICES ASSUME NEW n \in Nat,
                      \A a, b \in D : b - a < n => search[<<a, b>>] = Found(a, b, string),
                      NEW lo \in D, NEW hi \in D, hi - lo < n + 1
               PROVE  search[<<lo, hi>>] = Found(lo, hi, string)
    OBVIOUS
  <2>1. \A a, b \in D : b - a < hi - lo => b - a < n
    BY <1>1
  <2>2. \A a, b \in 1..End : b - a < hi - lo => search[<<a, b>>] = Found(a, b, string)
    BY <2>1
  <2>3. Halve(search, lo, hi, string) = Found(lo, hi, string)
    BY <2>2, HalvingFinds
  <2>4. QED  BY <1>5, <2>3
<1>7. \A n \in Nat : n \in T
  <2>1. 0 \in T
    <3> SUFFICES ASSUME NEW lo \in D, NEW hi \in D, hi - lo < 0
                 PROVE  search[<<lo, hi>>] = Found(lo, hi, string)
      OBVIOUS
    <3>1. lo >= hi
      BY <1>1
    <3>2. Halve(search, lo, hi, string) = None
      <4>1. ~(lo < hi)
        BY <1>1, <3>1
      <4>2. QED  BY <3>1, <4>1 DEF Halve
    <3>3. lo..(hi - 1) = {}
      BY <1>1, <3>1
    <3>4. Found(lo, hi, string) = None
      BY <3>3 DEF Found
    <3>5. QED  BY <1>5, <3>2, <3>4
  <2>2. ASSUME NEW n \in Nat, n \in T  PROVE n + 1 \in T
    <3>1. \A a, b \in D : b - a < n => search[<<a, b>>] = Found(a, b, string)
      BY <2>2
    <3>2. \A a, b \in D : b - a < n + 1 => search[<<a, b>>] = Found(a, b, string)
      BY <1>6, <3>1
    <3>3. n + 1 \in Nat
      OBVIOUS
    <3>4. QED  BY <3>2, <3>3
  <2> HIDE DEF T
  <2>3. QED  BY <2>1, <2>2, NatSetInduction
<1>8. search[<<1, End>>] = Found(1, End, string)
  <2>1. 1 \in D /\ End \in D /\ End \in Nat /\ End - 1 < End
    BY <1>1
  <2>2. End \in T
    BY <1>7, <2>1
  <2>3. QED  BY <2>1, <2>2
<1>9. rule_id(string) = search[<<1, End>>]
  BY Zenon DEF rule_id, End, search
<1>10. QED  BY <1>8, <1>9

LEMMA LookupFinds ==
  ASSUME IsRuleset(active), NEW string \in Int
  PROVE  /\ rule_id(string) # None =>
              \E i \in DOMAIN active.rules :
                rule_id(string) = RuleId(active, i) /\ active.rules[i].id = string
         /\ \A i \in DOMAIN active.rules :
              active.rules[i].id = string => rule_id(string) = RuleId(active, i)
<1>1. End \in Nat \ {0} /\ DOMAIN active.idOrder = 1..(End - 1)
      /\ \A k \in 1..(End - 1) : active.idOrder[k] \in DOMAIN active.rules
  BY KeysGrow
<1>2. 1 \in 1..End /\ End \in 1..End
  BY <1>1
<1>3. rule_id(string) = Found(1, End, string)
  BY SearchFinds
<1>4. ASSUME rule_id(string) # None
      PROVE  \E i \in DOMAIN active.rules :
               rule_id(string) = RuleId(active, i) /\ active.rules[i].id = string
  <2>1. \E k \in 1..(End - 1) : Key(k) = string
    BY <1>3, <1>4 DEF Found
  <2>2. PICK k \in 1..(End - 1) : Key(k) = string
    BY <2>1
  <2>3. rule_id(string) = RuleId(active, active.idOrder[k])
    BY <1>2, <1>3, <2>2, FoundIs
  <2>4. active.idOrder[k] \in DOMAIN active.rules /\ active.rules[active.idOrder[k]].id = string
    BY <1>1, <2>2 DEF Key
  <2>5. QED  BY <2>3, <2>4
<1>5. ASSUME NEW i \in DOMAIN active.rules, active.rules[i].id = string
      PROVE  rule_id(string) = RuleId(active, i)
  <2>1. \E k \in DOMAIN active.idOrder : active.idOrder[k] = i
    <3>1. Admitted(active.rules) /\ active.idOrder = IdOrder(active.rules)
      BY DEF IsRuleset
    <3>2. QED  BY <3>1, IdOrderSorts
  <2>2. PICK k \in 1..(End - 1) : active.idOrder[k] = i
    BY <1>1, <2>1
  <2>3. Key(k) = string
    BY <1>5, <2>2 DEF Key
  <2>4. Found(1, End, string) = RuleId(active, active.idOrder[k])
    BY <1>2, <2>2, <2>3, FoundIs
  <2>5. QED  BY <1>3, <2>2, <2>4
<1>6. QED  BY <1>4, <1>5

-----------------------------------------------------------------------------
\* The inductive invariant.
IdentityInv == nextId \in 1..(MaxBuilds + 1)

ActiveInv == active # None => IsRuleset(active) /\ active.id \in 1..(nextId - 1)

SavedInv ==
  saved # None =>
    Admitted(source) /\ saved = [i \in DOMAIN source |-> Canonical(source[i])]

OutcomeInv == outcome.code \in Codes /\ outcome.at \in Nat

InputInv ==
  /\ input.from = "saved" => outcome = Built /\ active.rules = source
  /\ input.from = "geojson" =>
       /\ input.doc \in Documents
       /\ outcome = LoadOutcome(GeoRead(input.doc), GeoRules(input.doc))
  /\ input.from = "canonical" =>
       /\ input.doc \in Documents
       /\ outcome = LoadOutcome(CanonicalRead(input.doc), CanonicalRules(input.doc))

HandleInv ==
  handle # None =>
    /\ handle.ruleId.owner \in 1..(nextId - 1)
    /\ active # None /\ handle.ruleId.owner = active.id =>
         active.rules[handle.ruleId.index].id = handle.name

ConstructionInv ==
  /\ IdentityInv /\ ActiveInv /\ SavedInv /\ OutcomeInv /\ InputInv /\ HandleInv

\* A load keeps everything but what the input says of the outcome.
LEMMA LoadsKeep ==
  ASSUME ConstructionInv, NEW read, NEW rules, BuildUnless(read, rules),
         read.code \in Codes, read.at \in Nat, read = Built => AreRules(rules),
         UNCHANGED <<saved, source, handle>>
  PROVE  /\ IdentityInv' /\ ActiveInv' /\ SavedInv' /\ OutcomeInv' /\ HandleInv'
         /\ outcome' = LoadOutcome(read, rules)
         /\ outcome' = Built => active'.rules = rules
<1>1. MaxBuilds \in Nat /\ nextId \in 1..(MaxBuilds + 1) /\ nextId <= MaxBuilds
  BY ConstructionAssumption DEF ConstructionInv, IdentityInv, BuildUnless
<1>2. SavedInv'
  BY DEF ConstructionInv, SavedInv
<1>3. CASE read # Built
  <2>1. outcome' = read /\ nextId' = nextId /\ active' = active
    BY <1>3 DEF BuildUnless
  <2>2. IdentityInv' /\ ActiveInv' /\ HandleInv'
    BY <2>1 DEF ConstructionInv, IdentityInv, ActiveInv, HandleInv
  <2>3. OutcomeInv'
    BY <2>1 DEF OutcomeInv
  <2>4. QED  BY <1>2, <1>3, <2>1, <2>2, <2>3 DEF LoadOutcome
<1>4. CASE read = Built
  <2>1. Build(rules)
    BY <1>4 DEF BuildUnless
  <2>2. nextId' = nextId + 1 /\ outcome' = Gates(rules)
    BY <2>1 DEF Build
  <2>3. IdentityInv'
    BY <1>1, <2>2 DEF IdentityInv
  <2>4. OutcomeInv'
    BY <1>4, <2>2, GatesAdmit DEF OutcomeInv
  <2>5. outcome' = LoadOutcome(read, rules)
    BY <1>4, <2>2 DEF LoadOutcome
  <2>6. 1..(nextId - 1) \subseteq 1..(nextId' - 1) /\ nextId \in 1..(nextId' - 1)
        /\ nextId \notin 1..(nextId - 1)
    BY <1>1, <2>2
  <2>7. CASE Gates(rules) # Built
    <3>1. active' = active
      BY <2>1, <2>7 DEF Build
    <3>2. ActiveInv' /\ HandleInv'
      BY <2>6, <3>1 DEF ConstructionInv, ActiveInv, HandleInv
    <3>3. QED  BY <1>2, <2>2, <2>3, <2>4, <2>5, <2>7, <3>2
  <2>8. CASE Gates(rules) = Built
    <3>1. active' = [rules |-> rules, idOrder |-> IdOrder(rules), id |-> nextId]
      BY <2>1, <2>8 DEF Build
    <3>2. active'.rules = rules /\ active'.idOrder = IdOrder(rules) /\ active'.id = nextId
      BY <3>1
    <3>3. Admitted(rules)
      BY <1>4, <2>8, GatesAdmit
    <3>4. IsRuleset(active')
      BY <3>2, <3>3 DEF IsRuleset
    <3>5. ActiveInv'
      BY <2>6, <3>2, <3>4 DEF ActiveInv
    <3>6. HandleInv'
      BY <2>6, <3>2 DEF ConstructionInv, HandleInv
    <3>7. QED  BY <1>2, <2>3, <2>4, <2>5, <3>2, <3>5, <3>6
  <2>9. QED  BY <2>7, <2>8
<1>5. QED  BY <1>3, <1>4

LEMMA ConstructionInvHolds == Spec => []ConstructionInv
<1>1. Init => ConstructionInv
  BY ConstructionAssumption
  DEF Init, ConstructionInv, IdentityInv, ActiveInv, SavedInv, OutcomeInv, InputInv,
      HandleInv, Built, Codes
<1>2. ConstructionInv /\ [Next]_vars => ConstructionInv'
  <2> SUFFICES ASSUME ConstructionInv, [Next]_vars  PROVE ConstructionInv'
    OBVIOUS
  <2>1. ASSUME NEW doc \in Documents, FromGeoJson(doc)  PROVE ConstructionInv'
    <3>1. BuildUnless(GeoRead(doc), GeoRules(doc))
      BY <2>1 DEF FromGeoJson, GeoRead, GeoRules
    <3>2. input' = [from |-> "geojson", doc |-> doc] /\ UNCHANGED <<saved, source, handle>>
      BY <2>1 DEF FromGeoJson, Loaded
    <3>3. /\ IdentityInv' /\ ActiveInv' /\ SavedInv' /\ OutcomeInv' /\ HandleInv'
          /\ outcome' = LoadOutcome(GeoRead(doc), GeoRules(doc))
      BY <3>1, <3>2, GeoJsonReads, LoadsKeep
    <3>4. InputInv'
      BY <3>2, <3>3 DEF InputInv
    <3>5. QED  BY <3>3, <3>4 DEF ConstructionInv
  <2>2. ASSUME NEW doc \in Documents, FromCanonical("canonical", doc)  PROVE ConstructionInv'
    <3>1. BuildUnless(CanonicalRead(doc), CanonicalRules(doc))
      BY <2>2 DEF FromCanonical, CanonicalRead, CanonicalRules
    <3>2. input' = [from |-> "canonical", doc |-> doc] /\ UNCHANGED <<saved, source, handle>>
      BY <2>2 DEF FromCanonical, Loaded
    <3>3. /\ IdentityInv' /\ ActiveInv' /\ SavedInv' /\ OutcomeInv' /\ HandleInv'
          /\ outcome' = LoadOutcome(CanonicalRead(doc), CanonicalRules(doc))
      BY <3>1, <3>2, CanonicalReads, LoadsKeep
    <3>4. InputInv'
      BY <3>2, <3>3 DEF InputInv
    <3>5. QED  BY <3>3, <3>4 DEF ConstructionInv
  <2>3. ASSUME NEW rules \in Programs, FromRules(rules)  PROVE ConstructionInv'
    <3>1. BuildUnless(Built, rules)
      BY <2>3 DEF FromRules
    <3>2. input' = [from |-> "program", doc |-> <<>>] /\ UNCHANGED <<saved, source, handle>>
      BY <2>3 DEF FromRules, Loaded
    <3>3. AreRules(rules)
      <4>1. /\ Len(rules) \in Nat /\ rules = [i \in 1..Len(rules) |-> rules[i]]
            /\ \A i \in DOMAIN rules : IsRule(rules[i])
        BY ConstructionAssumption DEF IsProgram
      <4>2. DOMAIN rules = 1..Len(rules)
        BY <4>1
      <4>3. QED  BY <4>1, <4>2 DEF AreRules, Indexed
    <3>4. Built.code \in Codes /\ Built.at \in Nat
      BY DEF Built, Codes
    <3>5. IdentityInv' /\ ActiveInv' /\ SavedInv' /\ OutcomeInv' /\ HandleInv'
      BY <3>1, <3>2, <3>3, <3>4, LoadsKeep
    <3>6. InputInv'
      BY <3>2 DEF InputInv
    <3>7. QED  BY <3>5, <3>6 DEF ConstructionInv
  <2>4. CASE ToCanonical
    <3>1. /\ active # None /\ source' = active.rules
          /\ saved' = [i \in DOMAIN active.rules |-> Canonical(active.rules[i])]
          /\ UNCHANGED <<nextId, active, input, outcome, handle>>
      BY <2>4 DEF ToCanonical
    <3>2. Admitted(active.rules)
      BY <3>1 DEF ConstructionInv, ActiveInv, IsRuleset
    <3>3. SavedInv'
      BY <3>1, <3>2 DEF SavedInv
    <3>4. IdentityInv' /\ ActiveInv' /\ OutcomeInv' /\ HandleInv'
      BY <3>1 DEF ConstructionInv, IdentityInv, ActiveInv, OutcomeInv, HandleInv
    <3>5. InputInv'
      BY <3>1 DEF ConstructionInv, InputInv
    <3>6. QED  BY <3>3, <3>4, <3>5 DEF ConstructionInv
  <2>5. CASE LoadSaved
    <3>1. saved # None /\ FromCanonical("saved", saved)
      BY <2>5 DEF LoadSaved
    <3>2. Admitted(source) /\ saved = [i \in DOMAIN source |-> Canonical(source[i])]
      BY <3>1 DEF ConstructionInv, SavedInv
    <3>3. (\A i \in DOMAIN saved : DeserializesRule(saved[i]))
          /\ [i \in DOMAIN saved |-> rule_from_canonical(saved[i])] = source
      BY <3>2, SavedIsRead
    <3>4. BuildUnless(Built, source)
      BY <3>1, <3>3 DEF FromCanonical
    <3>5. input' = [from |-> "saved", doc |-> saved] /\ UNCHANGED <<saved, source, handle>>
      BY <3>1 DEF FromCanonical, Loaded
    <3>6. AreRules(source) /\ Gates(source) = Built
      BY <3>2, AdmittedPass DEF Admitted
    <3>7. Built.code \in Codes /\ Built.at \in Nat
      BY DEF Built, Codes
    <3>8. /\ IdentityInv' /\ ActiveInv' /\ SavedInv' /\ OutcomeInv' /\ HandleInv'
          /\ outcome' = LoadOutcome(Built, source) /\ (outcome' = Built => active'.rules = source)
      BY <3>4, <3>5, <3>6, <3>7, LoadsKeep
    <3>9. outcome' = Built /\ active'.rules = source'
      BY <3>5, <3>6, <3>8 DEF LoadOutcome
    <3>10. InputInv'
      BY <3>5, <3>9 DEF InputInv
    <3>11. QED  BY <3>8, <3>10 DEF ConstructionInv
  <2>6. ASSUME NEW string \in Ids, LookUp(string)  PROVE ConstructionInv'
    <3>1. /\ active # None /\ rule_id(string) # None
          /\ handle' = [ruleId |-> rule_id(string), name |-> string]
          /\ UNCHANGED <<nextId, active, input, outcome, saved, source>>
      BY <2>6 DEF LookUp
    <3>2. IsRuleset(active) /\ active.id \in 1..(nextId - 1)
      BY <3>1 DEF ConstructionInv, ActiveInv
    <3>3. PICK i \in DOMAIN active.rules :
            rule_id(string) = RuleId(active, i) /\ active.rules[i].id = string
      BY <3>1, <3>2, LookupFinds, ConstructionAssumption
    <3>4. handle'.ruleId.owner = active.id /\ handle'.ruleId.index = i /\ handle'.name = string
      BY <3>1, <3>3 DEF RuleId
    <3>5. HandleInv'
      BY <3>1, <3>2, <3>3, <3>4 DEF HandleInv
    <3>6. IdentityInv' /\ ActiveInv' /\ SavedInv' /\ OutcomeInv' /\ InputInv'
      BY <3>1 DEF ConstructionInv, IdentityInv, ActiveInv, SavedInv, OutcomeInv, InputInv
    <3>7. QED  BY <3>5, <3>6 DEF ConstructionInv
  <2>7. CASE UNCHANGED vars
    BY <2>7 DEF vars, ConstructionInv, IdentityInv, ActiveInv, SavedInv, OutcomeInv, InputInv,
                HandleInv
  <2>8. QED  BY <2>1, <2>2, <2>3, <2>4, <2>5, <2>6, <2>7 DEF Next
<1>3. QED  BY <1>1, <1>2, PTL DEF Spec

-----------------------------------------------------------------------------
\* The variables have their types: identities are drawn one by one, and the id
\* table of a ruleset has each of its rules once.
THEOREM ConstructionTypeCorrect == Spec => []TypeOK
<1>1. ConstructionInv => TypeOK
  <2> SUFFICES ASSUME ConstructionInv  PROVE TypeOK
    OBVIOUS
  <2>1. ASSUME active # None
        PROVE  IsInjective(active.idOrder) /\ ToSet(active.idOrder) = DOMAIN active.rules
    <3>1. IsRuleset(active)
      BY <2>1 DEF ConstructionInv, ActiveInv
    <3> DEFINE rules == active.rules
               order == active.idOrder
    <3>2. Admitted(rules) /\ order = IdOrder(rules)
      BY <3>1 DEF IsRuleset
    <3>3. \A k, l \in 1..(End - 1) : Key(k) = Key(l) => k = l
      BY <3>1, KeysGrow
    <3>4. DOMAIN order = 1..(End - 1)
      BY <3>1, KeysGrow
    <3>5. \A k, l \in DOMAIN order : order[k] = order[l] => k = l
      BY <3>3, <3>4 DEF Key
    <3>6. /\ \A k \in DOMAIN order : order[k] \in DOMAIN rules
          /\ \A i \in DOMAIN rules : \E k \in DOMAIN order : order[k] = i
      BY <3>2, IdOrderSorts
    <3>7. {order[k] : k \in DOMAIN order} = DOMAIN rules
      BY <3>6
    <3>8. QED  BY <3>5, <3>7 DEF IsInjective, ToSet
  <2>2. QED  BY <2>1 DEF ConstructionInv, IdentityInv, ActiveInv, OutcomeInv, TypeOK
<1>2. QED  BY <1>1, ConstructionInvHolds, PTL

\* "Can always round-trip": whatever rules came from whatever source, if a
\* ruleset was built of them, its canonical form builds the same one.
THEOREM SavedRulesetsAlwaysLoad == Spec => []SavedRulesetsLoad
<1>1. ConstructionInv => SavedRulesetsLoad
  BY DEF ConstructionInv, InputInv, SavedRulesetsLoad
<1>2. QED  BY <1>1, ConstructionInvHolds, PTL

\* The binary search finds the rule that has an id, and none if there is none,
\* in a ruleset of any number of rules.
THEOREM LookupIsExact == Spec => []LookupFindsTheRule
<1>1. ConstructionInv => LookupFindsTheRule
  <2> SUFFICES ASSUME ConstructionInv, active # None,
                      NEW string \in Ids, NEW i \in DOMAIN active.rules
               PROVE  rule_id(string) = RuleId(active, i) <=> active.rules[i].id = string
    BY DEF LookupFindsTheRule
  <2>1. IsRuleset(active) /\ active.id \in Int
    BY DEF ConstructionInv, ActiveInv
  <2>2. string \in Int
    BY ConstructionAssumption
  <2>3. ASSUME rule_id(string) = RuleId(active, i)  PROVE active.rules[i].id = string
    <3>1. i \in Int
      BY <2>1 DEF IsRuleset, Admitted, AreRules, Indexed
    <3>2. RuleId(active, i) \in [index : Int, owner : Int]
      BY <2>1, <3>1 DEF RuleId
    <3>3. rule_id(string) # None
      BY <2>3, <3>2, ConstructionAssumption
    <3>4. PICK j \in DOMAIN active.rules :
            rule_id(string) = RuleId(active, j) /\ active.rules[j].id = string
      BY <2>1, <2>2, <3>3, LookupFinds
    <3>5. i = j
      BY <2>3, <3>4 DEF RuleId
    <3>6. QED  BY <3>4, <3>5
  <2>4. active.rules[i].id = string => rule_id(string) = RuleId(active, i)
    BY <2>1, <2>2, LookupFinds
  <2>5. QED  BY <2>3, <2>4
<1>2. QED  BY <1>1, ConstructionInvHolds, PTL

\* "A foreign id is a misuse the accessors reject": a rule id names the rule it
\* was looked up for or nothing, however many rulesets were built since.
THEOREM HandlesAlwaysNameTheirRule == Spec => []HandlesNameTheirRule
<1>1. ConstructionInv => HandlesNameTheirRule
  BY DEF ConstructionInv, HandleInv, HandlesNameTheirRule, string_id, checked_index
<1>2. QED  BY <1>1, ConstructionInvHolds, PTL

\* "The same gate as GeoJSON ingestion": a document whose only faults are
\* priorities comes to the same outcome from either reader.
THEOREM PriorityFaultsAlwaysAgree == Spec => []PriorityFaultsAgree
<1>1. ConstructionInv => PriorityFaultsAgree
  <2> SUFFICES ASSUME ConstructionInv, input.from \in {"geojson", "canonical"},
                      PrioritiesOnly(input.doc)
               PROVE  outcome = PriorityOutcome(input.doc)
    BY Zenon DEF PriorityFaultsAgree, PrioritiesOnly, PriorityOutcome, Faulty, Negative
  <2>1. CASE input.from = "geojson"
    BY <2>1, GeoJsonFaultsPriorities DEF ConstructionInv, InputInv
  <2>2. CASE input.from = "canonical"
    BY <2>2, CanonicalFaultsPriorities DEF ConstructionInv, InputInv
  <2>3. QED  BY <2>1, <2>2
<1>2. QED  BY <1>1, ConstructionInvHolds, PTL
=============================================================================
