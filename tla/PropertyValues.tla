--------------------------- MODULE PropertyValues ---------------------------
(***************************************************************************)
(* core/src/model/properties.rs: what a JSON scalar becomes as a property  *)
(* of a rule or as an operand of a query, and how two such values compare. *)
(*                                                                         *)
(* A number is counted in halves, so that 1 is a number with a fraction    *)
(* and 2 the integer one.  A string is a number too; -0.0 is left out, so  *)
(* that bit equality of floats is equality of their values.  The text of a *)
(* float is taken to be read as the float that was written.                *)
(***************************************************************************)
EXTENDS Integers

CONSTANTS IntLimit,  \* bound: i64 is -IntLimit..IntLimit - 1
          NaN        \* the value of a Float that is not finite

ASSUME PropertyValuesAssumption ==
  /\ IntLimit \in Nat \ {0}
  /\ NaN \in Int

\* A JSON scalar: "integer" and "decimal" are spellings of a number, and
\* "nested" is an array or an object.
Json(form, value) == [form |-> form, value |-> value]
JsonNull   == Json("null", 0)
JsonNested == Json("nested", 0)

\* What a document has, where no number is infinite.
Forms == {"null", "bool", "integer", "decimal", "string", "nested"}
IsJson(j) ==
  /\ j.form \in Forms /\ j = Json(j.form, j.value) /\ j.value \in Int
  /\ j.form \in {"null", "nested"} => j.value = 0
  /\ j.form \in {"integer", "decimal"} => j.value # NaN

Value(variant, value) == [variant |-> variant, value |-> value]
Unsupported == Value("unsupported", 0)

HasFraction(halves) == halves % 2 = 1
FitsI64(halves)     == halves \in (-2 * IntLimit)..(2 * IntLimit - 1)

\* What the types of Rust let a property be.
Variants == {"Null", "Bool", "Int", "Float", "Str"}
IsPropertyValue(v) ==
  /\ v.variant \in Variants /\ v = Value(v.variant, v.value) /\ v.value \in Int
  /\ v.variant = "Null" => v.value = 0
  /\ v.variant = "Int" => FitsI64(v.value)

\* Mutant: a number is typed by its spelling.
NumberBySpelling(j) ==
  IF j.form = "integer" /\ FitsI64(j.value) THEN Value("Int", j.value)
                                            ELSE Value("Float", j.value)

\* Int when the value is integral and fits, however it is spelled.
number_to_property_value(j) ==
  IF ~HasFraction(j.value) /\ FitsI64(j.value) THEN Value("Int", j.value)
                                               ELSE Value("Float", j.value)

\* GeoJSON properties and the operands of a query.
from_json_value(j) ==
  CASE j.form = "null"   -> Value("Null", 0)
    [] j.form = "bool"   -> Value("Bool", j.value)
    [] j.form = "string" -> Value("Str", j.value)
    [] j.form = "nested" -> Unsupported
    [] OTHER             -> number_to_property_value(j)

\* The untagged derive: the first variant whose type the JSON value has, and an
\* i64 takes no decimal.
deserialize(j) ==
  CASE j.form = "null"    -> Value("Null", 0)
    [] j.form = "bool"    -> Value("Bool", j.value)
    [] j.form = "integer" /\ FitsI64(j.value) -> Value("Int", j.value)
    [] j.form = "string"  -> Value("Str", j.value)
    [] j.form = "nested"  -> Unsupported
    [] OTHER              -> Value("Float", j.value)

is_serializable(v) == v.variant = "Float" => v.value # NaN

\* Mutant: an integral float is written without its fraction.
serializeShort(v) ==
  CASE v.variant = "Null" \/ ~is_serializable(v) -> JsonNull
    [] v.variant = "Bool"  -> Json("bool", v.value)
    [] v.variant = "Float" /\ HasFraction(v.value) -> Json("decimal", v.value)
    [] v.variant = "Str"   -> Json("string", v.value)
    [] OTHER               -> Json("integer", v.value)

\* A float is written with its fraction ("10.0"), one that is not finite as null.
serialize(v) ==
  CASE v.variant = "Null" \/ ~is_serializable(v) -> JsonNull
    [] v.variant = "Bool"  -> Json("bool", v.value)
    [] v.variant = "Int"   -> Json("integer", v.value)
    [] v.variant = "Str"   -> Json("string", v.value)
    [] OTHER               -> Json("decimal", v.value)

\* properties_from_json: a value of an unsupported type is skipped.
properties_from_json(members) ==
  [f \in {g \in DOMAIN members : from_json_value(members[g]) # Unsupported} |->
     from_json_value(members[f])]

\* PartialEq is equality of records.
same_variant(a, b) == a.variant = b.variant

Numeric(v) == v.variant \in {"Int", "Float"}

\* compare_numbers(a, b) found the ordering, one of "less", "equal", "greater".
Compares(a, b, ordering) ==
  /\ Numeric(a) /\ Numeric(b) /\ a.value # NaN /\ b.value # NaN
  /\ CASE ordering = "less"    -> a.value < b.value
       [] ordering = "equal"   -> a.value = b.value
       [] ordering = "greater" -> a.value > b.value
=============================================================================
