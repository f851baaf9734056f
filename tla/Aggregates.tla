----------------------------- MODULE Aggregates -----------------------------
(***************************************************************************)
(* core/src/runtime/aggregate.rs and the overlap metric of evaluate.rs:    *)
(* what the rich outcomes say in numbers about the rules that apply to a   *)
(* candidate.                                                              *)
(*                                                                         *)
(* The plane is a set of cells of one area each.  A rule covers a set of   *)
(* cells; a candidate polygon is the sequence of its components, each a    *)
(* set of cells with the winding of its ring, and a point has none.        *)
(* Numbers are exact and finite (PropertyValues counts them in halves).    *)
(***************************************************************************)
EXTENDS PropertyValues, Sorting, SequencesExt

CONSTANT Footprint  \* the cells each rule covers

\* An AggregateSpec is the requested functions with the field each one names;
\* count and coverage name none.  AggregateSpec::validate, and the same gate of
\* AggregateSpec::from_json:
RequestsNothing(spec) == DOMAIN spec = {}

-----------------------------------------------------------------------------
\* Mutant: the first rule without a number ends the field's values.
NumericPrefix(field, applicable, properties) ==
  LET contributes(r) ==
        field \in DOMAIN properties[r] /\ Numeric(properties[r][field])
      prefix == {n \in 0..Len(applicable) : \A i \in 1..n : contributes(applicable[i])}
  IN [i \in 1..(CHOOSE n \in prefix : \A k \in prefix : k <= n) |->
        properties[applicable[i]][field].value]

\* The numbers of a field across the applicable rules, in their order; a rule
\* without one is skipped.
numeric_values(field, applicable, properties) ==
  LET contributors ==
        Retain(applicable, {r \in ToSet(applicable) : /\ field \in DOMAIN properties[r]
                                                      /\ Numeric(properties[r][field])})
  IN [i \in DOMAIN contributors |-> properties[contributors[i]][field].value]

numeric_sum_count(values) ==
  FoldLeft(LAMBDA acc, v : [sum |-> acc.sum + v, count |-> acc.count + 1],
           [sum |-> 0, count |-> 0], values)

Lesser(a, b)  == IF b < a THEN b ELSE a
Greater(a, b) == IF b > a THEN b ELSE a

\* A numeric result is a fraction, as the average is one.
numeric(op, values) ==
  LET fold == numeric_sum_count(values) IN
  CASE op = "min" -> <<FoldLeft(Lesser, Head(values), Tail(values)), 1>>
    [] op = "max" -> <<FoldLeft(Greater, Head(values), Tail(values)), 1>>
    [] op = "sum" -> <<fold.sum, 1>>
    [] op = "avg" -> <<fold.sum, fold.count>>

-----------------------------------------------------------------------------
\* Components of a valid candidate share no area.
IsGeometry(geometry) ==
  /\ Len(geometry) \in Nat /\ DOMAIN geometry = 1..Len(geometry)
  /\ \A i \in DOMAIN geometry :
       /\ geometry[i].ccw \in BOOLEAN /\ IsFiniteSet(geometry[i].cells)
       /\ \A j \in DOMAIN geometry \ {i} : geometry[i].cells \cap geometry[j].cells = {}

\* The cells of a candidate.
CellsOf(geometry) == UNION {geometry[i].cells : i \in DOMAIN geometry}

\* The components of a MultiPolygon add up with the sign of their winding.
geodesic_area_signed(geometry) ==
  FoldLeft(LAMBDA total, part :
             IF part.ccw THEN total + Cardinality(part.cells)
                         ELSE total - Cardinality(part.cells), 0, geometry)

Magnitude(n) == IF n < 0 THEN -n ELSE n
AreaOf(geometry) == Magnitude(geodesic_area_signed(geometry))

Share(covered, area) == IF area > 0 THEN <<covered, area>> ELSE <<0, 1>>

\* A point has neither area nor ratio.  BooleanOps winds what it returns alike.
overlap_metric(geometry, r, area) ==
  LET overlap == IF geometry = <<>> THEN 0
                 ELSE Cardinality(CellsOf(geometry) \cap Footprint[r])
  IN [area |-> overlap, ratio |-> Share(overlap, area)]

\* Mutant: the overlaps of the rules are added up.
CoverageOfEach(geometry, applicable) ==
  Share(FoldLeft(LAMBDA total, r :
                   total + Cardinality(CellsOf(geometry) \cap Footprint[r]),
                 0, applicable),
        AreaOf(geometry))

\* The share of the candidate that the union of the rules covers.
coverage_ratio(geometry, applicable) ==
  LET union == UNION {Footprint[r] : r \in ToSet(applicable)} IN
  IF geometry = <<>> THEN <<0, 1>>
  ELSE Share(Cardinality(CellsOf(geometry) \cap union), AreaOf(geometry))

-----------------------------------------------------------------------------
\* The requested functions that have a result: a numeric one is absent when no
\* applicable rule contributes.
compute(spec, geometry, applicable, properties) ==
  LET values(f) == numeric_values(spec[f], applicable, properties)
      present == {f \in DOMAIN spec :
                    f \in {"count", "coverage"} \/ values(f) # <<>>}
  IN [f \in present |->
        CASE f = "count"    -> <<Len(applicable), 1>>
          [] f = "coverage" -> coverage_ratio(geometry, applicable)
          [] OTHER          -> numeric(f, values(f))]
=============================================================================
