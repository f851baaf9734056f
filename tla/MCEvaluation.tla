---------------------------- MODULE MCEvaluation ----------------------------
(***************************************************************************)
(* Evaluation for TLC: three rules, of which the first two share a cell.   *)
(***************************************************************************)
EXTENDS Evaluation

MCFootprint == <<{1, 2}, {2, 3}, {4}>>

Whole(n)   == Value("Int", 2 * n)
Half(n)  == Value("Float", n)
Text     == Value("Str", 0)

\* Ties and a winner declared last; a key with three numbers, one that only
\* some rules have and one without a number.
MCRulesets ==
  [priority : {<<0, 0, 0>>, <<0, 1, 1>>, <<1, 0, 2>>},
   properties : {<<[a |-> Whole(1), b |-> Text], [a |-> Half(5)], [a |-> Whole(-3), b |-> Whole(2)]>>,
                 <<[b |-> Whole(2)], [a |-> Text, b |-> Whole(1)], [b |-> Half(3)]>>}]

Every(f) == [count |-> "", coverage |-> "", min |-> f, max |-> f, sum |-> f, avg |-> f]

Plain == [spatial |-> "intersects", distance |-> {}, where |-> RuleIds,
          activeAt |-> FALSE, at |-> FALSE, excluded |-> {},
          includeOverlap |-> FALSE, aggregate |-> {}]

Spatial(q, p) ==
  [q EXCEPT !.spatial = p,
            !.distance = IF p = "withinDistance" THEN {"positive"} ELSE {}]

WellFormed ==
  {Spatial(q, p) : p \in Predicates, q \in
     {Plain,
      [Plain EXCEPT !.includeOverlap = TRUE, !.aggregate = {Every("a")}],
      [Plain EXCEPT !.where = {2, 3}, !.activeAt = TRUE, !.at = TRUE,
                    !.aggregate = {[max |-> "b", avg |-> "a"]}],
      [Plain EXCEPT !.where = {1, 2}, !.excluded = {1}, !.includeOverlap = TRUE]}}

\* What only the builders can make.
Malformed ==
  {[Plain EXCEPT !.distance = {"positive"}],
   [Plain EXCEPT !.spatial = "withinDistance"],
   [Plain EXCEPT !.spatial = "withinDistance", !.distance = {"invalid"}],
   [Plain EXCEPT !.activeAt = TRUE],
   [Plain EXCEPT !.spatial = "directional", !.aggregate = {<<>>}]}

MCQueries == WellFormed \cup Malformed

Component(cells, ccw) == [cells |-> cells, ccw |-> ccw]

\* A point, polygons of either winding, and a MultiPolygon whose components are
\* wound alike.
WoundAlike ==
  {<<>>, <<Component({1, 2}, TRUE)>>, <<Component({2}, FALSE)>>,
   <<Component({1, 2, 3}, FALSE), Component({5}, FALSE)>>}

\* One component clockwise, the other not.
WoundApart ==
  {<<>>, <<Component({1, 2}, TRUE), Component({3}, FALSE)>>}
=============================================================================
