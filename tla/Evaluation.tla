----------------------------- MODULE Evaluation -----------------------------
(***************************************************************************)
(* core/src/runtime/evaluate.rs: one compiled query evaluated against a    *)
(* stream of candidates, through the four entry points (match and resolve, *)
(* each rich or as a mask).  The buffers and the memo of prepared          *)
(* geometries live longer than one candidate, so what an earlier candidate *)
(* left in them is part of the state.                                      *)
(*                                                                         *)
(* Geometry is abstracted to its verdicts: which rules each index query    *)
(* returns for a candidate, for which rules the exact predicate holds, and *)
(* which cells of the plane the candidate and the rules cover.             *)
(***************************************************************************)
EXTENDS Aggregates

CONSTANTS RuleCount,   \* rules are the positions 1..RuleCount
          Rulesets,    \* bound: the priorities and the properties of the rules
          Queries,     \* bound: the queries prepared
          Geometries,  \* bound: the geometries of candidates; <<>> is a point
          Fringed,     \* bound: the rules whose arcs leave their planar box
          Wrapped      \* bound: the rules across the antimeridian

RuleIds == 1..RuleCount

Predicates == {"intersects", "directional", "withinDistance"}

\* What the builders can make of a Query: any of the two options with any
\* predicate.  An option is a set of at most one member; "where" is the rules
\* the clause admits (all of them without a clause), activeAt says whether it
\* has a $activeAt, at whether the query has a time.
IsQuery(q) ==
  /\ q.spatial \in Predicates
  /\ q.distance \in {{}, {"positive"}, {"invalid"}}
  /\ q.where \cup q.excluded \subseteq RuleIds
  /\ {q.activeAt, q.at, q.includeOverlap} \subseteq BOOLEAN
  /\ Cardinality(q.aggregate) <= 1

ASSUME EvaluationAssumption ==
  /\ RuleCount \in Nat
  /\ DOMAIN Footprint = RuleIds
  /\ Fringed \cup Wrapped \subseteq RuleIds
  /\ \A q \in Queries : IsQuery(q)
  /\ \A s \in Rulesets : s.priority \in [RuleIds -> Nat]
  /\ \A s \in Rulesets, r \in RuleIds :
       \A f \in DOMAIN s.properties[r] : IsPropertyValue(s.properties[r][f])
  /\ \A g \in Geometries : IsGeometry(g)

VARIABLES ruleset,  \* the priority and the properties of each rule
          query,    \* the compiled query (PreparedQuery)
          slots,    \* the rules whose geometry this thread has prepared
          scratch,  \* PreparedQuery.scratch, reused by every candidate
          answer    \* the outcome of the candidate just evaluated

vars == <<ruleset, query, slots, scratch, answer>>

\* Query::from_json takes the query, written as JSON.
from_json(q) ==
  /\ q.distance # {"invalid"}
  /\ (q.spatial = "withinDistance") = (q.distance # {})
  /\ q.activeAt => q.at
  /\ \A spec \in q.aggregate : ~RequestsNothing(spec)

distance_reason(q) ==
  CASE q.spatial = "withinDistance" /\ q.distance # {"positive"}
         -> "withinDistance requires a positive distance"
    [] q.spatial # "withinDistance" /\ q.distance # {}
         -> "distance is only valid with withinDistance"
    [] OTHER -> "none"

\* Mutant: the time a temporal clause needs is not asked for.
ValidateNoTime(q) ==
  CASE distance_reason(q) # "none" -> distance_reason(q)
    [] distance_reason(q) = "none" /\ \E spec \in q.aggregate : RequestsNothing(spec)
         -> "aggregate requests nothing"
    [] OTHER -> "none"

\* Query::validate, the gate of evaluation: the first reason, in the code's order.
validate(q) ==
  CASE distance_reason(q) # "none" -> distance_reason(q)
    [] distance_reason(q) = "none" /\ q.activeAt /\ ~q.at -> "at is required"
    [] /\ distance_reason(q) = "none"
       /\ q.activeAt => q.at
       /\ \E spec \in q.aggregate : RequestsNothing(spec)
         -> "aggregate requests nothing"
    [] OTHER -> "none"

\* What one envelope query of the two indexes returns.
Boxes(fringed) == [planar : SUBSET RuleIds, fringe : SUBSET fringed]
NoBox == [planar |-> {}, fringe |-> {}]

HitsOf(boxes) == UNION {b.planar \cup b.fringe : b \in boxes}

\* The candidates a query can meet.  The planar boxes are exact for the DE-9IM
\* predicates: a rule that shares a cell with the candidate is hit, and
\* intersects it.  For withinDistance, wrapped is what the queries across the
\* antimeridian return, and together the queries never miss a rule within the
\* distance.
Overlapping(geometry) == {r \in RuleIds : CellsOf(geometry) \cap Footprint[r] # {}}

PlanarCandidates(spatial) ==
  {c \in [valid : {TRUE}, geometry : Geometries, box : Boxes({}),
          wrapped : {NoBox}, holds : SUBSET RuleIds] :
     /\ c.holds \subseteq c.box.planar
     /\ Overlapping(c.geometry) \subseteq c.box.planar
     /\ spatial = "intersects" => Overlapping(c.geometry) \subseteq c.holds}

DistanceCandidates ==
  {c \in [valid : {TRUE}, geometry : {<<>>}, box : Boxes(Fringed),
          wrapped : [planar : SUBSET Wrapped, fringe : {{}}],
          holds : SUBSET RuleIds] : c.holds \subseteq HitsOf({c.box, c.wrapped})}

UnfitCandidates(spatial) ==
  {c \in [valid : BOOLEAN, geometry : Geometries, box : {NoBox}, wrapped : {NoBox},
          holds : {{}}] : \/ ~c.valid
                          \/ spatial = "withinDistance" /\ c.geometry # <<>>}

Candidates == [spatial \in Predicates |->
  UnfitCandidates(spatial) \cup
    IF spatial = "withinDistance" THEN DistanceCandidates
                                  ELSE PlanarCandidates(spatial)]

Unanswered == [entry |-> "none"]
Invalid(reason) == [kind |-> "invalid", reason |-> reason]
NotMatched == [kind |-> "notMatched"]
Mask(n) == [kind |-> "mask", value |-> n]

Init ==
  /\ ruleset \in Rulesets
  /\ query \in Queries
  /\ slots = {}
  /\ scratch = <<>>
  /\ answer = Unanswered

-----------------------------------------------------------------------------
Declared == Less(RuleIds)
Ascending(ids) == InOrder(ids, Declared)

\* SpatialIndex::query_envelope_into: cleared, filled, sorted, deduplicated.
QueryEnvelope(hits) == Ascending(hits)

\* admitted_by_properties, as scratch.retain applies it.
Retained(ids) == Retain(ids, query.where \ query.excluded)

\* Mutant: the merged hits are sorted but not deduplicated.
SortedOnly(hits) == SortSeq(hits, <)
SortedDedup(hits) == Ascending(ToSet(hits))

\* Mutant: the arcs outside a rule's planar box are not looked up.
ExtendPlanarHits(hits, box) == hits \o QueryEnvelope(box.planar)

\* extend_distance_hits appends the hits of one envelope.
ExtendDistanceHits(hits, box) ==
  hits \o QueryEnvelope(box.planar) \o QueryEnvelope(box.fringe)

DistanceHits(c) ==
  ExtendDistanceHits(ExtendDistanceHits(<<>>, c.box), c.wrapped)

\* What scratch holds once a valid candidate has been filtered.
Touched(c) ==
  IF query.spatial = "withinDistance"
    THEN Retained(SortedDedup(DistanceHits(c)))
    ELSE Retained(QueryEnvelope(c.box.planar))

\* PreparedMemo::ensure.
Ensure(ids) == slots \cup ToSet(ids)

\* for_each_admitted, admit_within_distance and admit_by_predicate: the exact
\* check over scratch, in its order.  Only the directional predicates relate
\* against prepared geometries.
Admit(c) ==
  /\ scratch' = Touched(c)
  /\ slots' = IF query.spatial = "directional" THEN Ensure(scratch') ELSE slots

Admitted(c) == Retain(scratch', c.holds)

\* "touched rules are prepared"
Panics == query.spatial = "directional" /\ ~(ToSet(scratch') \subseteq slots')

\* The first reason found, on every entry point: the query, the candidate's own
\* classification, the candidate type withinDistance does not support.
InvalidReason(c) ==
  CASE validate(query) # "none" -> validate(query)
    [] validate(query) = "none" /\ ~c.valid -> "candidate"
    [] /\ validate(query) = "none" /\ c.valid
       /\ query.spatial = "withinDistance" /\ c.geometry # <<>>
         -> "withinDistance requires a point candidate"
    [] OTHER -> "none"

\* An entry point: an invalid candidate touches neither buffer nor memo.
\* onValid reads the filtered buffer.
Entry(c, entry, onInvalid, onValid) ==
  /\ IF InvalidReason(c) # "none"
       THEN /\ answer' = [entry |-> entry, of |-> c, outcome |-> onInvalid]
            /\ UNCHANGED <<slots, scratch>>
       ELSE /\ Admit(c)
            /\ answer' = [entry |-> entry, of |-> c,
                          outcome |-> IF Panics THEN [kind |-> "panic"] ELSE onValid]
  /\ UNCHANGED <<ruleset, query>>

\* One overlap per matched rule, in the order of the ids; the distance path has
\* none.
Overlaps(c, ids) ==
  LET area == AreaOf(c.geometry) IN
  IF query.includeOverlap /\ query.spatial # "withinDistance"
    THEN {[i \in DOMAIN ids |-> overlap_metric(c.geometry, ids[i], area)]}
    ELSE {}

Aggregate(c, ids) ==
  {compute(spec, c.geometry, ids, ruleset.properties) : spec \in query.aggregate}

MatchOutcome(c, ids) ==
  IF ids = <<>> THEN NotMatched
  ELSE [kind |-> "matched", ruleIds |-> ids, overlaps |-> Overlaps(c, ids),
        aggregate |-> Aggregate(c, ids)]

Evaluate(c) ==
  Entry(c, "match", Invalid(InvalidReason(c)), MatchOutcome(c, Admitted(c)))

MaskOutcome(ids) == Mask(IF ids = <<>> THEN 0 ELSE 1)

\* Mutant: the mask of intersects scans rules the query does not admit.
MaskHitsUnretained(c) == QueryEnvelope(c.box.planar)

\* evaluate_mask_intersects has a filter of its own.
MaskHits(c) == Retained(QueryEnvelope(c.box.planar))

\* The mask of intersects: a scan of the hits up to the first that intersects,
\* with nothing prepared and no list of those that do.
EvaluateMaskIntersects(c) ==
  /\ IF ~c.valid
       THEN /\ answer' = [entry |-> "matchMask", of |-> c, outcome |-> Mask(2)]
            /\ UNCHANGED <<slots, scratch>>
       ELSE /\ scratch' = MaskHits(c)
            /\ answer' = [entry |-> "matchMask", of |-> c, outcome |->
                 Mask(IF \E i \in DOMAIN scratch' : scratch'[i] \in c.holds THEN 1 ELSE 0)]
            /\ UNCHANGED slots
  /\ UNCHANGED <<ruleset, query>>

\* The masks of the other predicates, and of malformed queries.
EvaluateMaskGeneral(c) == Entry(c, "matchMask", Mask(2), MaskOutcome(Admitted(c)))

EvaluateMask(c) ==
  IF validate(query) = "none" /\ query.spatial = "intersects"
    THEN EvaluateMaskIntersects(c) ELSE EvaluateMaskGeneral(c)

-----------------------------------------------------------------------------
\* Mutant: ties go to the rule declared last.
PrecedesLast(a, b) ==
  \/ ruleset.priority[a] > ruleset.priority[b]
  \/ ruleset.priority[a] = ruleset.priority[b] /\ a > b

\* Priority descending, ties by declaration order.
Precedes(a, b) ==
  \/ ruleset.priority[a] > ruleset.priority[b]
  \/ ruleset.priority[a] = ruleset.priority[b] /\ a < b

\* Mutant: a later provider overwrites an earlier one.
ProvideLast(values, r) == ruleset.properties[r] @@ values

\* values.entry(key).or_insert(value), over the properties of one rule.
Provide(values, r) ==
  LET properties == ruleset.properties[r] IN
  [k \in DOMAIN values \cup DOMAIN properties |->
     IF k \in DOMAIN values THEN values[k] ELSE properties[k]]

ResolveOutcome(c, ids) ==
  LET applicable == SortBy(ids, {p \in RuleIds \X RuleIds : Precedes(p[1], p[2])}) IN
  IF ids = <<>> THEN NotMatched
  ELSE [kind |-> "resolved", applicable |-> applicable,
        winner |-> Head(applicable),
        values |-> FoldLeft(Provide, <<>>, applicable),
        aggregate |-> Aggregate(c, applicable)]

EvaluateResolve(c) ==
  Entry(c, "resolve", Invalid(InvalidReason(c)), ResolveOutcome(c, Admitted(c)))

EvaluateResolveMask(c) ==
  Entry(c, "resolveMask", Mask(2), MaskOutcome(Admitted(c)))

-----------------------------------------------------------------------------
\* The outcome joins the batch's results; the next candidate can be evaluated.
Collect ==
  /\ answer # Unanswered
  /\ answer' = Unanswered
  /\ UNCHANGED <<ruleset, query, slots, scratch>>

\* Ruleset::prepare: another query of the same thread on the same ruleset has
\* buffers of its own and shares the memo.
Prepare(q) ==
  /\ answer = Unanswered
  /\ query' = q
  /\ scratch' = <<>>
  /\ UNCHANGED <<ruleset, slots, answer>>

EvaluateOne(c) ==
  \/ Evaluate(c)
  \/ EvaluateMask(c)
  \/ EvaluateResolve(c)
  \/ EvaluateResolveMask(c)

Next ==
  \/ answer = Unanswered /\ \E c \in Candidates[query.spatial] : EvaluateOne(c)
  \/ Collect
  \/ \E q \in Queries : Prepare(q)

Spec == Init /\ [][Next]_vars

-----------------------------------------------------------------------------
Entries == {"match", "matchMask", "resolve", "resolveMask"}

StrictlyAscending(s) ==
  /\ s \in Seq(RuleIds)
  /\ \A i, j \in 1..Len(s) : i < j => s[i] < s[j]

TypeOK ==
  /\ ruleset \in Rulesets
  /\ query \in Queries
  /\ slots \subseteq RuleIds
  /\ StrictlyAscending(scratch)
  /\ answer.entry \in Entries \cup {"none"}

\* What the query asks of a candidate, with no pipeline in between.
Applicable(c) == {r \in c.holds : r \notin query.excluded /\ r \in query.where}

\* The queries that JSON could not have made, the candidates the intake refused
\* and the polygons withinDistance does not measure.
Rejected(c) ==
  \/ ~from_json(query) \/ ~c.valid
  \/ query.spatial = "withinDistance" /\ c.geometry # <<>>

\* The rich match lists exactly the applicable rules, each once and in
\* declaration order, whatever the candidates evaluated before left in the
\* buffer and in the memo, and however the distance hits overlap.  A query is
\* reported invalid exactly if Query::from_json would have refused it.
MatchesAreExact ==
  LET c == answer.of  o == answer.outcome IN
  answer.entry = "match" =>
    CASE Rejected(c)                        -> o.kind = "invalid"
      [] ~Rejected(c) /\ Applicable(c) = {} -> o.kind = "notMatched"
      [] OTHER -> /\ o.kind = "matched"
                  /\ StrictlyAscending(o.ruleIds)
                  /\ ToSet(o.ruleIds) = Applicable(c)

\* A mask tells the class the rich outcome of the same candidate would have:
\* 2 exactly for the candidates reported invalid, 1 exactly for those with an
\* applicable rule ("byte-identical to the full-matrix path").
MasksTellTheOutcome ==
  LET c == answer.of IN
  answer.entry \in {"matchMask", "resolveMask"} =>
    answer.outcome =
      Mask(CASE Rejected(c)                        -> 2
             [] ~Rejected(c) /\ Applicable(c) # {} -> 1
             [] OTHER                              -> 0)

Outranks(a, b) ==
  \/ ruleset.priority[a] > ruleset.priority[b]
  \/ ruleset.priority[a] = ruleset.priority[b] /\ a < b

\* A resolution explains itself with every applicable rule, and its winner
\* beats each of them: a higher priority, or the same and declared earlier.
WinnerHasPrecedence ==
  LET c == answer.of  o == answer.outcome IN
  answer.entry = "resolve" /\ ~Rejected(c) /\ Applicable(c) # {} =>
    /\ o.kind = "resolved"
    /\ ToSet(o.applicable) = Applicable(c)
    /\ Len(o.applicable) = Cardinality(Applicable(c))
    /\ o.winner \in Applicable(c)
    /\ \A r \in Applicable(c) \ {o.winner} : Outranks(o.winner, r)

\* Every key of an applicable rule gets a value, from the provider of highest
\* precedence: no applicable rule with that key outranks it.
FirstProviderWins ==
  LET c == answer.of  o == answer.outcome
      providers(k) == {r \in Applicable(c) : k \in DOMAIN ruleset.properties[r]}
  IN answer.entry = "resolve" /\ o.kind = "resolved" =>
       /\ DOMAIN o.values = UNION {DOMAIN ruleset.properties[r] : r \in Applicable(c)}
       /\ \A k \in DOMAIN o.values : \E first \in providers(k) :
            /\ o.values[k] = ruleset.properties[first][k]
            /\ \A r \in providers(k) \ {first} : Outranks(first, r)

\* The applicable rules with a number for a field, and those numbers.
Contributors(c, f) ==
  {r \in Applicable(c) : /\ f \in DOMAIN ruleset.properties[r]
                         /\ Numeric(ruleset.properties[r][f])}
Number(r, f) == ruleset.properties[r][f].value
Total(c, f)  == SumFunction([r \in Contributors(c, f) |-> Number(r, f)])

Describes(c, spec, result) ==
  /\ DOMAIN result =
       {f \in DOMAIN spec : f \in {"count", "coverage"} \/ Contributors(c, spec[f]) # {}}
  /\ "count" \in DOMAIN result => result["count"][1] = Cardinality(Applicable(c))
  /\ \A f \in DOMAIN result \cap {"min", "max"} :
       /\ \E r \in Contributors(c, spec[f]) : Number(r, spec[f]) = result[f][1]
       /\ \A r \in Contributors(c, spec[f]) :
            IF f = "min" THEN Number(r, spec[f]) >= result[f][1]
                         ELSE Number(r, spec[f]) <= result[f][1]
  /\ "sum" \in DOMAIN result => result["sum"][1] = Total(c, spec["sum"])
  /\ "avg" \in DOMAIN result =>
       result["avg"][1] * Cardinality(Contributors(c, spec["avg"]))
         = Total(c, spec["avg"]) * result["avg"][2]

\* The analytics of a match and of a resolution describe the rules that apply
\* to the candidate, whichever order they were folded in: the least and the
\* greatest number bound every contributor and are one's own, the average
\* balances them, and a field no applicable rule has a number for is absent.
AggregatesDescribeApplicable ==
  LET o == answer.outcome IN
  answer.entry \in {"match", "resolve"} /\ o.kind \in {"matched", "resolved"} =>
    \A spec \in query.aggregate :
      \E result \in o.aggregate : Describes(answer.of, spec, result)

\* A ratio is that of the cells of a geometry that are among some cells.
IsShare(ratio, geometry, cells) ==
  LET size == Cardinality(CellsOf(geometry)) IN
  ratio[1] * (IF size = 0 THEN 1 ELSE size)
    = Cardinality(CellsOf(geometry) \cap cells) * ratio[2]

\* A ratio is the share of the candidate's area: between 0 and 1 however the
\* candidate is wound, and 1 for a rule that covers the candidate.  The coverage
\* of several rules counts what they share once: at least each overlap, at most
\* their sum, and never more than the candidate.
SharesAreOfTheCandidate ==
  LET c == answer.of  o == answer.outcome
  IN /\ answer.entry = "match" /\ o.kind = "matched" =>
          \A metrics \in o.overlaps : \A i \in DOMAIN o.ruleIds :
            IsShare(metrics[i].ratio, c.geometry, Footprint[o.ruleIds[i]])
     /\ answer.entry \in {"match", "resolve"} /\ o.kind \in {"matched", "resolved"} =>
          \A result \in o.aggregate :
            "coverage" \in DOMAIN result =>
              IsShare(result["coverage"], c.geometry,
                      UNION {Footprint[r] : r \in Applicable(c)})

\* An overlap ratio is "in [0, 1]" (OverlapMetric), for any winding of the
\* candidate ("robust to exterior-ring winding").
RatiosAreAtMostOne ==
  LET o == answer.outcome IN
  answer.entry = "match" /\ o.kind = "matched" =>
    \A metrics \in o.overlaps : \A i \in DOMAIN o.ruleIds :
      metrics[i].ratio[1] \in 0..metrics[i].ratio[2]
=============================================================================
