-------------------------- MODULE EvaluationProofs --------------------------
(***************************************************************************)
(* What Evaluation promises of masks, matches, winners, values and         *)
(* numbers, for any number of rules, any query and any candidate an index  *)
(* can answer: the pipeline of buffers ends with exactly the applicable    *)
(* rules, folding their properties in order of precedence gives every key  *)
(* to the first rule that has it, and folding their numbers describes all  *)
(* of them.                                                                *)
(***************************************************************************)
EXTENDS Evaluation, OrderLemmas

LEMMA RuleIdsAreFinite == RuleCount \in Nat /\ IsFiniteSet(RuleIds) /\ RuleIds \subseteq Int
BY EvaluationAssumption, FS_Interval DEF RuleIds

\* A set of rules in the order of their ids.
LEMMA AscendingSorts ==
  ASSUME NEW ids \in SUBSET RuleIds
  PROVE  StrictlyAscending(Ascending(ids)) /\ ToSet(Ascending(ids)) = ids
<1> DEFINE s == Ascending(ids)
<1>1. IsFiniteSet(ids) /\ ids \subseteq Int
  BY RuleIdsAreFinite, FS_Subset
<1>2. StrictOrder(ids, Declared)
  BY RuleIdsAreFinite DEF StrictOrder, Declared, Less
<1>3. SortedSequence(s, ids, Declared)
  BY <1>1, <1>2, InOrderSorts DEF Ascending
<1> HIDE DEF s
<1>4. s \in Seq(ids) /\ Len(s) = Cardinality(ids) /\ DOMAIN s = 1..Cardinality(ids)
      /\ Cardinality(ids) \in Nat
  BY <1>1, <1>3, SortedIsSequence
<1>5. /\ \A i \in 1..Cardinality(ids) : s[i] \in ids
      /\ \A x \in ids : \E i \in 1..Cardinality(ids) : s[i] = x
      /\ \A i, j \in 1..Cardinality(ids) : <<s[i], s[j]>> \in Declared <=> i < j
  BY <1>3 DEF SortedSequence
<1>6. s \in Seq(RuleIds)
  BY <1>4
<1>7. \A i, j \in 1..Len(s) : i < j => s[i] < s[j]
  BY <1>4, <1>5 DEF Declared, Less
<1>8. {s[i] : i \in DOMAIN s} = ids
  BY <1>4, <1>5
<1>9. QED  BY <1>6, <1>7, <1>8 DEF StrictlyAscending, ToSet, s

\* Retaining rules leaves the others in their order.
LEMMA RetainingAscends ==
  ASSUME NEW s, StrictlyAscending(s), NEW keep
  PROVE  StrictlyAscending(Retain(s, keep)) /\ ToSet(Retain(s, keep)) = ToSet(s) \cap keep
<1> DEFINE u == Retain(s, keep)
<1>1. s \in Seq(RuleIds) /\ \A i, j \in DOMAIN s : i < j => s[i] < s[j]
  BY DEF StrictlyAscending
<1> HIDE DEF u
<1>2. /\ u \in Seq(RuleIds)
      /\ \A x : (\E i \in DOMAIN u : u[i] = x) <=> x \in keep /\ (\E i \in DOMAIN s : s[i] = x)
      /\ \E f \in [DOMAIN u -> DOMAIN s] :
           /\ \A i \in DOMAIN u : u[i] = s[f[i]]
           /\ \A i, j \in DOMAIN u : i < j => f[i] < f[j]
  <2>1. s \in Seq(RuleIds)
    BY <1>1
  <2>2. \E v \in Seq(RuleIds) :
          /\ v = Retain(s, keep)
          /\ \A x : (\E i \in DOMAIN v : v[i] = x)
                     <=> x \in keep /\ (\E i \in DOMAIN s : s[i] = x)
          /\ \E f \in [DOMAIN v -> DOMAIN s] :
               /\ \A i \in DOMAIN v : v[i] = s[f[i]]
               /\ \A i, j \in DOMAIN v : i < j => f[i] < f[j]
    BY <2>1, RetainKeeps
  <2>3. u = Retain(s, keep)
    BY DEF u
  <2>4. QED  BY <2>2, <2>3
<1>3. PICK f \in [DOMAIN u -> DOMAIN s] :
        /\ \A i \in DOMAIN u : u[i] = s[f[i]]
        /\ \A i, j \in DOMAIN u : i < j => f[i] < f[j]
  BY <1>2, Zenon
<1>4. \A i, j \in DOMAIN u : i < j => u[i] < u[j]
  BY <1>1, <1>3
<1>5. DOMAIN u = 1..Len(u)
  BY <1>2
<1>6. ToSet(u) = ToSet(s) \cap keep
  BY <1>2 DEF ToSet
<1>7. QED  BY <1>2, <1>4, <1>5, <1>6 DEF StrictlyAscending, u

\* The elements of two sequences, one after the other.
LEMMA ConcatenationHasBoth ==
  ASSUME NEW T, NEW s \in Seq(T), NEW t \in Seq(T)
  PROVE  s \o t \in Seq(T) /\ ToSet(s \o t) = ToSet(s) \cup ToSet(t)
<1>1. s \o t \in Seq(T) /\ Len(s \o t) = Len(s) + Len(t)
      /\ Len(s) \in Nat /\ Len(t) \in Nat
      /\ DOMAIN s = 1..Len(s) /\ DOMAIN t = 1..Len(t) /\ DOMAIN (s \o t) = 1..(Len(s) + Len(t))
  OBVIOUS
<1>2. \A i \in 1..Len(s) : (s \o t)[i] = s[i]
  OBVIOUS
<1>3. \A i \in 1..Len(t) : Len(s) + i \in 1..(Len(s) + Len(t)) /\ (s \o t)[Len(s) + i] = t[i]
  BY <1>1
<1>4. \A i \in 1..(Len(s) + Len(t)) :
        \/ i \in 1..Len(s) /\ (s \o t)[i] = s[i]
        \/ i - Len(s) \in 1..Len(t) /\ (s \o t)[i] = t[i - Len(s)]
  BY <1>1
<1>5. \A i \in 1..Len(s) : i \in 1..(Len(s) + Len(t))
  BY <1>1
<1> DEFINE u == s \o t
<1> HIDE DEF u
<1>6. {u[i] : i \in 1..(Len(s) + Len(t))}
        = {s[i] : i \in 1..Len(s)} \cup {t[i] : i \in 1..Len(t)}
  <2>1. ASSUME NEW i \in 1..(Len(s) + Len(t))
        PROVE  u[i] \in {s[k] : k \in 1..Len(s)} \cup {t[k] : k \in 1..Len(t)}
    BY <1>4 DEF u
  <2>2. ASSUME NEW i \in 1..Len(s)  PROVE s[i] \in {u[k] : k \in 1..(Len(s) + Len(t))}
    BY <1>2, <1>5 DEF u
  <2>3. ASSUME NEW i \in 1..Len(t)  PROVE t[i] \in {u[k] : k \in 1..(Len(s) + Len(t))}
    BY <1>3 DEF u
  <2>4. QED  BY <2>1, <2>2, <2>3
<1>7. QED  BY <1>1, <1>6 DEF ToSet, u

-----------------------------------------------------------------------------
\* What a candidate of a query is, and where the rules it holds for are hit.
IsCandidate(c, spatial) ==
  /\ c.valid \in BOOLEAN /\ c.holds \subseteq RuleIds /\ c.geometry \in Geometries \cup {<<>>}
  /\ c.box.planar \cup c.box.fringe \cup c.wrapped.planar \cup c.wrapped.fringe \subseteq RuleIds
  /\ c.valid /\ ~(spatial = "withinDistance" /\ c.geometry # <<>>) =>
       IF spatial = "withinDistance"
         THEN c.holds \subseteq c.box.planar \cup c.box.fringe \cup c.wrapped.planar
                                              \cup c.wrapped.fringe
         ELSE c.holds \subseteq c.box.planar

LEMMA CandidatesAre ==
  ASSUME NEW spatial \in Predicates, NEW c \in Candidates[spatial]
  PROVE  IsCandidate(c, spatial)
<1>1. Fringed \subseteq RuleIds /\ Wrapped \subseteq RuleIds
  BY EvaluationAssumption
<1>2. CASE c \in UnfitCandidates(spatial)
  <2>1. c.valid \in BOOLEAN /\ c.box = NoBox /\ c.wrapped = NoBox /\ c.holds = {}
        /\ c.geometry \in Geometries
    BY <1>2, Zenon DEF UnfitCandidates
  <2>2. QED  BY <2>1 DEF IsCandidate, NoBox
<1>3. CASE spatial = "withinDistance" /\ c \in DistanceCandidates
  <2>1. /\ c.valid \in {TRUE} /\ c.box \in Boxes(Fringed) /\ c.holds \in SUBSET RuleIds
        /\ c.wrapped \in [planar : SUBSET Wrapped, fringe : {{}}]
        /\ c.holds \subseteq HitsOf({c.box, c.wrapped}) /\ c.geometry \in {<<>>}
    BY <1>3, Zenon DEF DistanceCandidates
  <2>2. c.box.planar \in SUBSET RuleIds /\ c.box.fringe \in SUBSET Fringed
    BY <2>1, Zenon DEF Boxes
  <2>3. c.wrapped.planar \in SUBSET Wrapped /\ c.wrapped.fringe = {}
    BY <2>1, Zenon
  <2>4. HitsOf({c.box, c.wrapped})
          = (c.box.planar \cup c.box.fringe) \cup (c.wrapped.planar \cup c.wrapped.fringe)
    BY DEF HitsOf
  <2>5. QED  BY <1>1, <1>3, <2>1, <2>2, <2>3, <2>4 DEF IsCandidate
<1>4. CASE spatial # "withinDistance" /\ c \in PlanarCandidates(spatial)
  <2>1. /\ c.valid \in {TRUE} /\ c.box \in Boxes({}) /\ c.holds \in SUBSET RuleIds
        /\ c.wrapped = NoBox /\ c.holds \subseteq c.box.planar /\ c.geometry \in Geometries
    BY <1>4, Zenon DEF PlanarCandidates
  <2>2. c.box.planar \in SUBSET RuleIds /\ c.box.fringe \in SUBSET {}
    BY <2>1, Zenon DEF Boxes
  <2>3. c.wrapped.planar = {} /\ c.wrapped.fringe = {}
    BY <2>1 DEF NoBox
  <2>4. QED  BY <1>4, <2>1, <2>2, <2>3 DEF IsCandidate
<1>5. c \in UnfitCandidates(spatial)
           \cup IF spatial = "withinDistance" THEN DistanceCandidates ELSE PlanarCandidates(spatial)
  BY DEF Candidates
<1>6. QED  BY <1>2, <1>3, <1>4, <1>5

\* The reasons evaluation gives are those a query in JSON is refused for.
LEMMA InvalidIsRejected ==
  ASSUME query \in Queries, NEW c, c.valid \in BOOLEAN
  PROVE  InvalidReason(c) # "none" <=> Rejected(c)
<1>1. query.distance \in {{}, {"positive"}, {"invalid"}}
  BY EvaluationAssumption DEF IsQuery
<1>2. distance_reason(query) = "none"
        <=> /\ query.distance # {"invalid"}
            /\ (query.spatial = "withinDistance") = (query.distance # {})
  BY <1>1 DEF distance_reason
<1>3. validate(query) = "none" <=> from_json(query)
  <2>1. validate(query) = "none"
          <=> /\ distance_reason(query) = "none" /\ (query.activeAt => query.at)
              /\ ~(\E spec \in query.aggregate : RequestsNothing(spec))
    BY DEF validate
  <2>2. QED  BY <1>2, <2>1 DEF from_json
<1>4. InvalidReason(c) = "none"
        <=> /\ validate(query) = "none" /\ c.valid
            /\ ~(query.spatial = "withinDistance" /\ c.geometry # <<>>)
  BY DEF InvalidReason
<1>5. QED  BY <1>3, <1>4 DEF Rejected

\* The hits of a distance query are those of its envelopes, in whatever order
\* and however often.
LEMMA DistanceHitsAre ==
  ASSUME NEW c, IsCandidate(c, "withinDistance")
  PROVE  ToSet(DistanceHits(c))
           = c.box.planar \cup c.box.fringe \cup c.wrapped.planar \cup c.wrapped.fringe
<1> DEFINE a == Ascending(c.box.planar)
           b == Ascending(c.box.fringe)
           d == Ascending(c.wrapped.planar)
           e == Ascending(c.wrapped.fringe)
<1>1. c.box.planar \in SUBSET RuleIds /\ c.box.fringe \in SUBSET RuleIds
      /\ c.wrapped.planar \in SUBSET RuleIds /\ c.wrapped.fringe \in SUBSET RuleIds
  BY DEF IsCandidate
<1>2. /\ a \in Seq(RuleIds) /\ ToSet(a) = c.box.planar
      /\ b \in Seq(RuleIds) /\ ToSet(b) = c.box.fringe
      /\ d \in Seq(RuleIds) /\ ToSet(d) = c.wrapped.planar
      /\ e \in Seq(RuleIds) /\ ToSet(e) = c.wrapped.fringe
  BY <1>1, AscendingSorts DEF StrictlyAscending
<1>3. DistanceHits(c) = (((<<>> \o a) \o b) \o d) \o e
  BY DEF DistanceHits, ExtendDistanceHits, QueryEnvelope
<1> HIDE DEF a, b, d, e
<1>4. <<>> \in Seq(RuleIds) /\ ToSet(<<>>) = {}
  BY DEF ToSet
<1>5. <<>> \o a \in Seq(RuleIds) /\ ToSet(<<>> \o a) = c.box.planar
  BY <1>2, <1>4, ConcatenationHasBoth
<1>6. (<<>> \o a) \o b \in Seq(RuleIds)
      /\ ToSet((<<>> \o a) \o b) = c.box.planar \cup c.box.fringe
  BY <1>2, <1>5, ConcatenationHasBoth
<1> DEFINE box == (<<>> \o a) \o b
<1> HIDE DEF box
<1>7. box \o d \in Seq(RuleIds) /\ ToSet(box \o d) = ToSet(box) \cup c.wrapped.planar
  <2>1. box \in Seq(RuleIds)
    BY <1>6 DEF box
  <2>2. QED  BY <1>2, <2>1, ConcatenationHasBoth
<1> DEFINE most == box \o d
<1> HIDE DEF most
<1>8. ToSet(most \o e) = ToSet(most) \cup c.wrapped.fringe
  <2>1. most \in Seq(RuleIds)
    BY <1>7 DEF most
  <2>2. QED  BY <1>2, <2>1, ConcatenationHasBoth
<1>9. QED  BY <1>3, <1>6, <1>7, <1>8 DEF most, box

\* The filtered buffer, and what the exact check leaves of it.
LEMMA PipelineIsExact ==
  ASSUME query \in Queries, NEW c, IsCandidate(c, query.spatial), ~Rejected(c)
  PROVE  /\ StrictlyAscending(Touched(c)) /\ ToSet(Touched(c)) \subseteq RuleIds
         /\ StrictlyAscending(Retain(Touched(c), c.holds))
         /\ ToSet(Retain(Touched(c), c.holds)) = Applicable(c)
<1> DEFINE keep == query.where \ query.excluded
<1>1. c.valid /\ ~(query.spatial = "withinDistance" /\ c.geometry # <<>>)
  BY DEF Rejected
<1>2. c.holds \subseteq RuleIds
  BY DEF IsCandidate
<1>3. Applicable(c) = c.holds \cap keep
  BY DEF Applicable
<1>4. \E hits \in SUBSET RuleIds :
        c.holds \subseteq hits /\ Touched(c) = Retain(Ascending(hits), keep)
  <2>1. CASE query.spatial = "withinDistance"
    <3> DEFINE hits == ToSet(DistanceHits(c))
    <3>1. hits = c.box.planar \cup c.box.fringe \cup c.wrapped.planar \cup c.wrapped.fringe
      BY <2>1, DistanceHitsAre
    <3>2. Touched(c) = Retain(Ascending(hits), keep)
      BY <2>1 DEF Touched, Retained, SortedDedup
    <3> HIDE DEF hits
    <3>3. hits \in SUBSET RuleIds /\ c.holds \subseteq hits
      BY <1>1, <2>1, <3>1 DEF IsCandidate
    <3>4. QED  BY <3>2, <3>3
  <2>2. CASE query.spatial # "withinDistance"
    <3>1. Touched(c) = Retain(Ascending(c.box.planar), keep)
      BY <2>2 DEF Touched, Retained, QueryEnvelope
    <3>2. c.box.planar \in SUBSET RuleIds /\ c.holds \subseteq c.box.planar
      BY <1>1, <2>2 DEF IsCandidate
    <3>3. QED  BY <3>1, <3>2
  <2>3. QED  BY <2>1, <2>2
<1>5. PICK hits \in SUBSET RuleIds :
        c.holds \subseteq hits /\ Touched(c) = Retain(Ascending(hits), keep)
  BY <1>4
<1> HIDE DEF keep
<1>6. StrictlyAscending(Ascending(hits)) /\ ToSet(Ascending(hits)) = hits
  BY AscendingSorts
<1>7. StrictlyAscending(Touched(c)) /\ ToSet(Touched(c)) = hits \cap keep
  BY <1>5, <1>6, RetainingAscends
<1>8. StrictlyAscending(Retain(Touched(c), c.holds))
      /\ ToSet(Retain(Touched(c), c.holds)) = (hits \cap keep) \cap c.holds
  BY <1>7, RetainingAscends
<1>9. (hits \cap keep) \cap c.holds = Applicable(c)
  BY <1>3, <1>5
<1>10. QED  BY <1>7, <1>8, <1>9

\* An ascending sequence has as many rules as it has places.
LEMMA AscendingCounts ==
  ASSUME NEW ids, StrictlyAscending(ids)
  PROVE  /\ Enumerates(ids, Len(ids), ToSet(ids))
         /\ IsFiniteSet(ToSet(ids)) /\ Cardinality(ToSet(ids)) = Len(ids)
         /\ ids = <<>> <=> ToSet(ids) = {}
<1>1. ids \in Seq(RuleIds) /\ \A i, j \in 1..Len(ids) : i < j => ids[i] < ids[j]
  BY DEF StrictlyAscending
<1>2. Len(ids) \in Nat /\ DOMAIN ids = 1..Len(ids) /\ \A i \in 1..Len(ids) : ids[i] \in RuleIds
  BY <1>1
<1>3. \A i, j \in 1..Len(ids) : ids[i] = ids[j] => i = j
  <2> SUFFICES ASSUME NEW i \in 1..Len(ids), NEW j \in 1..Len(ids), ids[i] = ids[j]
               PROVE  i = j
    OBVIOUS
  <2>1. ids[i] \in Int /\ ids[j] \in Int
    BY <1>2, RuleIdsAreFinite
  <2>2. ~(i < j) /\ ~(j < i)
    BY <1>1, <2>1
  <2>3. QED  BY <1>2, <2>2
<1>4. Enumerates(ids, Len(ids), ToSet(ids))
  <2>1. ids \in [1..Len(ids) -> ToSet(ids)] /\ \A x \in ToSet(ids) : \E i \in 1..Len(ids) : ids[i] = x
    BY <1>1, <1>2 DEF ToSet
  <2>2. QED  BY <1>3, <2>1 DEF Enumerates
<1>5. IsFiniteSet(ToSet(ids)) /\ Cardinality(ToSet(ids)) = Len(ids)
  BY <1>2, <1>4, EnumerationCounts
<1>6. ids = <<>> <=> ToSet(ids) = {}
  <2>1. ids = <<>> => ToSet(ids) = {}
    BY DEF ToSet
  <2>2. ASSUME ToSet(ids) = {}  PROVE ids = <<>>
    <3>1. Len(ids) = 0
      BY <1>5, <2>2, FS_EmptySet
    <3>2. QED  BY <1>1, <3>1
  <2>3. QED  BY <2>1, <2>2
<1>7. QED  BY <1>4, <1>5, <1>6

-----------------------------------------------------------------------------
\* The order of a resolution: Precedes, as the set of its pairs.
Precedence == {p \in RuleIds \X RuleIds : Precedes(p[1], p[2])}

LEMMA PrecedenceIsStrict ==
  ASSUME ruleset \in Rulesets
  PROVE  StrictOrder(RuleIds, Precedence)
<1>1. \A r \in RuleIds : ruleset.priority[r] \in Int /\ r \in Int
  BY EvaluationAssumption, RuleIdsAreFinite
<1>2. \A a, b \in RuleIds : <<a, b>> \in Precedence <=> Precedes(a, b)
  BY DEF Precedence
<1>3. \A a \in RuleIds : ~Precedes(a, a)
  BY <1>1 DEF Precedes
<1>4. \A a, b, d \in RuleIds : Precedes(a, b) /\ Precedes(b, d) => Precedes(a, d)
  BY <1>1 DEF Precedes
<1>5. \A a, b \in RuleIds : a = b \/ Precedes(a, b) \/ Precedes(b, a)
  BY <1>1 DEF Precedes
<1>6. QED  BY <1>2, <1>3, <1>4, <1>5 DEF StrictOrder

\* The applicable rules of a resolution: all of them, those of higher precedence
\* before the others.
LEMMA ResolutionIsOrdered ==
  ASSUME ruleset \in Rulesets, NEW ids, StrictlyAscending(ids)
  PROVE  \E u \in Seq(RuleIds) :
           /\ u = SortBy(ids, Precedence) /\ Len(u) = Len(ids) /\ ToSet(u) = ToSet(ids)
           /\ \A i, j \in DOMAIN u : i < j => u[i] = u[j] \/ Precedes(u[i], u[j])
<1>1. ids \in Seq(RuleIds) /\ StrictOrder(RuleIds, Precedence)
  BY PrecedenceIsStrict DEF StrictlyAscending
<1>2. \E u \in Seq(RuleIds) :
        /\ u = SortBy(ids, Precedence) /\ Len(u) = Len(ids)
        /\ \A x : (\E i \in DOMAIN u : u[i] = x) <=> (\E i \in DOMAIN ids : ids[i] = x)
        /\ \A i, j \in DOMAIN u : i < j => u[i] = u[j] \/ <<u[i], u[j]>> \in Precedence
  BY <1>1, SortBySorts
<1>3. PICK u \in Seq(RuleIds) :
        /\ u = SortBy(ids, Precedence) /\ Len(u) = Len(ids)
        /\ \A x : (\E i \in DOMAIN u : u[i] = x) <=> (\E i \in DOMAIN ids : ids[i] = x)
        /\ \A i, j \in DOMAIN u : i < j => u[i] = u[j] \/ <<u[i], u[j]>> \in Precedence
  BY <1>2
<1>4. ToSet(u) = ToSet(ids)
  BY <1>3 DEF ToSet
<1>5. \A i, j \in DOMAIN u : i < j => u[i] = u[j] \/ Precedes(u[i], u[j])
  BY <1>3 DEF Precedence
<1>6. QED  BY <1>3, <1>4, <1>5, Zenon

-----------------------------------------------------------------------------
\* Whether the rule at a place has a key, the first place of a set that has it,
\* and the values that the rules at a set of places provide.
Has(s, i, k) == k \in DOMAIN ruleset.properties[s[i]]
FirstOf(s, k, i, places) ==
  i \in places /\ Has(s, i, k) /\ \A j \in places : Has(s, j, k) => i <= j
Provided(s, places) ==
  [k \in UNION {DOMAIN ruleset.properties[s[i]] : i \in places} |->
     ruleset.properties[s[CHOOSE i \in places : FirstOf(s, k, i, places)]][k]]

LEMMA FirstExists ==
  ASSUME NEW s, NEW n \in Nat, NEW places \in SUBSET (1..n), NEW k,
         NEW i \in places, Has(s, i, k)
  PROVE  \E f \in places : FirstOf(s, k, f, places)
<1> DEFINE S == {j \in places : Has(s, j, k)}
<1>1. S \in SUBSET Int /\ S # {} /\ \A j \in S : 1 <= j
  <2>1. S \subseteq 1..n
    OBVIOUS
  <2>2. i \in S
    OBVIOUS
  <2> HIDE DEF S
  <2>3. QED  BY <2>1, <2>2
<1>2. \E m \in S : \A j \in S : m <= j
  <2> HIDE DEF S
  <2>1. 1 \in Int
    OBVIOUS
  <2>2. QED  BY <1>1, <2>1, LeastExists, Zenon
<1>3. QED  BY <1>2 DEF FirstOf

LEMMA ProvidedIs ==
  ASSUME NEW s, NEW places \in SUBSET Int, NEW k, NEW f, FirstOf(s, k, f, places)
  PROVE  k \in DOMAIN Provided(s, places) /\ Provided(s, places)[k] = ruleset.properties[s[f]][k]
<1>1. f \in places /\ Has(s, f, k)
  BY DEF FirstOf
<1>2. \A g \in places : FirstOf(s, k, g, places) => g = f
  <2> SUFFICES ASSUME NEW g \in places, FirstOf(s, k, g, places)  PROVE g = f
    OBVIOUS
  <2>1. g <= f /\ f <= g /\ f \in Int /\ g \in Int
    BY <1>1 DEF FirstOf
  <2>2. QED  BY <2>1
<1>3. (CHOOSE g \in places : FirstOf(s, k, g, places)) = f
  BY <1>1, <1>2
<1>4. k \in UNION {DOMAIN ruleset.properties[s[i]] : i \in places}
  BY <1>1 DEF Has
<1>5. QED  BY <1>3, <1>4 DEF Provided

\* One step of the fold: the rule at the last of some places adds its keys.
LEMMA ProvideAdds ==
  ASSUME NEW s, NEW n \in Nat, NEW places \in SUBSET (1..n), NEW m \in places,
         \A j \in places : j <= m
  PROVE  Provide(Provided(s, places \ {m}), s[m]) = Provided(s, places)
<1> DEFINE less == places \ {m}
           keys(x) == UNION {DOMAIN ruleset.properties[s[i]] : i \in x}
           props == ruleset.properties[s[m]]
<1>1. DOMAIN Provided(s, places) = keys(places) /\ DOMAIN Provided(s, less) = keys(less)
  BY DEF Provided
<1>2. keys(places) = keys(less) \cup DOMAIN props
  OBVIOUS
<1>3. Provide(Provided(s, less), s[m])
        = [k \in keys(less) \cup DOMAIN props |->
             IF k \in keys(less) THEN Provided(s, less)[k] ELSE props[k]]
  BY <1>1 DEF Provide
<1>4. less \in SUBSET (1..n) /\ m \notin less /\ m \in Int
      /\ less \in SUBSET Int /\ places \in SUBSET Int
  OBVIOUS
<1>5. \A k \in keys(less) : Provided(s, less)[k] = Provided(s, places)[k]
  <2> SUFFICES ASSUME NEW k \in keys(less)  PROVE Provided(s, less)[k] = Provided(s, places)[k]
    OBVIOUS
  <2>1. PICK i \in less : Has(s, i, k)
    BY DEF Has
  <2> HIDE DEF less, keys, props
  <2>2. PICK f \in less : FirstOf(s, k, f, less)
    BY <1>4, <2>1, FirstExists
  <2>3. Provided(s, less)[k] = ruleset.properties[s[f]][k]
    BY <1>4, <2>2, ProvidedIs
  <2>4. FirstOf(s, k, f, places)
    BY <2>2 DEF FirstOf, less
  <2>5. Provided(s, places)[k] = ruleset.properties[s[f]][k]
    BY <1>4, <2>4, ProvidedIs
  <2>6. QED  BY <2>3, <2>5
<1>6. \A k \in DOMAIN props : k \notin keys(less) => props[k] = Provided(s, places)[k]
  <2> SUFFICES ASSUME NEW k \in DOMAIN props, k \notin keys(less)
               PROVE  props[k] = Provided(s, places)[k]
    OBVIOUS
  <2>1. \A i \in less : ~Has(s, i, k)
    BY DEF Has
  <2>2. FirstOf(s, k, m, places)
    BY <1>4, <2>1 DEF FirstOf, Has
  <2>3. QED  BY <1>4, <2>2, ProvidedIs
<1>7. Provided(s, places) = [k \in keys(places) |-> Provided(s, places)[k]]
  BY DEF Provided
<1> HIDE DEF keys, less, props
<1>8. [k \in keys(less) \cup DOMAIN props |->
         IF k \in keys(less) THEN Provided(s, less)[k] ELSE props[k]]
        = [k \in keys(less) \cup DOMAIN props |-> Provided(s, places)[k]]
  BY <1>5, <1>6
<1>9. QED  BY <1>2, <1>3, <1>7, <1>8 DEF less

\* Folding Provide over a sequence gives every key of its rules the value of the
\* first rule that has it: the recursive function of the fold has a solution, and
\* by induction on the places folded it is what they provide.
LEMMA FoldProvides ==
  ASSUME NEW s, NEW n \in Nat, DOMAIN s = 1..n
  PROVE  FoldLeft(Provide, <<>>, s) = Provided(s, 1..n)
<1> DEFINE D == SUBSET (1..n)
           step(g, x) == IF x = {} THEN <<>> ELSE Provide(g[x \ {Max(x)}], s[Max(x)])
           eqn(g) == g = [x \in D |-> step(g, x)]
           f == [x \in D |-> Provided(s, x)]
           iter == CHOOSE g : eqn(g)
<1>1. Provided(s, {}) = <<>>
  <2>1. UNION {DOMAIN ruleset.properties[s[i]] : i \in {}} = {}
    OBVIOUS
  <2>2. Provided(s, {}) = [k \in {} |-> Provided(s, {})[k]]
    BY <2>1 DEF Provided
  <2>3. <<>> = [k \in {} |-> <<>>[k]]
    OBVIOUS
  <2>4. QED  BY <2>2, <2>3
<1>2. \A x \in D : x # {} => Max(x) \in x /\ \A j \in x : j <= Max(x)
  <2> SUFFICES ASSUME NEW x \in D, x # {}  PROVE Max(x) \in x /\ \A j \in x : j <= Max(x)
    OBVIOUS
  <2>1. x \in SUBSET Int /\ n \in Int /\ \A j \in x : j <= n
    OBVIOUS
  <2>2. \E m \in x : \A j \in x : j <= m
    BY <2>1, GreatestExists
  <2>3. \E m \in x : \A j \in x : m >= j
    BY <2>1, <2>2
  <2>4. Max(x) \in x /\ \A j \in x : Max(x) >= j
    BY <2>3 DEF Max
  <2>5. QED  BY <2>1, <2>4
<1>3. \A x \in D : f[x] = step(f, x)
  <2> SUFFICES ASSUME NEW x \in D  PROVE f[x] = step(f, x)
    OBVIOUS
  <2>1. CASE x = {}
    BY <1>1, <2>1
  <2>2. CASE x # {}
    <3> DEFINE m == Max(x)
    <3>1. m \in x /\ \A j \in x : j <= m
      BY <1>2, <2>2
    <3>2. x \ {m} \in D
      OBVIOUS
    <3> HIDE DEF m
    <3>3. Provide(Provided(s, x \ {m}), s[m]) = Provided(s, x)
      BY <3>1, ProvideAdds
    <3>4. f[x] = Provided(s, x) /\ f[x \ {m}] = Provided(s, x \ {m})
      BY <3>2
    <3>5. step(f, x) = Provide(f[x \ {m}], s[m])
      BY <2>2 DEF m
    <3> HIDE DEF f, step
    <3>6. QED  BY <3>3, <3>4, <3>5
  <2>3. QED  BY <2>1, <2>2
<1>4. eqn(f)
  <2> HIDE DEF step
  <2>1. QED  BY <1>3
<1>5. eqn(iter)
  <2> HIDE DEF eqn
  <2>1. QED  BY <1>4, Zenon
<1> HIDE DEF iter
<1>6. \A x \in D : iter[x] = step(iter, x)
  <2> HIDE DEF step
  <2>1. QED  BY <1>5
<1> DEFINE T == {k \in Nat : k <= n => iter[1..k] = Provided(s, 1..k)}
<1>7. 0 \in T
  <2>1. 1..0 = {} /\ {} \in D
    OBVIOUS
  <2>2. iter[{}] = <<>>
    BY <1>6, <2>1
  <2>3. QED  BY <1>1, <2>1, <2>2
<1>8. ASSUME NEW k \in Nat, k \in T  PROVE k + 1 \in T
  <2> SUFFICES ASSUME k + 1 <= n  PROVE iter[1..(k + 1)] = Provided(s, 1..(k + 1))
    OBVIOUS
  <2> DEFINE x == 1..(k + 1)
             m == Max(x)
  <2>1. x \in D /\ k + 1 \in x /\ x \in SUBSET (1..n)
    OBVIOUS
  <2>2. x # {}
    BY <2>1
  <2>3. m = k + 1
    <3>1. m \in x /\ \A j \in x : j <= m
      BY <1>2, <2>1, <2>2
    <3>2. k + 1 <= m /\ m <= k + 1 /\ m \in Int
      BY <2>1, <3>1
    <3>3. QED  BY <3>2
  <2>4. x \ {m} = 1..k
    BY <2>3
  <2>5. iter[1..k] = Provided(s, 1..k)
    BY <1>8
  <2>6. iter[x] = Provide(iter[x \ {m}], s[m])
    BY <1>6, <2>1, <2>2
  <2>7. m \in x /\ \A j \in x : j <= m
    BY <1>2, <2>1, <2>2
  <2> HIDE DEF m, x
  <2>8. Provide(Provided(s, x \ {m}), s[m]) = Provided(s, x)
    BY <2>1, <2>7, ProvideAdds
  <2>9. iter[x] = Provided(s, x)
    BY <2>4, <2>5, <2>6, <2>8
  <2>10. QED  BY <2>9 DEF x
<1>9. \A k \in Nat : k \in T
  <2> HIDE DEF T
  <2>1. QED  BY <1>7, <1>8, NatSetInduction
<1>10. iter[1..n] = Provided(s, 1..n)
  BY <1>9
<1>11. FoldLeft(Provide, <<>>, s) = iter[DOMAIN s]
  BY Zenon DEF FoldLeft, MapThenFoldSet, iter
<1>12. QED  BY <1>10, <1>11

-----------------------------------------------------------------------------
\* What the exact check leaves, whichever way the buffer was filled: no rule is
\* related before it is prepared.
LEMMA AdmitIs ==
  ASSUME TypeOK, NEW c, IsCandidate(c, query.spatial), ~Rejected(c), Admit(c)
  PROVE  /\ StrictlyAscending(scratch') /\ slots' \subseteq RuleIds /\ ~Panics
         /\ StrictlyAscending(Admitted(c)) /\ ToSet(Admitted(c)) = Applicable(c)
<1>1. scratch' = Touched(c) /\ query \in Queries /\ slots \subseteq RuleIds
  BY DEF Admit, TypeOK
<1>2. /\ StrictlyAscending(Touched(c)) /\ ToSet(Touched(c)) \subseteq RuleIds
      /\ StrictlyAscending(Retain(Touched(c), c.holds))
      /\ ToSet(Retain(Touched(c), c.holds)) = Applicable(c)
  BY <1>1, PipelineIsExact
<1>3. slots' = IF query.spatial = "directional" THEN slots \cup ToSet(scratch') ELSE slots
  BY DEF Admit, Ensure
<1>4. slots' \subseteq RuleIds /\ ~Panics
  BY <1>1, <1>2, <1>3 DEF Panics
<1>5. Admitted(c) = Retain(Touched(c), c.holds)
  BY <1>1 DEF Admitted
<1>6. QED  BY <1>1, <1>2, <1>4, <1>5

\* The mask of intersects filters as the other entries do, and its scan finds a
\* rule exactly if there is one to list.
LEMMA EarlyExitMasks ==
  ASSUME TypeOK, NEW c, IsCandidate(c, query.spatial), query.spatial = "intersects",
         ~Rejected(c), EvaluateMaskIntersects(c)
  PROVE  /\ Admit(c)
         /\ answer'.of = c /\ answer'.entry = "matchMask"
         /\ answer'.outcome = MaskOutcome(Admitted(c))
<1> DEFINE found == \E i \in DOMAIN scratch' : scratch'[i] \in c.holds
<1>1. c.valid
  BY DEF Rejected
<1>2. /\ scratch' = Retained(QueryEnvelope(c.box.planar)) /\ slots' = slots
      /\ answer' = [entry |-> "matchMask", of |-> c, outcome |-> Mask(IF found THEN 1 ELSE 0)]
  BY <1>1 DEF EvaluateMaskIntersects, MaskHits
<1>3. Admit(c)
  BY <1>2 DEF Admit, Touched
<1>4. /\ StrictlyAscending(scratch')
      /\ StrictlyAscending(Admitted(c)) /\ ToSet(Admitted(c)) = Applicable(c)
  BY <1>3, AdmitIs
<1>5. ToSet(Admitted(c)) = ToSet(scratch') \cap c.holds
  BY <1>4, RetainingAscends DEF Admitted
<1>6. found <=> ToSet(scratch') \cap c.holds # {}
  BY DEF ToSet
<1>7. found <=> Admitted(c) # <<>>
  BY <1>4, <1>5, <1>6, AscendingCounts
<1> HIDE DEF found
<1>8. answer'.outcome = MaskOutcome(Admitted(c))
  BY <1>2, <1>7 DEF MaskOutcome
<1>9. QED  BY <1>2, <1>3, <1>8

\* An entry point answers for its candidate from the applicable rules alone.
Answers(c, ids) ==
  \/ /\ answer'.entry = "match"
     /\ answer'.outcome = IF Rejected(c) THEN Invalid(InvalidReason(c)) ELSE MatchOutcome(c, ids)
  \/ /\ answer'.entry \in {"matchMask", "resolveMask"}
     /\ answer'.outcome = IF Rejected(c) THEN Mask(2) ELSE MaskOutcome(ids)
  \/ /\ answer'.entry = "resolve"
     /\ answer'.outcome = IF Rejected(c) THEN Invalid(InvalidReason(c))
                          ELSE ResolveOutcome(c, ids)

LEMMA EntriesAnswer ==
  ASSUME TypeOK, NEW c \in Candidates[query.spatial], EvaluateOne(c)
  PROVE  /\ UNCHANGED <<ruleset, query>> /\ TypeOK' /\ answer'.of = c
         /\ \E ids : /\ StrictlyAscending(ids) /\ ToSet(ids) = Applicable(c)
                     /\ Answers(c, ids)
<1>1. query \in Queries /\ query.spatial \in Predicates
  BY EvaluationAssumption DEF TypeOK, IsQuery
<1>2. IsCandidate(c, query.spatial)
  BY <1>1, CandidatesAre
<1>3. InvalidReason(c) # "none" <=> Rejected(c)
  BY <1>1, <1>2, InvalidIsRejected DEF IsCandidate
<1>4. UNCHANGED <<ruleset, query>>
  BY DEF EvaluateOne, Evaluate, EvaluateMask, EvaluateMaskIntersects, EvaluateMaskGeneral,
         EvaluateResolve, EvaluateResolveMask, Entry
<1>5. CASE Rejected(c)
  <2> DEFINE ids == Ascending(Applicable(c))
  <2>1. StrictlyAscending(ids) /\ ToSet(ids) = Applicable(c)
    <3>1. Applicable(c) \in SUBSET RuleIds
      BY <1>2 DEF Applicable, IsCandidate
    <3>2. QED  BY <3>1, AscendingSorts
  <2> HIDE DEF ids
  <2>2. UNCHANGED <<slots, scratch>> /\ answer'.of = c /\ Answers(c, ids)
        /\ answer'.entry \in Entries
    <3>1. CASE EvaluateMask(c)
      <4>1. validate(query) = "none" /\ query.spatial = "intersects" => ~c.valid
        BY <1>3, <1>5 DEF InvalidReason
      <4>2. CASE validate(query) = "none" /\ query.spatial = "intersects"
        BY <1>5, <3>1, <4>1, <4>2 DEF EvaluateMask, EvaluateMaskIntersects, Answers, Entries
      <4>3. CASE ~(validate(query) = "none" /\ query.spatial = "intersects")
        BY <1>3, <1>5, <3>1, <4>3 DEF EvaluateMask, EvaluateMaskGeneral, Entry, Answers, Entries
      <4>4. QED  BY <4>2, <4>3
    <3>2. CASE Evaluate(c) \/ EvaluateResolve(c) \/ EvaluateResolveMask(c)
      BY <1>3, <1>5, <3>2 DEF Evaluate, EvaluateResolve, EvaluateResolveMask, Entry, Answers,
                              Entries
    <3>3. QED  BY <3>1, <3>2 DEF EvaluateOne
  <2>3. TypeOK'
    BY <1>4, <2>2 DEF TypeOK, StrictlyAscending
  <2>4. QED  BY <1>4, <2>1, <2>2, <2>3
<1>6. CASE ~Rejected(c)
  <2> DEFINE early == validate(query) = "none" /\ query.spatial = "intersects"
  <2>1. Admit(c)
    <3>1. CASE EvaluateMask(c) /\ early
      BY <1>2, <1>6, <3>1, EarlyExitMasks DEF EvaluateMask
    <3>2. CASE EvaluateMask(c) /\ ~early
      BY <1>3, <1>6, <3>2 DEF EvaluateMask, EvaluateMaskGeneral, Entry
    <3>3. CASE Evaluate(c) \/ EvaluateResolve(c) \/ EvaluateResolveMask(c)
      BY <1>3, <1>6, <3>3 DEF Evaluate, EvaluateResolve, EvaluateResolveMask, Entry
    <3>4. QED  BY <3>1, <3>2, <3>3 DEF EvaluateOne
  <2>2. /\ StrictlyAscending(scratch') /\ slots' \subseteq RuleIds /\ ~Panics
        /\ StrictlyAscending(Admitted(c)) /\ ToSet(Admitted(c)) = Applicable(c)
    BY <1>2, <1>6, <2>1, AdmitIs
  <2>3. answer'.of = c /\ Answers(c, Admitted(c)) /\ answer'.entry \in Entries
    <3>1. CASE Evaluate(c)
      BY <1>3, <1>6, <2>2, <3>1 DEF Evaluate, Entry, Answers, Entries
    <3>2. CASE EvaluateMask(c)
      <4>1. CASE early
        BY <1>2, <1>6, <3>2, <4>1, EarlyExitMasks DEF EvaluateMask, Answers, Entries
      <4>2. CASE ~early
        BY <1>3, <1>6, <2>2, <3>2, <4>2
        DEF EvaluateMask, EvaluateMaskGeneral, Entry, Answers, Entries
      <4>3. QED  BY <4>1, <4>2
    <3>3. CASE EvaluateResolve(c)
      BY <1>3, <1>6, <2>2, <3>3 DEF EvaluateResolve, Entry, Answers, Entries
    <3>4. CASE EvaluateResolveMask(c)
      BY <1>3, <1>6, <2>2, <3>4 DEF EvaluateResolveMask, Entry, Answers, Entries
    <3>5. QED  BY <3>1, <3>2, <3>3, <3>4 DEF EvaluateOne
  <2>4. TypeOK'
    BY <1>4, <2>2, <2>3 DEF TypeOK, StrictlyAscending
  <2>5. QED  BY <1>4, <2>2, <2>3, <2>4
<1>7. QED  BY <1>5, <1>6

-----------------------------------------------------------------------------
\* A resolution, in terms of the rules that apply.
Explains(o, rules) ==
  /\ o.kind = "resolved"
  /\ ToSet(o.applicable) = rules /\ Len(o.applicable) = Cardinality(rules)
  /\ o.winner \in rules /\ \A r \in rules \ {o.winner} : Outranks(o.winner, r)
  /\ DOMAIN o.values = UNION {DOMAIN ruleset.properties[r] : r \in rules}
  /\ \A k \in DOMAIN o.values : \E first \in rules :
       /\ k \in DOMAIN ruleset.properties[first]
       /\ o.values[k] = ruleset.properties[first][k]
       /\ \A r \in rules \ {first} :
            k \in DOMAIN ruleset.properties[r] => Outranks(first, r)

LEMMA ResolutionExplains ==
  ASSUME ruleset \in Rulesets, NEW c, NEW ids, StrictlyAscending(ids)
  PROVE  IF ids = <<>> THEN ResolveOutcome(c, ids) = NotMatched
         ELSE Explains(ResolveOutcome(c, ids), ToSet(ids))
<1> DEFINE o == ResolveOutcome(c, ids)
           rules == ToSet(ids)
<1>1. CASE ids = <<>>
  BY <1>1 DEF ResolveOutcome
<1>2. CASE ids # <<>>
  <2>1. PICK u \in Seq(RuleIds) :
          /\ u = SortBy(ids, Precedence) /\ Len(u) = Len(ids) /\ ToSet(u) = ToSet(ids)
          /\ \A i, j \in DOMAIN u : i < j => u[i] = u[j] \/ Precedes(u[i], u[j])
    BY ResolutionIsOrdered
  <2>2. IsFiniteSet(rules) /\ Cardinality(rules) = Len(ids) /\ rules # {}
    BY <1>2, AscendingCounts
  <2>3. Len(u) \in Nat /\ DOMAIN u = 1..Len(u)
    BY <2>1
  <2>4. rules = {u[i] : i \in 1..Len(u)}
    BY <2>1, <2>3 DEF ToSet
  <2>5. 1 \in 1..Len(u)
    BY <2>2, <2>3, <2>4
  <2>6. o = [kind |-> "resolved", applicable |-> u, winner |-> Head(u),
             values |-> FoldLeft(Provide, <<>>, u), aggregate |-> Aggregate(c, u)]
    BY <1>2, <2>1 DEF ResolveOutcome, Precedence
  <2> HIDE DEF o, rules
  <2>7. Head(u) = u[1]
    BY <2>1, <2>5
  <2>8. FoldLeft(Provide, <<>>, u) = Provided(u, 1..Len(u))
    BY <2>3, FoldProvides
  <2>9. o.kind = "resolved" /\ o.applicable = u /\ o.winner = u[1]
        /\ o.values = Provided(u, 1..Len(u))
    BY <2>6, <2>7, <2>8
  <2>10. ToSet(o.applicable) = rules /\ Len(o.applicable) = Cardinality(rules)
    BY <2>1, <2>2, <2>9 DEF rules
  <2>11. \A i, j \in 1..Len(u) : i < j /\ u[i] # u[j] => Outranks(u[i], u[j])
    BY <2>1, <2>3 DEF Precedes, Outranks
  <2>12. o.winner \in rules /\ \A r \in rules \ {o.winner} : Outranks(o.winner, r)
    <3>1. \A j \in 1..Len(u) : u[j] # u[1] => 1 < j
      BY <2>3
    <3>2. QED  BY <2>4, <2>5, <2>9, <2>11, <3>1
  <2>13. DOMAIN o.values = UNION {DOMAIN ruleset.properties[r] : r \in rules}
    <3>1. DOMAIN o.values = UNION {DOMAIN ruleset.properties[u[i]] : i \in 1..Len(u)}
      BY <2>9 DEF Provided
    <3>2. QED  BY <2>4, <3>1
  <2>14. ASSUME NEW k \in DOMAIN o.values
         PROVE  \E first \in rules :
                  /\ k \in DOMAIN ruleset.properties[first]
                  /\ o.values[k] = ruleset.properties[first][k]
                  /\ \A r \in rules \ {first} :
                       k \in DOMAIN ruleset.properties[r] => Outranks(first, r)
    <3> DEFINE places == 1..Len(u)
    <3>1. \E i \in places : Has(u, i, k)
      BY <2>9, <2>14 DEF Provided, Has
    <3>2. places \in SUBSET (1..Len(u)) /\ places \in SUBSET Int
      BY <2>3
    <3> HIDE DEF places
    <3>3. PICK f \in places : FirstOf(u, k, f, places)
      BY <2>3, <3>1, <3>2, FirstExists
    <3>4. o.values[k] = ruleset.properties[u[f]][k]
      <4>1. Provided(u, places)[k] = ruleset.properties[u[f]][k]
        BY <3>2, <3>3, ProvidedIs
      <4>2. QED  BY <2>9, <4>1 DEF places
    <3>5. k \in DOMAIN ruleset.properties[u[f]] /\ u[f] \in rules
      BY <2>4, <3>3 DEF FirstOf, Has, places
    <3>6. \A j \in places : Has(u, j, k) /\ u[j] # u[f] => Outranks(u[f], u[j])
      <4> SUFFICES ASSUME NEW j \in places, Has(u, j, k), u[j] # u[f]
                   PROVE  Outranks(u[f], u[j])
        OBVIOUS
      <4>1. f <= j /\ f \in Int /\ j \in Int /\ f # j
        BY <3>2, <3>3 DEF FirstOf
      <4>2. f < j
        BY <4>1
      <4>3. QED  BY <2>11, <4>2 DEF places
    <3>7. \A r \in rules \ {u[f]} : k \in DOMAIN ruleset.properties[r] => Outranks(u[f], r)
      BY <2>4, <3>6 DEF Has, places
    <3>8. QED  BY <3>4, <3>5, <3>7
  <2>15. Explains(o, rules)
    BY <2>9, <2>10, <2>12, <2>13, <2>14 DEF Explains
  <2>16. QED  BY <1>2, <2>15 DEF o, rules
<1>3. QED  BY <1>1, <1>2

-----------------------------------------------------------------------------
\* The last of a set of places.
LEMMA GreatestPlace ==
  ASSUME NEW n \in Nat, NEW x \in SUBSET (1..n), x # {}
  PROVE  Max(x) \in x /\ \A j \in x : j <= Max(x)
<1>1. x \in SUBSET Int /\ n \in Int /\ \A j \in x : j <= n
  OBVIOUS
<1>2. \E m \in x : \A j \in x : j <= m
  BY <1>1, GreatestExists
<1>3. \E m \in x : \A j \in x : m >= j
  BY <1>1, <1>2
<1>4. Max(x) \in x /\ \A j \in x : Max(x) >= j
  BY <1>3 DEF Max
<1>5. QED  BY <1>1, <1>4

LEMMA LastPlace ==
  ASSUME NEW k \in Nat
  PROVE  1..(k + 1) # {} /\ Max(1..(k + 1)) = k + 1 /\ (1..(k + 1)) \ {k + 1} = 1..k
<1> DEFINE x == 1..(k + 1)
<1>1. k + 1 \in x /\ x \in SUBSET (1..(k + 1)) /\ k + 1 \in Nat
  OBVIOUS
<1>2. x # {}
  BY <1>1
<1>3. Max(x) \in x /\ \A j \in x : j <= Max(x)
  <2> HIDE DEF x
  <2>1. QED  BY <1>1, <1>2, GreatestPlace
<1>4. k + 1 <= Max(x) /\ Max(x) <= k + 1 /\ Max(x) \in Int
  BY <1>1, <1>3
<1>5. Max(x) = k + 1
  BY <1>4
<1>6. x \ {k + 1} = 1..k
  OBVIOUS
<1>7. QED  BY <1>2, <1>5, <1>6

\* The sum and the number of a sequence of numbers.
LEMMA SumCounts ==
  ASSUME NEW n \in Nat, NEW v \in [1..n -> Int]
  PROVE  numeric_sum_count(v) = [sum |-> Weight(v, 1..n), count |-> n]
<1> DEFINE V == [sum : Int, count : Int]
           D == SUBSET (1..n)
           base == [sum |-> 0, count |-> 0]
           add(acc, x) == [sum |-> acc.sum + x, count |-> acc.count + 1]
           st == [p \in V \X (1..n) |-> add(p[1], v[p[2]])]
           step(g, x) == IF x = {} THEN base ELSE add(g[x \ {Max(x)}], v[Max(x)])
           eqn(g) == g = [x \in D |-> step(g, x)]
           iter == CHOOSE g : eqn(g)
<1>1. base \in V /\ st \in [V \X (1..n) -> V]
  OBVIOUS
<1>2. \E g : eqn(g)
  <2>1. PICK g : Folds(g, V, base, st, n)
    <3> HIDE DEF V, base, st
    <3>1. QED  BY <1>1, FoldExists
  <2>2. /\ g \in [D -> V] /\ g[{}] = base
        /\ \A x \in D : x # {} => /\ Max(x) \in 1..n /\ x \ {Max(x)} \in D
                                  /\ g[x] = st[<<g[x \ {Max(x)}], Max(x)>>]
    <3> HIDE DEF V, base, st
    <3>1. g \in [D -> V] /\ g[{}] = base
      BY <2>1 DEF Folds
    <3>2. ASSUME NEW x \in D, x # {}
          PROVE  /\ Max(x) \in 1..n /\ x \ {Max(x)} \in D
                 /\ g[x] = st[<<g[x \ {Max(x)}], Max(x)>>]
      <4>1. Max(x) \in x /\ \A j \in x : j <= Max(x)
        BY <3>2, GreatestPlace
      <4>2. QED  BY <2>1, <4>1 DEF Folds
    <3>3. QED  BY <3>1, <3>2
  <2>3. ASSUME NEW x \in D  PROVE g[x] = step(g, x)
    <3>1. CASE x = {}
      BY <2>2, <3>1
    <3>2. CASE x # {}
      <4>1. g[x \ {Max(x)}] \in V /\ Max(x) \in 1..n
        BY <2>2, <3>2
      <4>2. st[<<g[x \ {Max(x)}], Max(x)>>] = add(g[x \ {Max(x)}], v[Max(x)])
        BY <4>1
      <4> HIDE DEF st, add
      <4>3. QED  BY <2>2, <3>2, <4>2
    <3>3. QED  BY <3>1, <3>2
  <2> HIDE DEF step
  <2>4. eqn(g)
    BY <2>2, <2>3
  <2>5. QED  BY <2>4
<1>3. eqn(iter)
  <2> HIDE DEF eqn
  <2>1. QED  BY <1>2, Zenon
<1> HIDE DEF iter
<1>4. \A x \in D : iter[x] = step(iter, x)
  <2> HIDE DEF step
  <2>1. QED  BY <1>3
<1> DEFINE T == {k \in Nat : k <= n => iter[1..k] = [sum |-> Weight(v, 1..k), count |-> k]}
<1>5. 0 \in T
  <2>1. 1..0 = {} /\ {} \in D
    OBVIOUS
  <2>2. iter[{}] = base
    BY <1>4, <2>1
  <2>3. QED  BY <2>1, <2>2, WeightOfNone
<1>6. ASSUME NEW k \in Nat, k \in T  PROVE k + 1 \in T
  <2> SUFFICES ASSUME k + 1 <= n
               PROVE  iter[1..(k + 1)] = [sum |-> Weight(v, 1..(k + 1)), count |-> k + 1]
    OBVIOUS
  <2>1. 1..(k + 1) \in D /\ IsFiniteSet(1..(k + 1)) /\ k + 1 \in 1..(k + 1)
    BY FS_Interval
  <2>2. iter[1..(k + 1)] = add(iter[1..k], v[k + 1])
    <3>1. /\ 1..(k + 1) # {} /\ Max(1..(k + 1)) = k + 1
          /\ (1..(k + 1)) \ {Max(1..(k + 1))} = 1..k
      BY LastPlace
    <3>2. iter[1..(k + 1)] = step(iter, 1..(k + 1))
      BY <1>4, <2>1
    <3> HIDE DEF add, base
    <3>3. QED  BY <3>1, <3>2, Zenon
  <2>3. iter[1..k] = [sum |-> Weight(v, 1..k), count |-> k]
    BY <1>6
  <2>4. Weight(v, 1..(k + 1)) = Weight(v, 1..k) + v[k + 1]
    <3>1. \A r \in 1..(k + 1) : v[r] \in Int
      OBVIOUS
    <3>2. Weight(v, 1..(k + 1)) = Weight(v, (1..(k + 1)) \ {k + 1}) + v[k + 1]
      BY <2>1, <3>1, WeightAdds
    <3>3. QED  BY <3>2, LastPlace
  <2>5. QED  BY <2>2, <2>3, <2>4
<1>7. iter[1..n] = [sum |-> Weight(v, 1..n), count |-> n]
  <2>1. \A k \in Nat : k \in T
    <3> HIDE DEF T
    <3>1. QED  BY <1>5, <1>6, NatSetInduction
  <2>2. QED  BY <2>1
<1>8. numeric_sum_count(v) = iter[DOMAIN v]
  BY Zenon DEF numeric_sum_count, FoldLeft, MapThenFoldSet, iter
<1>9. DOMAIN v = 1..n
  OBVIOUS
<1>10. QED  BY <1>7, <1>8, <1>9

\* The sum of a function, which goes through its domain in no order that matters.
LEMMA SumFunctionIs ==
  ASSUME NEW S, IsFiniteSet(S), NEW w \in [S -> Int]
  PROVE  SumFunction(w) = Weight(w, S)
<1> DEFINE any(s) == CHOOSE x \in s : TRUE
           step(g, s) == IF s = {} THEN 0 ELSE w[any(s)] + g[s \ {any(s)}]
           eqn(g) == g = [s \in SUBSET S |-> step(g, s)]
           h == [s \in SUBSET S |-> Weight(w, s)]
           iter == CHOOSE g : eqn(g)
<1>1. ASSUME NEW s \in SUBSET S, s # {}
      PROVE  /\ any(s) \in s /\ s \ {any(s)} \in SUBSET S
             /\ Weight(w, s) = w[any(s)] + Weight(w, s \ {any(s)})
  <2>1. any(s) \in s
    BY <1>1
  <2>2. IsFiniteSet(s) /\ \A r \in s : w[r] \in Int
    BY FS_Subset
  <2> HIDE DEF any
  <2>3. /\ Weight(w, s \ {any(s)}) \in Int
        /\ Weight(w, s) = Weight(w, s \ {any(s)}) + w[any(s)]
    BY <2>1, <2>2, WeightAdds
  <2>4. QED  BY <2>1, <2>2, <2>3
<1>2. eqn(h)
  <2>1. ASSUME NEW s \in SUBSET S  PROVE h[s] = step(h, s)
    <3>1. CASE s = {}
      BY <3>1, WeightOfNone
    <3>2. CASE s # {}
      <4>1. s \ {any(s)} \in SUBSET S /\ Weight(w, s) = w[any(s)] + Weight(w, s \ {any(s)})
        BY <1>1, <3>2
      <4> HIDE DEF any
      <4>2. QED  BY <3>2, <4>1
    <3>3. QED  BY <3>1, <3>2
  <2> HIDE DEF step
  <2>2. QED  BY <2>1
<1>3. eqn(iter)
  <2> HIDE DEF eqn
  <2>1. QED  BY <1>2, Zenon
<1> HIDE DEF iter, any
<1>4. \A s \in SUBSET S : iter[s] = step(iter, s)
  <2> HIDE DEF step
  <2>1. QED  BY <1>3
<1> DEFINE T == {k \in Nat : \A s \in SUBSET S : Cardinality(s) = k => iter[s] = Weight(w, s)}
<1>5. \A s \in SUBSET S : IsFiniteSet(s)
  BY FS_Subset
<1>6. 0 \in T
  <2>1. \A s \in SUBSET S : Cardinality(s) = 0 => s = {}
    BY <1>5, FS_EmptySet
  <2>2. iter[{}] = 0
    BY <1>4
  <2>3. QED  BY <2>1, <2>2, WeightOfNone
<1>7. ASSUME NEW k \in Nat, k \in T  PROVE k + 1 \in T
  <2> SUFFICES ASSUME NEW s \in SUBSET S, Cardinality(s) = k + 1  PROVE iter[s] = Weight(w, s)
    OBVIOUS
  <2>1. s # {}
    BY FS_EmptySet
  <2>2. /\ any(s) \in s /\ s \ {any(s)} \in SUBSET S
        /\ Weight(w, s) = w[any(s)] + Weight(w, s \ {any(s)})
    BY <1>1, <2>1
  <2>3. Cardinality(s \ {any(s)}) = k
    <3>1. Cardinality(s \ {any(s)}) = Cardinality(s) - 1
      BY <1>5, <2>2, FS_RemoveElement
    <3>2. QED  BY <3>1
  <2>4. iter[s \ {any(s)}] = Weight(w, s \ {any(s)})
    BY <1>7, <2>2, <2>3
  <2>5. iter[s] = w[any(s)] + iter[s \ {any(s)}]
    BY <1>4, <2>1
  <2>6. QED  BY <2>2, <2>4, <2>5
<1>8. iter[S] = Weight(w, S)
  <2>1. \A k \in Nat : k \in T
    <3> HIDE DEF T
    <3>1. QED  BY <1>6, <1>7, NatSetInduction
  <2>2. Cardinality(S) \in Nat /\ S \in SUBSET S
    BY <1>5, FS_CardinalityType
  <2>3. QED  BY <2>1, <2>2
<1>9. SumFunction(w) = iter[S]
  <2>1. DOMAIN w = S
    OBVIOUS
  <2>2. QED
    BY <2>1, Zenon DEF SumFunction, SumFunctionOnSet, FoldFunctionOnSet, MapThenFoldSet, iter, any
<1>10. QED  BY <1>8, <1>9

-----------------------------------------------------------------------------
\* The applicable rules in some order, each once.
Lists(ids, c) == ids \in Seq(RuleIds) /\ Enumerates(ids, Len(ids), Applicable(c))

LEMMA ListsAre ==
  ASSUME NEW ids, NEW c, Lists(ids, c)
  PROVE  /\ Len(ids) \in Nat /\ DOMAIN ids = 1..Len(ids) /\ ToSet(ids) = Applicable(c)
         /\ IsFiniteSet(Applicable(c)) /\ Cardinality(Applicable(c)) = Len(ids)
         /\ Applicable(c) \subseteq RuleIds
<1>1. Len(ids) \in Nat /\ DOMAIN ids = 1..Len(ids) /\ \A i \in 1..Len(ids) : ids[i] \in RuleIds
  BY DEF Lists
<1>2. IsFiniteSet(Applicable(c)) /\ Cardinality(Applicable(c)) = Len(ids)
  BY <1>1, EnumerationCounts DEF Lists
<1>3. ToSet(ids) = Applicable(c)
  BY <1>1 DEF Lists, Enumerates, ToSet
<1>4. Applicable(c) \subseteq RuleIds
  BY <1>1 DEF Lists, Enumerates
<1>5. QED  BY <1>1, <1>2, <1>3, <1>4

\* The numbers of a field are those of its contributors, each once.
NumbersOf(values, s, k, c, f) ==
  Enumerates(s, k, Contributors(c, f)) /\ values = [i \in 1..k |-> Number(s[i], f)]

LEMMA NumbersAre ==
  ASSUME NEW ids, NEW c, Lists(ids, c), NEW f
  PROVE  \E k \in Nat : \E s : NumbersOf(numeric_values(f, ids, ruleset.properties), s, k, c, f)
<1> DEFINE properties == ruleset.properties
           keep == {r \in ToSet(ids) : /\ f \in DOMAIN properties[r]
                                       /\ Numeric(properties[r][f])}
           u == Retain(ids, keep)
           k == Len(u)
<1>1. ids \in Seq(RuleIds) /\ DOMAIN ids = 1..Len(ids)
  BY DEF Lists
<1>2. keep = Contributors(c, f)
  BY ListsAre DEF Contributors
<1>3. \E v \in Seq(RuleIds) :
        /\ v = Retain(ids, keep)
        /\ \A x : (\E i \in DOMAIN v : v[i] = x) <=> x \in keep /\ (\E i \in DOMAIN ids : ids[i] = x)
        /\ \E g \in [DOMAIN v -> DOMAIN ids] :
             /\ \A i \in DOMAIN v : v[i] = ids[g[i]]
             /\ \A i, j \in DOMAIN v : i < j => g[i] < g[j]
  <2>1. ids \in Seq(RuleIds)
    BY <1>1
  <2> HIDE DEF keep, u
  <2>2. QED  BY <2>1, RetainKeeps
<1>4. numeric_values(f, ids, properties) = [i \in DOMAIN u |-> Number(u[i], f)]
  BY DEF numeric_values, Number
<1>5. \A x \in keep : \E i \in DOMAIN ids : ids[i] = x
  BY DEF ToSet
<1> HIDE DEF keep, u
<1>6. /\ u \in Seq(RuleIds)
      /\ \A x : (\E i \in DOMAIN u : u[i] = x) <=> x \in keep /\ (\E i \in DOMAIN ids : ids[i] = x)
      /\ \E g \in [DOMAIN u -> DOMAIN ids] :
           /\ \A i \in DOMAIN u : u[i] = ids[g[i]]
           /\ \A i, j \in DOMAIN u : i < j => g[i] < g[j]
  BY <1>3 DEF u
<1>7. k \in Nat /\ DOMAIN u = 1..k
  BY <1>6
<1>8. (\A r \in keep : \E i \in 1..k : u[i] = r) /\ \A i \in 1..k : u[i] \in keep
  BY <1>5, <1>6, <1>7
<1>9. \A i, j \in 1..k : u[i] = u[j] => i = j
  <2>1. PICK g \in [1..k -> DOMAIN ids] :
          /\ \A i \in 1..k : u[i] = ids[g[i]]
          /\ \A i, j \in 1..k : i < j => g[i] < g[j]
    BY <1>6, <1>7
  <2> SUFFICES ASSUME NEW i \in 1..k, NEW j \in 1..k, u[i] = u[j]  PROVE i = j
    OBVIOUS
  <2>2. g[i] = g[j] /\ g[i] \in Int /\ g[j] \in Int
    BY <1>1, <2>1 DEF Lists, Enumerates
  <2>3. ~(i < j) /\ ~(j < i)
    BY <2>1, <2>2
  <2>4. QED  BY <1>7, <2>3
<1> HIDE DEF k
<1>10. u \in [1..k -> keep]
  BY <1>6, <1>7, <1>8
<1>11. NumbersOf(numeric_values(f, ids, properties), u, k, c, f)
  BY <1>2, <1>4, <1>7, <1>8, <1>9, <1>10 DEF NumbersOf, Enumerates
<1>12. QED  BY <1>7, <1>11

\* Folding with the lesser of two numbers finds one that none is below.
LEMMA LesserBounds ==
  ASSUME NEW n \in Nat, NEW h \in Int, NEW t \in [1..n -> Int]
  PROVE  LET m == FoldLeft(Lesser, h, t) IN
           /\ m \in Int /\ (m = h \/ \E i \in 1..n : m = t[i])
           /\ m <= h /\ \A i \in 1..n : m <= t[i]
<1> DEFINE D == SUBSET (1..n)
           st == [p \in Int \X (1..n) |-> Lesser(p[1], t[p[2]])]
           step(g, x) == IF x = {} THEN h ELSE Lesser(g[x \ {Max(x)}], t[Max(x)])
           eqn(g) == g = [x \in D |-> step(g, x)]
           iter == CHOOSE g : eqn(g)
<1>1. \A a, b \in Int : Lesser(a, b) \in {a, b} /\ Lesser(a, b) <= a /\ Lesser(a, b) <= b
  BY DEF Lesser
<1>2. st \in [Int \X (1..n) -> Int]
  BY <1>1
<1>3. \E g : eqn(g)
  <2>1. PICK g : Folds(g, Int, h, st, n)
    <3> HIDE DEF st
    <3>1. QED  BY <1>2, FoldExists
  <2>2. /\ g \in [D -> Int] /\ g[{}] = h
        /\ \A x \in D : x # {} => /\ Max(x) \in 1..n /\ x \ {Max(x)} \in D
                                  /\ g[x] = st[<<g[x \ {Max(x)}], Max(x)>>]
    <3> HIDE DEF st
    <3>1. g \in [D -> Int] /\ g[{}] = h
      BY <2>1 DEF Folds
    <3>2. ASSUME NEW x \in D, x # {}
          PROVE  /\ Max(x) \in 1..n /\ x \ {Max(x)} \in D
                 /\ g[x] = st[<<g[x \ {Max(x)}], Max(x)>>]
      <4>1. Max(x) \in x /\ \A j \in x : j <= Max(x)
        BY <3>2, GreatestPlace
      <4>2. QED  BY <2>1, <4>1 DEF Folds
    <3>3. QED  BY <3>1, <3>2
  <2>3. ASSUME NEW x \in D  PROVE g[x] = step(g, x)
    <3>1. CASE x = {}
      BY <2>2, <3>1
    <3>2. CASE x # {}
      <4>1. g[x \ {Max(x)}] \in Int /\ Max(x) \in 1..n
        BY <2>2, <3>2
      <4>2. st[<<g[x \ {Max(x)}], Max(x)>>] = Lesser(g[x \ {Max(x)}], t[Max(x)])
        BY <4>1
      <4> HIDE DEF st
      <4>3. QED  BY <2>2, <3>2, <4>2
    <3>3. QED  BY <3>1, <3>2
  <2> HIDE DEF step
  <2>4. eqn(g)
    BY <2>2, <2>3
  <2>5. QED  BY <2>4
<1>4. eqn(iter)
  <2> HIDE DEF eqn
  <2>1. QED  BY <1>3, Zenon
<1> HIDE DEF iter
<1>5. \A x \in D : iter[x] = step(iter, x)
  <2> HIDE DEF step
  <2>1. QED  BY <1>4
<1> DEFINE Bounds(m, k) ==
             /\ m \in Int /\ (m = h \/ \E i \in 1..k : m = t[i])
             /\ m <= h /\ \A i \in 1..k : m <= t[i]
           T == {k \in Nat : k <= n => Bounds(iter[1..k], k)}
<1>6. 0 \in T
  <2>1. 1..0 = {} /\ {} \in D
    OBVIOUS
  <2>2. iter[{}] = h
    BY <1>5, <2>1
  <2>3. QED  BY <2>1, <2>2
<1>7. ASSUME NEW k \in Nat, k \in T  PROVE k + 1 \in T
  <2> SUFFICES ASSUME k + 1 <= n  PROVE Bounds(iter[1..(k + 1)], k + 1)
    OBVIOUS
  <2>1. iter[1..(k + 1)] = Lesser(iter[1..k], t[k + 1])
    <3>1. /\ 1..(k + 1) # {} /\ Max(1..(k + 1)) = k + 1
          /\ (1..(k + 1)) \ {Max(1..(k + 1))} = 1..k
      BY LastPlace
    <3>2. 1..(k + 1) \in D
      OBVIOUS
    <3>3. iter[1..(k + 1)] = step(iter, 1..(k + 1))
      BY <1>5, <3>2
    <3>4. QED  BY <3>1, <3>3, Zenon
  <2>2. Bounds(iter[1..k], k) /\ t[k + 1] \in Int
    BY <1>7
  <2>3. /\ iter[1..(k + 1)] \in {iter[1..k], t[k + 1]}
        /\ iter[1..(k + 1)] <= iter[1..k] /\ iter[1..(k + 1)] <= t[k + 1]
    BY <1>1, <2>1, <2>2
  <2>4. \A i \in 1..(k + 1) : (i \in 1..k \/ i = k + 1) /\ t[i] \in Int
    OBVIOUS
  <2>5. QED  BY <2>2, <2>3, <2>4
<1>8. Bounds(iter[1..n], n)
  <2>1. \A k \in Nat : k \in T
    <3> HIDE DEF T
    <3>1. QED  BY <1>6, <1>7, NatSetInduction
  <2>2. QED  BY <2>1
<1>9. FoldLeft(Lesser, h, t) = iter[DOMAIN t] /\ DOMAIN t = 1..n
  BY Zenon DEF FoldLeft, MapThenFoldSet, iter
<1>10. QED  BY <1>8, <1>9

\* Folding with the greater of two finds one that none is above.
LEMMA GreaterBounds ==
  ASSUME NEW n \in Nat, NEW h \in Int, NEW t \in [1..n -> Int]
  PROVE  LET m == FoldLeft(Greater, h, t) IN
           /\ m \in Int /\ (m = h \/ \E i \in 1..n : m = t[i])
           /\ m >= h /\ \A i \in 1..n : m >= t[i]
<1> DEFINE D == SUBSET (1..n)
           st == [p \in Int \X (1..n) |-> Greater(p[1], t[p[2]])]
           step(g, x) == IF x = {} THEN h ELSE Greater(g[x \ {Max(x)}], t[Max(x)])
           eqn(g) == g = [x \in D |-> step(g, x)]
           iter == CHOOSE g : eqn(g)
<1>1. \A a, b \in Int : Greater(a, b) \in {a, b} /\ Greater(a, b) >= a /\ Greater(a, b) >= b
  BY DEF Greater
<1>2. st \in [Int \X (1..n) -> Int]
  BY <1>1
<1>3. \E g : eqn(g)
  <2>1. PICK g : Folds(g, Int, h, st, n)
    <3> HIDE DEF st
    <3>1. QED  BY <1>2, FoldExists
  <2>2. /\ g \in [D -> Int] /\ g[{}] = h
        /\ \A x \in D : x # {} => /\ Max(x) \in 1..n /\ x \ {Max(x)} \in D
                                  /\ g[x] = st[<<g[x \ {Max(x)}], Max(x)>>]
    <3> HIDE DEF st
    <3>1. g \in [D -> Int] /\ g[{}] = h
      BY <2>1 DEF Folds
    <3>2. ASSUME NEW x \in D, x # {}
          PROVE  /\ Max(x) \in 1..n /\ x \ {Max(x)} \in D
                 /\ g[x] = st[<<g[x \ {Max(x)}], Max(x)>>]
      <4>1. Max(x) \in x /\ \A j \in x : j <= Max(x)
        BY <3>2, GreatestPlace
      <4>2. QED  BY <2>1, <4>1 DEF Folds
    <3>3. QED  BY <3>1, <3>2
  <2>3. ASSUME NEW x \in D  PROVE g[x] = step(g, x)
    <3>1. CASE x = {}
      BY <2>2, <3>1
    <3>2. CASE x # {}
      <4>1. g[x \ {Max(x)}] \in Int /\ Max(x) \in 1..n
        BY <2>2, <3>2
      <4>2. st[<<g[x \ {Max(x)}], Max(x)>>] = Greater(g[x \ {Max(x)}], t[Max(x)])
        BY <4>1
      <4> HIDE DEF st
      <4>3. QED  BY <2>2, <3>2, <4>2
    <3>3. QED  BY <3>1, <3>2
  <2> HIDE DEF step
  <2>4. eqn(g)
    BY <2>2, <2>3
  <2>5. QED  BY <2>4
<1>4. eqn(iter)
  <2> HIDE DEF eqn
  <2>1. QED  BY <1>3, Zenon
<1> HIDE DEF iter
<1>5. \A x \in D : iter[x] = step(iter, x)
  <2> HIDE DEF step
  <2>1. QED  BY <1>4
<1> DEFINE Bounds(m, k) ==
             /\ m \in Int /\ (m = h \/ \E i \in 1..k : m = t[i])
             /\ m >= h /\ \A i \in 1..k : m >= t[i]
           T == {k \in Nat : k <= n => Bounds(iter[1..k], k)}
<1>6. 0 \in T
  <2>1. 1..0 = {} /\ {} \in D
    OBVIOUS
  <2>2. iter[{}] = h
    BY <1>5, <2>1
  <2>3. QED  BY <2>1, <2>2
<1>7. ASSUME NEW k \in Nat, k \in T  PROVE k + 1 \in T
  <2> SUFFICES ASSUME k + 1 <= n  PROVE Bounds(iter[1..(k + 1)], k + 1)
    OBVIOUS
  <2>1. iter[1..(k + 1)] = Greater(iter[1..k], t[k + 1])
    <3>1. /\ 1..(k + 1) # {} /\ Max(1..(k + 1)) = k + 1
          /\ (1..(k + 1)) \ {Max(1..(k + 1))} = 1..k
      BY LastPlace
    <3>2. 1..(k + 1) \in D
      OBVIOUS
    <3>3. iter[1..(k + 1)] = step(iter, 1..(k + 1))
      BY <1>5, <3>2
    <3>4. QED  BY <3>1, <3>3, Zenon
  <2>2. Bounds(iter[1..k], k) /\ t[k + 1] \in Int
    BY <1>7
  <2>3. /\ iter[1..(k + 1)] \in {iter[1..k], t[k + 1]}
        /\ iter[1..(k + 1)] >= iter[1..k] /\ iter[1..(k + 1)] >= t[k + 1]
    BY <1>1, <2>1, <2>2
  <2>4. \A i \in 1..(k + 1) : (i \in 1..k \/ i = k + 1) /\ t[i] \in Int
    OBVIOUS
  <2>5. QED  BY <2>2, <2>3, <2>4
<1>8. Bounds(iter[1..n], n)
  <2>1. \A k \in Nat : k \in T
    <3> HIDE DEF T
    <3>1. QED  BY <1>6, <1>7, NatSetInduction
  <2>2. QED  BY <2>1
<1>9. FoldLeft(Greater, h, t) = iter[DOMAIN t] /\ DOMAIN t = 1..n
  BY Zenon DEF FoldLeft, MapThenFoldSet, iter
<1>10. QED  BY <1>8, <1>9

\* All components of a candidate are wound one way.
WoundTheSame(geometry) ==
  \E way \in BOOLEAN : \A i \in DOMAIN geometry : geometry[i].ccw = way

\* The components of a candidate share no cell, so their areas add up to that of
\* all its cells unless two windings cancel each other.
LEMMA AreaIs ==
  ASSUME NEW geometry, IsGeometry(geometry), WoundTheSame(geometry)
  PROVE  /\ IsFiniteSet(CellsOf(geometry))
         /\ AreaOf(geometry) = Cardinality(CellsOf(geometry))
<1> DEFINE n == Len(geometry)
           D == SUBSET (1..n)
           size(i) == Cardinality(geometry[i].cells)
           add(total, part) == IF part.ccw THEN total + Cardinality(part.cells)
                                           ELSE total - Cardinality(part.cells)
           st == [p \in Int \X (1..n) |-> add(p[1], geometry[p[2]])]
           step(g, x) == IF x = {} THEN 0 ELSE add(g[x \ {Max(x)}], geometry[Max(x)])
           eqn(g) == g = [x \in D |-> step(g, x)]
           iter == CHOOSE g : eqn(g)
           cells(k) == UNION {geometry[i].cells : i \in 1..k}
<1>1. n \in Nat /\ DOMAIN geometry = 1..n
      /\ \A i \in 1..n : /\ geometry[i].ccw \in BOOLEAN /\ IsFiniteSet(geometry[i].cells)
                         /\ \A j \in 1..n \ {i} : geometry[i].cells \cap geometry[j].cells = {}
  BY DEF IsGeometry
<1>2. PICK way \in BOOLEAN : \A i \in 1..n : geometry[i].ccw = way
  BY <1>1 DEF WoundTheSame
<1>3. \A i \in 1..n : size(i) \in Nat
  BY <1>1, FS_CardinalityType
<1>4. \A a \in Int, i \in 1..n :
        /\ add(a, geometry[i]) = IF way THEN a + size(i) ELSE a - size(i)
        /\ add(a, geometry[i]) \in Int
  BY <1>2, <1>3
<1> HIDE DEF n, size, add
<1>5. st \in [Int \X (1..n) -> Int]
  BY <1>4
<1>6. \E g : eqn(g)
  <2>1. PICK g : Folds(g, Int, 0, st, n)
    <3>1. n \in Nat /\ 0 \in Int
      BY <1>1
    <3> HIDE DEF st
    <3>2. QED  BY <1>5, <3>1, FoldExists
  <2>2. /\ g \in [D -> Int] /\ g[{}] = 0
        /\ \A x \in D : x # {} => /\ Max(x) \in 1..n /\ x \ {Max(x)} \in D
                                  /\ g[x] = st[<<g[x \ {Max(x)}], Max(x)>>]
    <3> HIDE DEF st
    <3>1. g \in [D -> Int] /\ g[{}] = 0
      BY <2>1 DEF Folds
    <3>2. ASSUME NEW x \in D, x # {}
          PROVE  /\ Max(x) \in 1..n /\ x \ {Max(x)} \in D
                 /\ g[x] = st[<<g[x \ {Max(x)}], Max(x)>>]
      <4>1. Max(x) \in x /\ \A j \in x : j <= Max(x)
        BY <1>1, <3>2, GreatestPlace
      <4>2. QED  BY <2>1, <4>1 DEF Folds
    <3>3. QED  BY <3>1, <3>2
  <2>3. ASSUME NEW x \in D  PROVE g[x] = step(g, x)
    <3>1. CASE x = {}
      BY <2>2, <3>1
    <3>2. CASE x # {}
      <4>1. g[x \ {Max(x)}] \in Int /\ Max(x) \in 1..n
        BY <2>2, <3>2
      <4>2. st[<<g[x \ {Max(x)}], Max(x)>>] = add(g[x \ {Max(x)}], geometry[Max(x)])
        BY <4>1
      <4> HIDE DEF st
      <4>3. QED  BY <2>2, <3>2, <4>2
    <3>3. QED  BY <3>1, <3>2
  <2> HIDE DEF step
  <2>4. eqn(g)
    BY <2>2, <2>3
  <2>5. QED  BY <2>4
<1>7. eqn(iter)
  <2> HIDE DEF eqn
  <2>1. QED  BY <1>6, Zenon
<1> HIDE DEF iter
<1>8. \A x \in D : iter[x] = step(iter, x)
  <2> HIDE DEF step
  <2>1. QED  BY <1>7
<1> DEFINE Sums(total, k) ==
             /\ IsFiniteSet(cells(k)) /\ Cardinality(cells(k)) \in Nat
             /\ total = IF way THEN Cardinality(cells(k)) ELSE -Cardinality(cells(k))
           T == {k \in Nat : k <= n => Sums(iter[1..k], k)}
<1>9. 0 \in T
  <2>1. 1..0 = {} /\ {} \in D /\ cells(0) = {}
    OBVIOUS
  <2>2. iter[{}] = 0
    BY <1>8, <2>1
  <2>3. IsFiniteSet(cells(0)) /\ Cardinality(cells(0)) = 0
    BY <2>1, FS_EmptySet
  <2> HIDE DEF cells
  <2>4. QED  BY <2>1, <2>2, <2>3
<1>10. ASSUME NEW k \in Nat, k \in T  PROVE k + 1 \in T
  <2> HIDE DEF cells
  <2> SUFFICES ASSUME k + 1 <= n  PROVE Sums(iter[1..(k + 1)], k + 1)
    OBVIOUS
  <2>1. Sums(iter[1..k], k)
    BY <1>1, <1>10
  <2>2. k + 1 \in 1..n /\ 1..k \subseteq 1..n /\ k + 1 \notin 1..k
    BY <1>1
  <2>3. iter[1..(k + 1)] = add(iter[1..k], geometry[k + 1])
    <3>1. /\ 1..(k + 1) # {} /\ Max(1..(k + 1)) = k + 1
          /\ (1..(k + 1)) \ {Max(1..(k + 1))} = 1..k
      BY LastPlace
    <3>2. 1..(k + 1) \in D
      BY <1>1
    <3>3. iter[1..(k + 1)] = step(iter, 1..(k + 1))
      BY <1>8, <3>2
    <3>4. QED  BY <3>1, <3>3, Zenon
  <2>4. /\ cells(k + 1) = cells(k) \cup geometry[k + 1].cells
        /\ cells(k) \cap geometry[k + 1].cells = {}
    <3>1. \A i \in 1..k : i \in 1..(k + 1)
      OBVIOUS
    <3>2. \A i \in 1..(k + 1) : i \in 1..k \/ i = k + 1
      OBVIOUS
    <3>3. k + 1 \in 1..(k + 1)
      OBVIOUS
    <3>4. \A i \in 1..k : geometry[i].cells \cap geometry[k + 1].cells = {}
      BY <1>1, <2>2
    <3>5. QED  BY <3>1, <3>2, <3>3, <3>4 DEF cells
  <2>5. IsFiniteSet(cells(k + 1)) /\ Cardinality(cells(k + 1)) = Cardinality(cells(k)) + size(k + 1)
    <3>1. IsFiniteSet(cells(k)) /\ IsFiniteSet(geometry[k + 1].cells)
      BY <1>1, <2>1, <2>2
    <3>2. /\ IsFiniteSet(cells(k) \cup geometry[k + 1].cells)
          /\ Cardinality(cells(k) \cup geometry[k + 1].cells)
               = Cardinality(cells(k)) + Cardinality(geometry[k + 1].cells)
                   - Cardinality(cells(k) \cap geometry[k + 1].cells)
      BY <3>1, FS_Union
    <3>3. Cardinality(cells(k) \cap geometry[k + 1].cells) = 0
      BY <2>4, FS_EmptySet
    <3>4. Cardinality(cells(k)) \in Nat /\ size(k + 1) \in Nat
      BY <1>3, <2>1, <2>2
    <3>5. Cardinality(geometry[k + 1].cells) = size(k + 1)
      BY DEF size
    <3> DEFINE all == cells(k) \cup geometry[k + 1].cells
    <3>6. IsFiniteSet(all) /\ Cardinality(all) = Cardinality(cells(k)) + size(k + 1)
      BY <3>2, <3>3, <3>4, <3>5
    <3> HIDE DEF all
    <3>7. cells(k + 1) = all
      BY <2>4 DEF all
    <3>8. QED  BY <3>6, <3>7
  <2>6. Cardinality(cells(k)) \in Nat /\ size(k + 1) \in Nat
        /\ iter[1..k] = IF way THEN Cardinality(cells(k)) ELSE -Cardinality(cells(k))
    BY <1>3, <2>1, <2>2
  <2>7. iter[1..(k + 1)] = IF way THEN iter[1..k] + size(k + 1) ELSE iter[1..k] - size(k + 1)
    <3>1. iter[1..k] \in Int
      BY <2>6
    <3>2. QED  BY <1>4, <2>2, <2>3, <3>1
  <2>8. QED  BY <2>5, <2>6, <2>7
<1>11. Sums(iter[1..n], n)
  <2>1. \A k \in Nat : k \in T
    <3> HIDE DEF T
    <3>1. QED  BY <1>9, <1>10, NatSetInduction
  <2> HIDE DEF Sums
  <2>2. n \in T /\ n <= n
    BY <1>1, <2>1
  <2>3. QED  BY <2>2
<1>12. geodesic_area_signed(geometry) = iter[1..n]
  <2>1. geodesic_area_signed(geometry) = iter[DOMAIN geometry]
    BY <1>1, Zenon DEF geodesic_area_signed, FoldLeft, MapThenFoldSet, iter, add
  <2>2. QED  BY <1>1, <2>1
<1>13. cells(n) = CellsOf(geometry)
  BY <1>1 DEF CellsOf
<1> HIDE DEF cells
<1>14. AreaOf(geometry) = Cardinality(cells(n))
  BY <1>11, <1>12 DEF AreaOf, Magnitude
<1>15. QED  BY <1>11, <1>13, <1>14

-----------------------------------------------------------------------------
\* What each numeric function makes of the numbers of a field.
LEMMA NumericDescribes ==
  ASSUME ruleset \in Rulesets, NEW ids, NEW c, Lists(ids, c), NEW f
  PROVE  LET values == numeric_values(f, ids, ruleset.properties)
             S      == Contributors(c, f)
         IN /\ values = <<>> <=> S = {}
            /\ S # {} =>
                 /\ \E r \in S : Number(r, f) = numeric("min", values)[1]
                 /\ \A r \in S : Number(r, f) >= numeric("min", values)[1]
                 /\ \E r \in S : Number(r, f) = numeric("max", values)[1]
                 /\ \A r \in S : Number(r, f) <= numeric("max", values)[1]
                 /\ numeric("sum", values)[1] = Total(c, f)
                 /\ numeric("avg", values) = <<Total(c, f), Cardinality(S)>>
<1> DEFINE S == Contributors(c, f)
           w == [r \in S |-> Number(r, f)]
<1>1. \A r \in S : Number(r, f) \in Int
  <2> SUFFICES ASSUME NEW r \in S  PROVE Number(r, f) \in Int
    OBVIOUS
  <2>1. r \in RuleIds /\ f \in DOMAIN ruleset.properties[r]
    BY ListsAre DEF Contributors
  <2>2. IsPropertyValue(ruleset.properties[r][f])
    BY <2>1, EvaluationAssumption
  <2>3. QED  BY <2>2 DEF IsPropertyValue, Number
<1>2. PICK k \in Nat :
        \E s : NumbersOf(numeric_values(f, ids, ruleset.properties), s, k, c, f)
  BY NumbersAre
<1>3. PICK s : NumbersOf(numeric_values(f, ids, ruleset.properties), s, k, c, f)
  BY <1>2
<1> DEFINE values == [i \in 1..k |-> Number(s[i], f)]
<1> HIDE DEF S
<1>4. Enumerates(s, k, S) /\ IsFiniteSet(S) /\ Cardinality(S) = k
  <2>1. Enumerates(s, k, S)
    BY <1>3 DEF NumbersOf, S
  <2>2. QED  BY <2>1, EnumerationCounts
<1>5. values \in [1..k -> Int] /\ \A i \in 1..k : values[i] = Number(s[i], f) /\ s[i] \in S
  BY <1>1, <1>4 DEF Enumerates
<1>6. \A r \in S : \E i \in 1..k : s[i] = r
  BY <1>4 DEF Enumerates
<1>7. values = <<>> <=> S = {}
  <2>1. S = {} <=> k = 0
    BY <1>4, <1>6, FS_EmptySet
  <2>2. k = 0 => values = <<>>
    OBVIOUS
  <2>3. values = <<>> => k = 0
    <3>1. Len(values) = k /\ Len(<<>>) = 0
      BY <1>5
    <3>2. QED  BY <3>1
  <2>4. QED  BY <2>1, <2>2, <2>3
<1> HIDE DEF values
<1>8. ASSUME S # {}
      PROVE  /\ \E r \in S : Number(r, f) = numeric("min", values)[1]
             /\ \A r \in S : Number(r, f) >= numeric("min", values)[1]
             /\ \E r \in S : Number(r, f) = numeric("max", values)[1]
             /\ \A r \in S : Number(r, f) <= numeric("max", values)[1]
  <2> DEFINE n == k - 1
             h == Head(values)
             t == Tail(values)
             least == FoldLeft(Lesser, h, t)
             most == FoldLeft(Greater, h, t)
  <2>1. n \in Nat /\ n + 1 = k
    BY <1>6, <1>8
  <2>2. values \in Seq(Int) /\ Len(values) = k
    BY <1>5
  <2>3. /\ h = values[1] /\ t \in [1..n -> Int]
        /\ \A i \in 1..n : t[i] = values[i + 1]
    <3>1. t \in Seq(Int) /\ Len(t) = n
      BY <2>1, <2>2
    <3>2. h = values[1]
      BY <2>1, <2>2
    <3>3. \A i \in 1..n : t[i] = values[i + 1]
      BY <2>1, <2>2
    <3> HIDE DEF t, h
    <3>4. QED  BY <2>1, <3>1, <3>2, <3>3
  <2>4. \A i \in 1..k : i = 1 \/ (i - 1 \in 1..n /\ i = (i - 1) + 1)
    BY <2>1
  <2>5. 1 \in 1..k /\ \A i \in 1..n : i + 1 \in 1..k
    BY <2>1
  <2> HIDE DEF n, t, h
  <2>6. h \in Int
    BY <1>5, <2>3, <2>5
  <2>7. least = h \/ \E i \in 1..n : least = t[i]
    BY <2>1, <2>3, <2>6, LesserBounds
  <2>8. least <= h /\ \A i \in 1..n : least <= t[i]
    BY <2>1, <2>3, <2>6, LesserBounds
  <2>9. most = h \/ \E i \in 1..n : most = t[i]
    BY <2>1, <2>3, <2>6, GreaterBounds
  <2>10. most >= h /\ \A i \in 1..n : most >= t[i]
    BY <2>1, <2>3, <2>6, GreaterBounds
  <2>11. numeric("min", values)[1] = least /\ numeric("max", values)[1] = most
    BY DEF numeric, h, t
  <2> HIDE DEF least, most
  <2>12. /\ \E i \in 1..k : least = values[i]
         /\ \E i \in 1..k : most = values[i]
    BY <2>3, <2>5, <2>7, <2>9
  <2>13. \A i \in 1..k : values[i] = h \/ \E j \in 1..n : values[i] = t[j]
    BY <2>3, <2>4
  <2>14. \A i \in 1..k : least <= values[i] /\ most >= values[i]
    BY <2>8, <2>10, <2>13
  <2>15. /\ \E r \in S : Number(r, f) = least
         /\ \E r \in S : Number(r, f) = most
    BY <1>5, <2>12
  <2>16. \A r \in S : \E i \in 1..k : Number(r, f) = values[i]
    BY <1>5, <1>6
  <2>17. \A r \in S : Number(r, f) >= least /\ Number(r, f) <= most
    <3> SUFFICES ASSUME NEW r \in S  PROVE Number(r, f) >= least /\ Number(r, f) <= most
      OBVIOUS
    <3>1. PICK i \in 1..k : Number(r, f) = values[i]
      BY <2>16
    <3>2. least \in Int /\ most \in Int /\ values[i] \in Int
      BY <1>5, <2>12
    <3>3. QED  BY <2>14, <3>1, <3>2
  <2>18. QED  BY <2>11, <2>15, <2>17
<1>9. numeric("sum", values)[1] = Total(c, f) /\ numeric("avg", values) = <<Total(c, f), k>>
  <2>1. w \in [S -> Int] /\ \A i \in 1..k : values[i] = w[s[i]]
    BY <1>1, <1>5
  <2> HIDE DEF w
  <2>2. Weight(values, 1..k) = Weight(w, S)
    BY <1>4, <1>5, <2>1, WeightOfPlaces
  <2>3. Total(c, f) = Weight(w, S)
    <3>1. SumFunction(w) = Weight(w, S)
      BY <1>4, <2>1, SumFunctionIs
    <3>2. QED  BY <3>1 DEF Total, w, S
  <2>4. numeric_sum_count(values) = [sum |-> Total(c, f), count |-> k]
    <3>1. numeric_sum_count(values) = [sum |-> Weight(values, 1..k), count |-> k]
      BY <1>5, SumCounts
    <3>2. QED  BY <2>2, <2>3, <3>1
  <2>5. QED  BY <2>4 DEF numeric
<1>10. numeric_values(f, ids, ruleset.properties) = values
  BY <1>3 DEF NumbersOf, values
<1>11. QED  BY <1>4, <1>7, <1>8, <1>9, <1>10 DEF S

\* What is computed from the applicable rules describes them, in whatever order
\* they are listed.
LEMMA ComputeDescribes ==
  ASSUME ruleset \in Rulesets, NEW ids, NEW c, Lists(ids, c), NEW geometry, NEW spec
  PROVE  Describes(c, spec, compute(spec, geometry, ids, ruleset.properties))
<1> DEFINE result == compute(spec, geometry, ids, ruleset.properties)
           values(f) == numeric_values(spec[f], ids, ruleset.properties)
           S(f) == Contributors(c, spec[f])
           present == {f \in DOMAIN spec : f \in {"count", "coverage"} \/ S(f) # {}}
<1>1. \A f : /\ values(f) = <<>> <=> S(f) = {}
             /\ S(f) # {} =>
                  /\ \E r \in S(f) : Number(r, spec[f]) = numeric("min", values(f))[1]
                  /\ \A r \in S(f) : Number(r, spec[f]) >= numeric("min", values(f))[1]
                  /\ \E r \in S(f) : Number(r, spec[f]) = numeric("max", values(f))[1]
                  /\ \A r \in S(f) : Number(r, spec[f]) <= numeric("max", values(f))[1]
                  /\ numeric("sum", values(f))[1] = Total(c, spec[f])
                  /\ numeric("avg", values(f)) = <<Total(c, spec[f]), Cardinality(S(f))>>
  BY NumericDescribes
<1>2. result = [f \in present |->
                  CASE f = "count"    -> <<Len(ids), 1>>
                    [] f = "coverage" -> coverage_ratio(geometry, ids)
                    [] OTHER          -> numeric(f, values(f))]
  <2>1. {f \in DOMAIN spec : f \in {"count", "coverage"} \/ values(f) # <<>>} = present
    BY <1>1
  <2> HIDE DEF present
  <2>2. QED  BY <2>1 DEF compute
<1>3. Cardinality(Applicable(c)) = Len(ids)
  BY ListsAre
<1> HIDE DEF result
<1>4. DOMAIN result = present
  BY <1>2
<1>5. "count" \in DOMAIN result => result["count"][1] = Cardinality(Applicable(c))
  BY <1>2, <1>3
<1>6. \A f \in DOMAIN result \cap {"min", "max", "sum", "avg"} :
        S(f) # {} /\ result[f] = numeric(f, values(f))
  BY <1>2
<1> HIDE DEF present, values, S
<1>7. \A f \in DOMAIN result \cap {"min", "max"} :
        /\ \E r \in S(f) : Number(r, spec[f]) = result[f][1]
        /\ \A r \in S(f) : IF f = "min" THEN Number(r, spec[f]) >= result[f][1]
                                        ELSE Number(r, spec[f]) <= result[f][1]
  <2> SUFFICES ASSUME NEW f \in DOMAIN result \cap {"min", "max"}
               PROVE  /\ \E r \in S(f) : Number(r, spec[f]) = result[f][1]
                      /\ \A r \in S(f) : IF f = "min" THEN Number(r, spec[f]) >= result[f][1]
                                                      ELSE Number(r, spec[f]) <= result[f][1]
    OBVIOUS
  <2>1. CASE f = "min"
    BY <1>1, <1>6, <2>1
  <2>2. CASE f = "max"
    BY <1>1, <1>6, <2>2
  <2>3. QED  BY <2>1, <2>2
<1>8. "sum" \in DOMAIN result => result["sum"][1] = Total(c, spec["sum"])
  BY <1>1, <1>6
<1>9. "avg" \in DOMAIN result =>
        result["avg"][1] * Cardinality(S("avg")) = Total(c, spec["avg"]) * result["avg"][2]
  <2>1. "avg" \in DOMAIN result =>
          result["avg"] = <<Total(c, spec["avg"]), Cardinality(S("avg"))>>
    BY <1>1, <1>6
  <2>2. QED  BY <2>1
<1>10. QED  BY <1>4, <1>5, <1>7, <1>8, <1>9 DEF Describes, result, present, S

\* A share of what a candidate covers.
LEMMA ShareIs ==
  ASSUME NEW geometry, IsGeometry(geometry), WoundTheSame(geometry), NEW cells
  PROVE  IsShare(Share(Cardinality(CellsOf(geometry) \cap cells), AreaOf(geometry)), geometry, cells)
<1> DEFINE covered == CellsOf(geometry) \cap cells
           size == Cardinality(CellsOf(geometry))
<1>1. IsFiniteSet(CellsOf(geometry)) /\ AreaOf(geometry) = size
  BY AreaIs
<1>2. IsFiniteSet(covered) /\ Cardinality(covered) <= size
  BY <1>1, FS_Subset
<1>3. Cardinality(covered) \in Nat /\ size \in Nat
  BY <1>1, <1>2, FS_CardinalityType
<1> HIDE DEF covered, size
<1>4. size = 0 => Cardinality(covered) = 0
  BY <1>2, <1>3
<1>5. Share(Cardinality(covered), size)
        = IF size > 0 THEN <<Cardinality(covered), size>> ELSE <<0, 1>>
  BY DEF Share
<1>6. CASE size > 0
  BY <1>1, <1>3, <1>5, <1>6 DEF IsShare, covered, size
<1>7. CASE size = 0
  BY <1>1, <1>3, <1>4, <1>5, <1>7 DEF IsShare, covered, size
<1>8. QED  BY <1>3, <1>6, <1>7

\* A point has no cells, and no share of them.
LEMMA PointHasNoShare == \A cells : IsShare(<<0, 1>>, <<>>, cells)
<1>1. CellsOf(<<>>) = {}
  BY DEF CellsOf
<1>2. Cardinality({}) = 0
  BY FS_EmptySet
<1>3. QED  BY <1>1, <1>2 DEF IsShare

\* What candidates consist of.
LEMMA GeometriesAre ==
  ASSUME NEW c, c.geometry \in Geometries \cup {<<>>}
  PROVE  IsGeometry(c.geometry)
<1>1. IsGeometry(<<>>)
  BY DEF IsGeometry
<1>2. QED  BY <1>1, EvaluationAssumption

\* Sorting the applicable rules lists them again.
LEMMA SortedLists ==
  ASSUME ruleset \in Rulesets, NEW ids, NEW c,
         StrictlyAscending(ids), ToSet(ids) = Applicable(c)
  PROVE  Lists(ids, c) /\ Lists(SortBy(ids, Precedence), c)
<1>1. PICK u \in Seq(RuleIds) :
        /\ u = SortBy(ids, Precedence) /\ Len(u) = Len(ids) /\ ToSet(u) = ToSet(ids)
        /\ \A i, j \in DOMAIN u : i < j => u[i] = u[j] \/ Precedes(u[i], u[j])
  BY ResolutionIsOrdered
<1>2. /\ Enumerates(ids, Len(ids), ToSet(ids)) /\ ids \in Seq(RuleIds)
      /\ Cardinality(ToSet(ids)) = Len(ids)
  BY AscendingCounts DEF StrictlyAscending
<1>3. Len(u) \in Nat /\ DOMAIN u = 1..Len(u)
  BY <1>1
<1>4. u \in [1..Len(u) -> ToSet(u)] /\ \A x \in ToSet(u) : \E i \in 1..Len(u) : u[i] = x
  BY <1>1, <1>3 DEF ToSet
<1>5. u \in Surjection(1..Len(u), ToSet(u))
  BY <1>4 DEF Surjection
<1>6. IsFiniteSet(1..Len(u)) /\ Cardinality(1..Len(u)) = Len(u)
  BY <1>3, FS_Interval
<1>7. u \in Injection(1..Len(u), ToSet(u))
  BY <1>1, <1>2, <1>5, <1>6, FS_Surjection
<1>8. Enumerates(u, Len(u), ToSet(u))
  BY <1>4, <1>7 DEF Enumerates, Injection, IsInjective
<1>9. QED  BY <1>1, <1>2, <1>8 DEF Lists

\* The analytics and the shares of an answer.
LEMMA AnswerDescribes ==
  ASSUME ruleset \in Rulesets, NEW ids, NEW c, Lists(ids, c),
         c.geometry \in Geometries \cup {<<>>}
  PROVE  /\ \A spec \in query.aggregate :
              \E result \in Aggregate(c, ids) : Describes(c, spec, result)
         /\ WoundTheSame(c.geometry) =>
              /\ \A result \in Aggregate(c, ids) :
                   "coverage" \in DOMAIN result =>
                     IsShare(result["coverage"], c.geometry,
                             UNION {Footprint[r] : r \in Applicable(c)})
              /\ \A metrics \in Overlaps(c, ids) : \A i \in DOMAIN ids :
                   IsShare(metrics[i].ratio, c.geometry, Footprint[ids[i]])
<1> DEFINE describe(spec) == compute(spec, c.geometry, ids, ruleset.properties)
           union == UNION {Footprint[r] : r \in Applicable(c)}
<1>1. Aggregate(c, ids) = {describe(spec) : spec \in query.aggregate}
  BY DEF Aggregate
<1>2. \A spec : Describes(c, spec, describe(spec))
  BY ComputeDescribes
<1>3. IsGeometry(c.geometry)
  BY GeometriesAre
<1>4. ASSUME WoundTheSame(c.geometry)
      PROVE  IsShare(coverage_ratio(c.geometry, ids), c.geometry, union)
  <2>1. union = UNION {Footprint[r] : r \in ToSet(ids)}
    BY ListsAre
  <2> HIDE DEF union
  <2>2. CASE c.geometry = <<>>
    BY <2>2, PointHasNoShare DEF coverage_ratio
  <2>3. CASE c.geometry # <<>>
    <3>1. coverage_ratio(c.geometry, ids)
            = Share(Cardinality(CellsOf(c.geometry) \cap union), AreaOf(c.geometry))
      BY <2>1, <2>3 DEF coverage_ratio
    <3>2. QED  BY <1>3, <1>4, <3>1, ShareIs
  <2>4. QED  BY <2>2, <2>3
<1>5. \A spec : "coverage" \in DOMAIN describe(spec) =>
        describe(spec)["coverage"] = coverage_ratio(c.geometry, ids)
  BY DEF compute
<1>6. ASSUME WoundTheSame(c.geometry), NEW metrics \in Overlaps(c, ids), NEW i \in DOMAIN ids
      PROVE  IsShare(metrics[i].ratio, c.geometry, Footprint[ids[i]])
  <2> DEFINE area == AreaOf(c.geometry)
             overlap == IF c.geometry = <<>> THEN 0
                        ELSE Cardinality(CellsOf(c.geometry) \cap Footprint[ids[i]])
  <2>1. metrics = [j \in DOMAIN ids |-> overlap_metric(c.geometry, ids[j], area)]
    BY <1>6 DEF Overlaps
  <2>2. metrics[i].ratio = Share(overlap, area)
    BY <2>1 DEF overlap_metric
  <2>3. overlap = Cardinality(CellsOf(c.geometry) \cap Footprint[ids[i]])
    <3>1. c.geometry = <<>> => CellsOf(c.geometry) \cap Footprint[ids[i]] = {}
      BY DEF CellsOf
    <3>2. QED  BY <3>1, FS_EmptySet
  <2> HIDE DEF overlap
  <2>4. QED  BY <1>3, <1>6, <2>2, <2>3, ShareIs
<1> HIDE DEF describe, union
<1>7. \A spec \in query.aggregate :
        \E result \in Aggregate(c, ids) : Describes(c, spec, result)
  BY <1>1, <1>2
<1>8. ASSUME WoundTheSame(c.geometry), NEW result \in Aggregate(c, ids),
             "coverage" \in DOMAIN result
      PROVE  IsShare(result["coverage"], c.geometry, union)
  BY <1>1, <1>4, <1>5, <1>8
<1>9. QED  BY <1>6, <1>7, <1>8 DEF union

-----------------------------------------------------------------------------
\* The inductive invariant: each property is established by the entry point that
\* answers, and only an answer that was collected lets the query change.
SharesAreKept == WoundTheSame(answer.of.geometry) => SharesAreOfTheCandidate

EvaluationInv ==
  /\ TypeOK /\ MatchesAreExact /\ MasksTellTheOutcome /\ WinnerHasPrecedence
  /\ FirstProviderWins /\ AggregatesDescribeApplicable /\ SharesAreKept

\* A description is of a ruleset and a query.
LEMMA DescriptionStays ==
  ASSUME UNCHANGED <<ruleset, query>>
  PROVE  \A c, spec, result : Describes(c, spec, result)' <=> Describes(c, spec, result)
<1>1. \A c : Applicable(c)' = Applicable(c)
  BY DEF Applicable
<1>2. \A c, f : Contributors(c, f)' = Contributors(c, f)
  BY <1>1 DEF Contributors
<1>3. \A r, f : Number(r, f)' = Number(r, f)
  BY DEF Number
<1>4. \A c, f : Total(c, f)' = Total(c, f)
  BY <1>2, <1>3 DEF Total
<1>5. ASSUME NEW c, NEW spec, NEW result
      PROVE  Describes(c, spec, result)' <=> Describes(c, spec, result)
  <2>1. {f \in DOMAIN spec : f \in {"count", "coverage"} \/ Contributors(c, spec[f])' # {}}
          = {f \in DOMAIN spec : f \in {"count", "coverage"} \/ Contributors(c, spec[f]) # {}}
    BY <1>2
  <2>2. \A f \in DOMAIN result \cap {"min", "max"} :
          (/\ \E r \in Contributors(c, spec[f])' : Number(r, spec[f])' = result[f][1]
           /\ \A r \in Contributors(c, spec[f])' :
                IF f = "min" THEN Number(r, spec[f])' >= result[f][1]
                             ELSE Number(r, spec[f])' <= result[f][1])
          <=> (/\ \E r \in Contributors(c, spec[f]) : Number(r, spec[f]) = result[f][1]
               /\ \A r \in Contributors(c, spec[f]) :
                    IF f = "min" THEN Number(r, spec[f]) >= result[f][1]
                                 ELSE Number(r, spec[f]) <= result[f][1])
    BY <1>2, <1>3
  <2>3. Total(c, spec["sum"])' = Total(c, spec["sum"]) /\ Total(c, spec["avg"])' = Total(c, spec["avg"])
        /\ Contributors(c, spec["avg"])' = Contributors(c, spec["avg"])
    BY <1>2, <1>4
  <2>4. QED  BY <1>1, <2>1, <2>2, <2>3, Zenon DEF Describes
<1>6. QED  BY <1>5

LEMMA EntriesKeep ==
  ASSUME TypeOK, NEW c \in Candidates[query.spatial], EvaluateOne(c)
  PROVE  EvaluationInv'
<1>1. UNCHANGED <<ruleset, query>> /\ TypeOK' /\ answer'.of = c
  BY EntriesAnswer
<1>2. PICK ids : StrictlyAscending(ids) /\ ToSet(ids) = Applicable(c) /\ Answers(c, ids)
  BY EntriesAnswer
<1>3. ids = <<>> <=> Applicable(c) = {}
  BY <1>2, AscendingCounts
<1>4. Rejected(answer.of)' <=> Rejected(c)
  BY <1>1 DEF Rejected, from_json
<1>5. Applicable(answer.of)' = Applicable(c)
  BY <1>1 DEF Applicable
<1>6. MatchesAreExact'
  <2> SUFFICES ASSUME answer'.entry = "match"
               PROVE  LET o == answer'.outcome IN
                      CASE Rejected(c)                        -> o.kind = "invalid"
                        [] ~Rejected(c) /\ Applicable(c) = {} -> o.kind = "notMatched"
                        [] OTHER -> /\ o.kind = "matched"
                                    /\ StrictlyAscending(o.ruleIds)
                                    /\ ToSet(o.ruleIds) = Applicable(c)
    BY <1>4, <1>5 DEF MatchesAreExact, StrictlyAscending
  <2>1. answer'.outcome = IF Rejected(c) THEN Invalid(InvalidReason(c)) ELSE MatchOutcome(c, ids)
    BY <1>2 DEF Answers
  <2>2. CASE Rejected(c)
    BY <2>1, <2>2 DEF Invalid
  <2>3. CASE ~Rejected(c)
    BY <1>2, <1>3, <2>1, <2>3 DEF MatchOutcome, NotMatched
  <2>4. QED  BY <2>2, <2>3
<1>7. MasksTellTheOutcome'
  <2> SUFFICES ASSUME answer'.entry \in {"matchMask", "resolveMask"}
               PROVE  answer'.outcome =
                        Mask(CASE Rejected(c)                        -> 2
                               [] ~Rejected(c) /\ Applicable(c) # {} -> 1
                               [] OTHER                              -> 0)
    BY <1>4, <1>5 DEF MasksTellTheOutcome, Mask
  <2>1. answer'.outcome = IF Rejected(c) THEN Mask(2) ELSE MaskOutcome(ids)
    BY <1>2 DEF Answers
  <2>2. QED  BY <1>3, <2>1 DEF MaskOutcome
<1>8. ASSUME answer'.entry = "resolve", ~Rejected(c)
      PROVE  IF Applicable(c) = {} THEN answer'.outcome = NotMatched
             ELSE Explains(answer'.outcome, Applicable(c))
  <2>1. answer'.outcome = ResolveOutcome(c, ids)
    BY <1>2, <1>8 DEF Answers
  <2>2. ruleset \in Rulesets
    BY DEF TypeOK
  <2>3. QED  BY <1>2, <1>3, <2>1, <2>2, ResolutionExplains
<1>9. ASSUME answer'.entry = "resolve", Rejected(c)
      PROVE  answer'.outcome.kind = "invalid"
  BY <1>2, <1>9 DEF Answers, Invalid
<1>10. \A a, b : Outranks(a, b)' <=> Outranks(a, b)
  BY <1>1 DEF Outranks
<1>11. WinnerHasPrecedence'
  <2> SUFFICES ASSUME answer'.entry = "resolve", ~Rejected(c), Applicable(c) # {}
               PROVE  LET o == answer'.outcome IN
                      /\ o.kind = "resolved"
                      /\ ToSet(o.applicable) = Applicable(c)
                      /\ Len(o.applicable) = Cardinality(Applicable(c))
                      /\ o.winner \in Applicable(c)
                      /\ \A r \in Applicable(c) \ {o.winner} : Outranks(o.winner, r)
    BY <1>1, <1>4, <1>5 DEF WinnerHasPrecedence, Outranks
  <2>1. QED  BY <1>8 DEF Explains
<1>12. FirstProviderWins'
  <2> SUFFICES ASSUME answer'.entry = "resolve", answer'.outcome.kind = "resolved"
               PROVE  LET o == answer'.outcome
                          providers(k) ==
                            {r \in Applicable(c) : k \in DOMAIN ruleset.properties[r]}
                      IN /\ DOMAIN o.values
                              = UNION {DOMAIN ruleset.properties[r] : r \in Applicable(c)}
                         /\ \A k \in DOMAIN o.values : \E first \in providers(k) :
                              /\ o.values[k] = ruleset.properties[first][k]
                              /\ \A r \in providers(k) \ {first} : Outranks(first, r)
    BY <1>1, <1>5 DEF FirstProviderWins, Outranks
  <2>1. ~Rejected(c)
    BY <1>9
  <2>2. Applicable(c) # {}
    BY <1>8, <2>1 DEF NotMatched
  <2>3. Explains(answer'.outcome, Applicable(c))
    BY <1>8, <2>1, <2>2
  <2>4. QED  BY <2>3 DEF Explains
<1>13. ASSUME answer'.entry \in {"match", "resolve"},
              answer'.outcome.kind \in {"matched", "resolved"}
       PROVE  \E u : /\ Lists(u, c) /\ answer'.outcome.aggregate = Aggregate(c, u)
                     /\ answer'.entry = "match" =>
                          /\ answer'.outcome.ruleIds = u
                          /\ answer'.outcome.overlaps = Overlaps(c, u)
  <2>1. Lists(ids, c) /\ Lists(SortBy(ids, Precedence), c)
    BY <1>2, SortedLists DEF TypeOK
  <2>2. ~Rejected(c)
    BY <1>2, <1>13 DEF Answers, Invalid
  <2>3. CASE answer'.entry = "match"
    <3>1. answer'.outcome = MatchOutcome(c, ids)
      BY <1>2, <2>2, <2>3 DEF Answers
    <3>2. QED  BY <1>13, <2>1, <3>1 DEF MatchOutcome, NotMatched
  <2>4. CASE answer'.entry = "resolve"
    <3>1. answer'.outcome = ResolveOutcome(c, ids)
      BY <1>2, <2>2, <2>4 DEF Answers
    <3>2. answer'.outcome.aggregate = Aggregate(c, SortBy(ids, Precedence))
      BY <1>13, <3>1 DEF ResolveOutcome, NotMatched, Precedence
    <3>3. QED  BY <2>1, <2>4, <3>2
  <2>5. QED  BY <1>13, <2>3, <2>4
<1>14. /\ ruleset \in Rulesets
       /\ c.geometry \in Geometries \cup {<<>>}
  <2>1. query.spatial \in Predicates
    BY EvaluationAssumption DEF TypeOK, IsQuery
  <2>2. QED  BY <2>1, CandidatesAre DEF TypeOK, IsCandidate
<1>15. AggregatesDescribeApplicable'
  <2>1. \A d, spec, result : Describes(d, spec, result)' <=> Describes(d, spec, result)
    BY <1>1, DescriptionStays
  <2>2. \A spec, result : Describes(answer.of, spec, result)' <=> Describes(c, spec, result)
    BY <1>1, <2>1
  <2> SUFFICES ASSUME answer'.entry \in {"match", "resolve"},
                      answer'.outcome.kind \in {"matched", "resolved"},
                      NEW spec \in query.aggregate
               PROVE  \E result \in answer'.outcome.aggregate : Describes(c, spec, result)
    BY <1>1, <2>2 DEF AggregatesDescribeApplicable
  <2>3. PICK u : Lists(u, c) /\ answer'.outcome.aggregate = Aggregate(c, u)
    BY <1>13
  <2>4. QED  BY <1>14, <2>3, AnswerDescribes
<1>16. SharesAreKept'
  <2> SUFFICES ASSUME WoundTheSame(c.geometry)
               PROVE  LET o == answer'.outcome IN
                      /\ answer'.entry = "match" /\ o.kind = "matched" =>
                           \A metrics \in o.overlaps : \A i \in DOMAIN o.ruleIds :
                             IsShare(metrics[i].ratio, c.geometry, Footprint[o.ruleIds[i]])
                      /\ answer'.entry \in {"match", "resolve"} /\ o.kind \in {"matched", "resolved"} =>
                           \A result \in o.aggregate :
                             "coverage" \in DOMAIN result =>
                               IsShare(result["coverage"], c.geometry,
                                       UNION {Footprint[r] : r \in Applicable(c)})
    BY <1>1, <1>5 DEF SharesAreKept, SharesAreOfTheCandidate
  <2> SUFFICES ASSUME answer'.entry \in {"match", "resolve"},
                      answer'.outcome.kind \in {"matched", "resolved"}
               PROVE  LET o == answer'.outcome IN
                      /\ answer'.entry = "match" =>
                           \A metrics \in o.overlaps : \A i \in DOMAIN o.ruleIds :
                             IsShare(metrics[i].ratio, c.geometry, Footprint[o.ruleIds[i]])
                      /\ \A result \in o.aggregate :
                           "coverage" \in DOMAIN result =>
                             IsShare(result["coverage"], c.geometry,
                                     UNION {Footprint[r] : r \in Applicable(c)})
    OBVIOUS
  <2>1. PICK u : /\ Lists(u, c) /\ answer'.outcome.aggregate = Aggregate(c, u)
                 /\ answer'.entry = "match" =>
                      /\ answer'.outcome.ruleIds = u
                      /\ answer'.outcome.overlaps = Overlaps(c, u)
    BY <1>13
  <2>2. /\ \A result \in Aggregate(c, u) :
             "coverage" \in DOMAIN result =>
               IsShare(result["coverage"], c.geometry, UNION {Footprint[r] : r \in Applicable(c)})
        /\ \A metrics \in Overlaps(c, u) : \A i \in DOMAIN u :
             IsShare(metrics[i].ratio, c.geometry, Footprint[u[i]])
    BY <1>14, <2>1, AnswerDescribes
  <2>3. QED  BY <2>1, <2>2
<1>17. QED  BY <1>1, <1>6, <1>7, <1>11, <1>12, <1>15, <1>16 DEF EvaluationInv

LEMMA EvaluationInvHolds == Spec => []EvaluationInv
<1>1. Init => EvaluationInv
  <2> SUFFICES ASSUME Init  PROVE EvaluationInv
    OBVIOUS
  <2>1. answer.entry = "none"
    BY DEF Init, Unanswered
  <2>2. TypeOK
    BY <2>1 DEF Init, TypeOK, StrictlyAscending
  <2>3. QED
    BY <2>1, <2>2 DEF EvaluationInv, MatchesAreExact, MasksTellTheOutcome, WinnerHasPrecedence,
                      FirstProviderWins, AggregatesDescribeApplicable, SharesAreKept,
                      SharesAreOfTheCandidate
<1>2. EvaluationInv /\ [Next]_vars => EvaluationInv'
  <2> SUFFICES ASSUME EvaluationInv, [Next]_vars  PROVE EvaluationInv'
    OBVIOUS
  <2>1. TypeOK
    BY DEF EvaluationInv
  <2>2. ASSUME NEW c \in Candidates[query.spatial], EvaluateOne(c)  PROVE EvaluationInv'
    BY <2>1, <2>2, EntriesKeep
  <2>3. ASSUME TypeOK', answer'.entry = "none"  PROVE EvaluationInv'
    BY <2>3 DEF EvaluationInv, MatchesAreExact, MasksTellTheOutcome, WinnerHasPrecedence,
                FirstProviderWins, AggregatesDescribeApplicable, SharesAreKept,
                SharesAreOfTheCandidate
  <2>4. CASE Collect
    <3>1. UNCHANGED <<ruleset, query, slots, scratch>> /\ answer'.entry = "none"
      BY <2>4 DEF Collect, Unanswered
    <3>2. TypeOK'
      BY <2>1, <3>1 DEF TypeOK, StrictlyAscending
    <3>3. QED  BY <2>3, <3>1, <3>2
  <2>5. ASSUME NEW q \in Queries, Prepare(q)  PROVE EvaluationInv'
    <3>1. UNCHANGED <<ruleset, slots>> /\ query' \in Queries /\ scratch' = <<>>
          /\ answer'.entry = "none"
      BY <2>5 DEF Prepare, Unanswered
    <3>2. TypeOK'
      BY <2>1, <3>1 DEF TypeOK, StrictlyAscending
    <3>3. QED  BY <2>3, <3>1, <3>2
  <2>6. CASE UNCHANGED vars
    <3>1. UNCHANGED <<ruleset, query, slots, scratch, answer>>
      BY <2>6 DEF vars
    <3>2. \A c : Applicable(c)' = Applicable(c)
      BY <3>1 DEF Applicable
    <3>3. \A c, spec, result : Describes(c, spec, result)' <=> Describes(c, spec, result)
      BY <3>1, DescriptionStays
    <3>4. AggregatesDescribeApplicable' /\ SharesAreKept'
      BY <3>1, <3>2, <3>3 DEF EvaluationInv, AggregatesDescribeApplicable, SharesAreKept,
                              SharesAreOfTheCandidate
    <3>5. /\ TypeOK' /\ MatchesAreExact' /\ MasksTellTheOutcome' /\ WinnerHasPrecedence'
          /\ FirstProviderWins'
      BY <3>1 DEF EvaluationInv, TypeOK, MatchesAreExact, MasksTellTheOutcome,
                  WinnerHasPrecedence, FirstProviderWins, StrictlyAscending, Rejected, from_json,
                  Applicable, Outranks
    <3>6. QED  BY <3>4, <3>5 DEF EvaluationInv
  <2>7. QED  BY <2>2, <2>4, <2>5, <2>6 DEF Next
<1>3. QED  BY <1>1, <1>2, PTL DEF Spec

-----------------------------------------------------------------------------
\* The variables have their types: whatever was evaluated before, the buffer
\* lists rules in ascending order, each once.
THEOREM EvaluationTypeCorrect == Spec => []TypeOK
<1>1. EvaluationInv => TypeOK
  BY DEF EvaluationInv
<1>2. QED  BY <1>1, EvaluationInvHolds, PTL

\* A match lists exactly the applicable rules, in declaration order, for any
\* ruleset, any query and any candidate the indexes answer for.
THEOREM MatchesAreAlwaysExact == Spec => []MatchesAreExact
<1>1. EvaluationInv => MatchesAreExact
  BY DEF EvaluationInv
<1>2. QED  BY <1>1, EvaluationInvHolds, PTL

\* A mask has the class of the rich outcome of its candidate.
THEOREM MasksAlwaysTellTheOutcome == Spec => []MasksTellTheOutcome
<1>1. EvaluationInv => MasksTellTheOutcome
  BY DEF EvaluationInv
<1>2. QED  BY <1>1, EvaluationInvHolds, PTL

\* The winner of a resolution outranks every other rule that applies, and none is
\* missing from the list that explains it.
THEOREM WinnersHavePrecedence == Spec => []WinnerHasPrecedence
<1>1. EvaluationInv => WinnerHasPrecedence
  BY DEF EvaluationInv
<1>2. QED  BY <1>1, EvaluationInvHolds, PTL

\* Each key of a resolution has the value of the first rule, in the order of
\* precedence, that has the key.
THEOREM FirstProvidersWin == Spec => []FirstProviderWins
<1>1. EvaluationInv => FirstProviderWins
  BY DEF EvaluationInv
<1>2. QED  BY <1>1, EvaluationInvHolds, PTL

\* Count, least, greatest, sum and average describe exactly the applicable rules,
\* in a match, which lists them as declared, and in a resolution, which lists them
\* by precedence.
THEOREM AggregatesAlwaysDescribe == Spec => []AggregatesDescribeApplicable
<1>1. EvaluationInv => AggregatesDescribeApplicable
  BY DEF EvaluationInv
<1>2. QED  BY <1>1, EvaluationInvHolds, PTL

\* Of a candidate whose components are all wound one way, whichever it is, every
\* overlap ratio and the coverage are shares of its cells.
THEOREM SharesOfTheWoundAlike ==
  Spec => [](WoundTheSame(answer.of.geometry) => SharesAreOfTheCandidate)
<1>1. EvaluationInv => (WoundTheSame(answer.of.geometry) => SharesAreOfTheCandidate)
  BY DEF EvaluationInv, SharesAreKept
<1>2. QED  BY <1>1, EvaluationInvHolds, PTL
=============================================================================
