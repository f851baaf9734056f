-------------------------- MODULE WhereExprProofs --------------------------
(***************************************************************************)
(* For every set of rules and of where clauses: the equality index admits  *)
(* what a scan admits, and a mismatch never matches.  What a tree is for a *)
(* rule, and what the index answers, are recursive functions of the tree's *)
(* places: that there are such functions is RecursionByPlace of            *)
(* OrderLemmas, and what they have in common is an induction over the      *)
(* places.                                                                 *)
(***************************************************************************)
EXTENDS WhereExpr, OrderLemmas

\* A number read from GeoJSON or from an operand: Int when it is integral and
\* fits, and never NaN.
IsNormal(v) ==
  /\ IsPropertyValue(v)
  /\ Numeric(v) =>
       /\ v.value # NaN
       /\ v.variant = "Int" <=> ~HasFraction(v.value) /\ FitsI64(v.value)

IsPredicate(e) ==
  /\ e.node = "Predicate" /\ e = Predicate(e.field, e.op, e.nots, e.values)
  /\ e.nots \in Nat
  /\ e.op \in (Comparisons \cup {"$in", "$nin", "$exists"}) \ {"plain"}
  /\ e.op \notin {"$in", "$nin"} => DOMAIN e.values = {1}
  /\ \A i \in DOMAIN e.values : IsNormal(e.values[i])

IsNode(e, i) ==
  \/ IsPredicate(e)
  \/ e.node \in {"And", "Or", "Nor"} /\ e.of \subseteq 1..(i - 1)
  \/ e.node = "ActiveAt"

IsQuery(tree) ==
  /\ Len(tree) \in Nat \ {0} /\ DOMAIN tree = 1..Len(tree)
  /\ \A i \in 1..Len(tree) : IsNode(tree[i], i)

-----------------------------------------------------------------------------
LEMMA NodeEvalIsBoolean ==
  ASSUME NEW e, NEW i, IsNode(e, i), NEW props, NEW active \in BOOLEAN, NEW g
  PROVE  NodeEval(e, props, active, g) \in BOOLEAN
<1>1. CASE IsPredicate(e)
  <2>1. NodeEval(e, props, active, g) = PredicateEval(e, props)
    BY <1>1 DEF IsPredicate, NodeEval
  <2>2. FieldPredicate(e, props) \in BOOLEAN
    <3>1. CASE e.op = "$exists"
      BY <3>1 DEF FieldPredicate
    <3>2. CASE e.op # "$exists"
      BY <3>2 DEF FieldPredicate
    <3>3. QED  BY <3>1, <3>2
  <2>3. QED  BY <2>1, <2>2 DEF PredicateEval
<1>2. CASE e.node \in {"And", "Or", "Nor"}
  BY <1>2 DEF NodeEval
<1>3. CASE e.node = "ActiveAt"
  BY <1>3 DEF NodeEval
<1>4. QED  BY <1>1, <1>2, <1>3 DEF IsNode

\* What a node is depends on the nodes below it only.
LEMMA NodeEvalIsLocal ==
  ASSUME NEW e, NEW i, IsNode(e, i), NEW props, NEW active, NEW g, NEW h,
         \A j \in 1..(i - 1) : g[j] = h[j]
  PROVE  NodeEval(e, props, active, g) = NodeEval(e, props, active, h)
<1>1. CASE e.node = "Predicate" \/ e.node = "ActiveAt"
  BY <1>1 DEF NodeEval
<1>2. CASE e.node \in {"And", "Or", "Nor"} /\ e.of \subseteq 1..(i - 1)
  BY <1>2 DEF NodeEval
<1>3. QED  BY <1>1, <1>2 DEF IsNode, IsPredicate

LEMMA EvalUnfolds ==
  ASSUME NEW tree, IsQuery(tree), NEW props, NEW active \in BOOLEAN
  PROVE  \E g : /\ \A i \in 1..Len(tree) : g[i] = NodeEval(tree[i], props, active, g)
                /\ eval(tree, props, active) = g[Len(tree)]
<1> DEFINE n == Len(tree)
           F == [1..n -> BOOLEAN]
           step == [i \in 1..n |-> [g \in F |-> NodeEval(tree[i], props, active, g)]]
           eqn(g) == g = [i \in DOMAIN tree |-> NodeEval(tree[i], props, active, g)]
           holds == CHOOSE g : eqn(g)
<1>1. n \in Nat /\ DOMAIN tree = 1..n /\ n \in 1..n /\ \A i \in 1..n : IsNode(tree[i], i)
  BY DEF IsQuery
<1> HIDE DEF n
<1>2. \A i \in 1..n, g \in F : NodeEval(tree[i], props, active, g) \in BOOLEAN
  BY <1>1, NodeEvalIsBoolean
<1>3. ByPlace(n, BOOLEAN, step)
  <2>1. step \in [1..n -> [F -> BOOLEAN]]
    BY <1>2
  <2>2. ASSUME NEW i \in 1..n, NEW g \in F, NEW h \in F, \A j \in 1..(i - 1) : g[j] = h[j]
        PROVE  step[i][g] = step[i][h]
    <3>1. NodeEval(tree[i], props, active, g) = NodeEval(tree[i], props, active, h)
      BY <1>1, <2>2, NodeEvalIsLocal
    <3>2. QED  BY <3>1
  <2> HIDE DEF step
  <2>3. QED  BY <2>1, <2>2 DEF ByPlace
<1>4. PICK g \in F : Unfolds(g, n, step)
  <2> HIDE DEF step
  <2>1. QED  BY <1>1, <1>3, RecursionByPlace
<1>5. \A i \in 1..n : g[i] = NodeEval(tree[i], props, active, g)
  BY <1>4 DEF Unfolds
<1>6. eqn(g)
  BY <1>1, <1>5
<1>7. eqn(holds)
  <2> HIDE DEF eqn
  <2>1. QED  BY <1>6
<1>8. eval(tree, props, active) = holds[n]
  BY DEF eval, n
<1> HIDE DEF holds
<1>9. \A i \in 1..n : holds[i] = NodeEval(tree[i], props, active, holds)
  BY <1>1, <1>7
<1>10. QED  BY <1>8, <1>9 DEF n

LEMMA MatchesAreLocal ==
  ASSUME NEW e, NEW i, IsNode(e, i), NEW ix, NEW g, NEW h,
         \A j \in 1..(i - 1) : g[j] = h[j]
  PROVE  NodeMatches(ix, e, g) = NodeMatches(ix, e, h)
<1>1. CASE e.node # "And"
  BY <1>1 DEF NodeMatches
<1>2. CASE e.node = "And"
  <2>1. e.of \subseteq 1..(i - 1)
    BY <1>2 DEF IsNode, IsPredicate
  <2>2. \A j \in e.of : g[j] = h[j]
    BY <2>1
  <2>3. {r \in UNION {g[j] : j \in e.of} : \A j \in e.of : r \in g[j]}
          = {r \in UNION {h[j] : j \in e.of} : \A j \in e.of : r \in h[j]}
    BY <2>2
  <2>4. (\A j \in e.of : g[j] # None) <=> (\A j \in e.of : h[j] # None)
    BY <2>2
  <2>5. CASE e.of # {} /\ \A j \in e.of : g[j] # None
    BY <1>2, <2>3, <2>4, <2>5 DEF NodeMatches
  <2>6. CASE ~(e.of # {} /\ \A j \in e.of : g[j] # None)
    BY <1>2, <2>4, <2>6 DEF NodeMatches
  <2>7. QED  BY <2>5, <2>6
<1>3. QED  BY <1>1, <1>2

\* The rules a property index has, and no index's answer.
Positions(ix) ==
  UNION {UNION {ix[f][v] : v \in DOMAIN ix[f]} : f \in DOMAIN ix}

LEMMA MatchingIsTyped ==
  ASSUME NEW ix, NEW field, NEW value
  PROVE  matching(ix, field, value) \subseteq Positions(ix)
<1>1. CASE field \in DOMAIN ix /\ value \in DOMAIN ix[field]
  BY <1>1 DEF matching, Positions
<1>2. CASE ~(field \in DOMAIN ix /\ value \in DOMAIN ix[field])
  BY <1>2 DEF matching
<1>3. QED  BY <1>1, <1>2

LEMMA MatchesAreTyped ==
  ASSUME NEW e, NEW i, IsNode(e, i), NEW ix,
         NEW g, \A j \in 1..(i - 1) : g[j] \in (SUBSET Positions(ix)) \cup {None}
  PROVE  NodeMatches(ix, e, g) \in (SUBSET Positions(ix)) \cup {None}
<1>1. CASE e.node = "Predicate"
  <2>1. NodeMatches(ix, e, g) = predicate_matches(ix, e)
    BY <1>1 DEF NodeMatches
  <2>2. matching(ix, e.field, e.values[1]) \subseteq Positions(ix)
    BY MatchingIsTyped
  <2>3. matching_in(ix, e.field, e.values) \subseteq Positions(ix)
    BY MatchingIsTyped DEF matching_in
  <2>4. QED  BY <2>1, <2>2, <2>3 DEF predicate_matches
<1>2. CASE e.node = "And" /\ e.of # {} /\ \A j \in e.of : g[j] # None
  <2>1. e.of \subseteq 1..(i - 1)
    BY <1>2 DEF IsNode, IsPredicate
  <2>2. \A j \in e.of : g[j] \subseteq Positions(ix)
    BY <1>2, <2>1
  <2>3. NodeMatches(ix, e, g)
          = {r \in UNION {g[j] : j \in e.of} : \A j \in e.of : r \in g[j]}
    BY <1>2 DEF NodeMatches
  <2>4. QED  BY <2>2, <2>3
<1>3. CASE e.node # "Predicate" /\ ~(e.node = "And" /\ e.of # {} /\ \A j \in e.of : g[j] # None)
  <2>1. NodeMatches(ix, e, g) = None
    BY <1>3 DEF NodeMatches
  <2>2. QED  BY <2>1
<1>4. QED  BY <1>1, <1>2, <1>3

LEMMA IndexableMatchesUnfolds ==
  ASSUME NEW tree, IsQuery(tree), NEW ix
  PROVE  \E g : /\ \A i \in 1..Len(tree) : g[i] = NodeMatches(ix, tree[i], g)
                /\ indexable_matches(ix, tree) = g[Len(tree)]
<1> DEFINE n == Len(tree)
           V == (SUBSET Positions(ix)) \cup {None}
           F == [1..n -> V]
           step == [i \in 1..n |-> [g \in F |-> NodeMatches(ix, tree[i], g)]]
           eqn(g) == g = [i \in DOMAIN tree |-> NodeMatches(ix, tree[i], g)]
           matches == CHOOSE g : eqn(g)
<1>1. n \in Nat /\ DOMAIN tree = 1..n /\ n \in 1..n /\ \A i \in 1..n : IsNode(tree[i], i)
  BY DEF IsQuery
<1> HIDE DEF n
<1>2. ASSUME NEW i \in 1..n, NEW g \in F  PROVE NodeMatches(ix, tree[i], g) \in V
  <2>1. \A j \in 1..(i - 1) : g[j] \in V
    <3>1. \A j \in 1..(i - 1) : j \in 1..n
      BY <1>1
    <3> HIDE DEF V
    <3>2. QED  BY <3>1
  <2>2. QED  BY <1>1, <2>1, MatchesAreTyped
<1>3. ByPlace(n, V, step)
  <2> HIDE DEF V
  <2>1. step \in [1..n -> [F -> V]]
    BY <1>2
  <2>2. ASSUME NEW i \in 1..n, NEW g \in F, NEW h \in F, \A j \in 1..(i - 1) : g[j] = h[j]
        PROVE  step[i][g] = step[i][h]
    <3>1. NodeMatches(ix, tree[i], g) = NodeMatches(ix, tree[i], h)
      BY <1>1, <2>2, MatchesAreLocal
    <3>2. QED  BY <3>1
  <2> HIDE DEF step
  <2>3. QED  BY <2>1, <2>2 DEF ByPlace
<1>4. PICK g \in F : Unfolds(g, n, step)
  <2>1. None \in V
    OBVIOUS
  <2> HIDE DEF step, V
  <2>2. QED  BY <1>1, <1>3, <2>1, RecursionByPlace
<1>5. \A i \in 1..n : g[i] = NodeMatches(ix, tree[i], g)
  BY <1>4 DEF Unfolds
<1>6. eqn(g)
  BY <1>1, <1>5
<1>7. eqn(matches)
  <2> HIDE DEF eqn
  <2>1. QED  BY <1>6
<1>8. indexable_matches(ix, tree) = matches[n]
  BY DEF indexable_matches, n
<1> HIDE DEF matches
<1>9. \A i \in 1..n : matches[i] = NodeMatches(ix, tree[i], matches)
  BY <1>1, <1>7
<1>10. QED  BY <1>8, <1>9 DEF n

-----------------------------------------------------------------------------
\* The index has the rules with a value of a property, and no others.
LEMMA IndexFinds ==
  ASSUME NEW props, NEW field, NEW value, NEW r
  PROVE  r \in matching(IndexOf(props), field, value)
           <=> r \in DOMAIN props /\ field \in DOMAIN props[r] /\ props[r][field] = value
<1> DEFINE names == UNION {DOMAIN props[s] : s \in DOMAIN props}
           having(f) == {s \in DOMAIN props : f \in DOMAIN props[s]}
           values(f) == {props[s][f] : s \in having(f)}
           places(f, v) == {s \in DOMAIN props : f \in DOMAIN props[s] /\ props[s][f] = v}
           ix == [f \in names |-> [v \in values(f) |-> places(f, v)]]
<1>1. IndexOf(props) = ix
  BY DEF IndexOf
<1>2. DOMAIN ix = names
  OBVIOUS
<1>3. ASSUME field \in names
      PROVE  DOMAIN ix[field] = values(field)
             /\ \A v \in values(field) : ix[field][v] = places(field, v)
  BY <1>3
<1> HIDE DEF ix
<1>4. CASE field \in names /\ value \in values(field)
  <2>1. matching(ix, field, value) = places(field, value)
    <3> HIDE DEF names, values, places
    <3>1. QED  BY <1>2, <1>3, <1>4 DEF matching
  <2>2. QED  BY <1>1, <2>1
<1>5. CASE ~(field \in names /\ value \in values(field))
  <2>1. matching(ix, field, value) = {}
    <3> HIDE DEF names, values, places
    <3>1. QED  BY <1>2, <1>3, <1>5 DEF matching
  <2>2. ~(r \in DOMAIN props /\ field \in DOMAIN props[r] /\ props[r][field] = value)
    BY <1>5
  <2>3. QED  BY <1>1, <2>1, <2>2
<1>6. QED  BY <1>4, <1>5

\* Where the index answers a predicate, its answer is that of evaluation.
LEMMA PredicatesAreServed ==
  ASSUME NEW props, NEW e, IsPredicate(e), NEW r,
         predicate_matches(IndexOf(props), e) # None
  PROVE  r \in predicate_matches(IndexOf(props), e)
           <=> r \in DOMAIN props /\ PredicateEval(e, props[r])
<1> DEFINE ix == IndexOf(props)
<1> HIDE DEF ix
<1>1. e.nots = 0 /\ e.op \in {"$eq", "$in"}
  BY DEF predicate_matches, ix
<1>2. PredicateEval(e, props[r]) <=> FieldPredicate(e, props[r])
  BY <1>1 DEF PredicateEval
<1>3. FieldPredicate(e, props[r])
        <=> e.field \in DOMAIN props[r] /\ FieldOp(e.op, props[r][e.field], e.values)
  BY <1>1 DEF FieldPredicate
<1>4. \A value : r \in matching(ix, e.field, value)
        <=> r \in DOMAIN props /\ e.field \in DOMAIN props[r] /\ props[r][e.field] = value
  BY IndexFinds DEF ix
<1>5. CASE e.op = "$eq"
  <2>1. predicate_matches(ix, e) = matching(ix, e.field, e.values[1])
    BY <1>1, <1>5 DEF predicate_matches
  <2>2. FieldOp(e.op, props[r][e.field], e.values) <=> props[r][e.field] = e.values[1]
    BY <1>5 DEF FieldOp
  <2>3. QED  BY <1>2, <1>3, <1>4, <2>1, <2>2 DEF ix
<1>6. CASE e.op = "$in"
  <2>1. predicate_matches(ix, e) = matching_in(ix, e.field, e.values)
    BY <1>1, <1>6 DEF predicate_matches
  <2>2. FieldOp(e.op, props[r][e.field], e.values)
          <=> \E i \in DOMAIN e.values : props[r][e.field] = e.values[i]
    BY <1>6 DEF FieldOp
  <2>3. r \in matching_in(ix, e.field, e.values)
          <=> \E i \in DOMAIN e.values : r \in matching(ix, e.field, e.values[i])
    BY DEF matching_in
  <2>4. QED  BY <1>2, <1>3, <1>4, <2>1, <2>2, <2>3 DEF ix
<1>7. QED  BY <1>1, <1>5, <1>6

\* Where the index answers a clause, its answer is that of a scan.
LEMMA IndexAgrees ==
  ASSUME NEW props, NEW tree, IsQuery(tree), NEW windows,
         indexable_matches(IndexOf(props), tree) # None
  PROVE  indexable_matches(IndexOf(props), tree)
           = {r \in DOMAIN props : eval(tree, props[r], r \in windows)}
<1> DEFINE ix == IndexOf(props)
           n == Len(tree)
<1>1. n \in Nat /\ n \in 1..n /\ \A i \in 1..n : IsNode(tree[i], i)
  BY DEF IsQuery
<1>2. PICK m : /\ \A i \in 1..n : m[i] = NodeMatches(ix, tree[i], m)
               /\ indexable_matches(ix, tree) = m[n]
  BY IndexableMatchesUnfolds
<1>3. ASSUME NEW r
      PROVE  r \in m[n] <=> r \in DOMAIN props /\ eval(tree, props[r], r \in windows)
  <2> DEFINE active == r \in windows
             rule == props[r]
  <2>1. PICK h : /\ \A i \in 1..n : h[i] = NodeEval(tree[i], rule, active, h)
                 /\ eval(tree, rule, active) = h[n]
    <3>1. active \in BOOLEAN
      OBVIOUS
    <3> HIDE DEF active, rule
    <3>2. QED  BY <3>1, EvalUnfolds
  <2> DEFINE Agree(i) == m[i] # None => (r \in m[i] <=> r \in DOMAIN props /\ h[i])
             T == {k \in Nat : \A i \in 1..n : i <= k => Agree(i)}
  <2>2. 0 \in T
    BY <1>1
  <2>3. ASSUME NEW k \in Nat, k \in T  PROVE k + 1 \in T
    <3> SUFFICES ASSUME k + 1 \in 1..n  PROVE Agree(k + 1)
      BY <1>1, <2>3
    <3> DEFINE i == k + 1
               e == tree[i]
    <3> SUFFICES ASSUME m[i] # None
                 PROVE  r \in m[i] <=> r \in DOMAIN props /\ h[i]
      OBVIOUS
    <3>1. m[i] = NodeMatches(ix, e, m) /\ h[i] = NodeEval(e, rule, active, h) /\ IsNode(e, i)
      BY <1>1, <1>2, <2>1
    <3>2. \A j \in 1..k : Agree(j)
      BY <1>1, <2>3
    <3>3. CASE e.node = "Predicate"
      <4>1. IsPredicate(e)
        BY <3>1, <3>3 DEF IsNode
      <4>2. m[i] = predicate_matches(ix, e) /\ h[i] = PredicateEval(e, rule)
        BY <3>1, <3>3 DEF NodeMatches, NodeEval
      <4>3. QED  BY <4>1, <4>2, PredicatesAreServed
    <3>4. CASE e.node # "Predicate"
      <4> HIDE DEF e, Agree
      <4>1. e.node = "And" /\ e.of # {} /\ \A j \in e.of : m[j] # None
        BY <3>1, <3>4 DEF NodeMatches
      <4>2. e.of \subseteq 1..k
        BY <3>1, <4>1 DEF IsNode, IsPredicate
      <4>3. \A j \in e.of : r \in m[j] <=> r \in DOMAIN props /\ h[j]
        BY <3>2, <4>1, <4>2 DEF Agree
      <4>4. m[i] = {q \in UNION {m[j] : j \in e.of} : \A j \in e.of : q \in m[j]}
        BY <3>1, <4>1 DEF NodeMatches
      <4>5. r \in m[i] <=> \A j \in e.of : r \in m[j]
        BY <4>1, <4>4
      <4>6. h[i] <=> \A j \in e.of : h[j]
        BY <3>1, <4>1 DEF NodeEval
      <4>7. QED  BY <4>1, <4>3, <4>5, <4>6
    <3>5. QED  BY <3>3, <3>4
  <2>4. \A k \in Nat : k \in T
    <3> HIDE DEF T
    <3>1. QED  BY <2>2, <2>3, NatSetInduction
  <2>5. Agree(n)
    BY <1>1, <2>4
  <2>6. QED  BY <1>2, <2>1, <2>5
<1>4. QED  BY <1>2, <1>3

-----------------------------------------------------------------------------
LEMMA NodeComparedIsBoolean ==
  ASSUME NEW e, NEW i, IsNode(e, i), NEW props, NEW g
  PROVE  NodeCompared(e, props, g) \in BOOLEAN
<1>1. CASE IsPredicate(e)
  BY <1>1 DEF IsPredicate, NodeCompared
<1>2. CASE e.node \in {"And", "Or", "Nor"}
  BY <1>2 DEF NodeCompared
<1>3. CASE e.node = "ActiveAt"
  BY <1>3 DEF NodeCompared
<1>4. QED  BY <1>1, <1>2, <1>3 DEF IsNode

LEMMA NodeComparedIsLocal ==
  ASSUME NEW e, NEW i, IsNode(e, i), NEW props, NEW g, NEW h,
         \A j \in 1..(i - 1) : g[j] = h[j]
  PROVE  NodeCompared(e, props, g) = NodeCompared(e, props, h)
<1>1. CASE e.node = "Predicate" \/ e.node = "ActiveAt"
  BY <1>1 DEF NodeCompared
<1>2. CASE e.node \in {"And", "Or", "Nor"} /\ e.of \subseteq 1..(i - 1)
  BY <1>2 DEF NodeCompared
<1>3. QED  BY <1>1, <1>2 DEF IsNode, IsPredicate

LEMMA ComparedUnfolds ==
  ASSUME NEW tree, IsQuery(tree), NEW props
  PROVE  \E g : /\ \A i \in 1..Len(tree) : g[i] = NodeCompared(tree[i], props, g)
                /\ Compared(tree, props) = g[Len(tree)]
<1> DEFINE n == Len(tree)
           F == [1..n -> BOOLEAN]
           step == [i \in 1..n |-> [g \in F |-> NodeCompared(tree[i], props, g)]]
           eqn(g) == g = [i \in DOMAIN tree |-> NodeCompared(tree[i], props, g)]
           compared == CHOOSE g : eqn(g)
<1>1. n \in Nat /\ DOMAIN tree = 1..n /\ n \in 1..n /\ \A i \in 1..n : IsNode(tree[i], i)
  BY DEF IsQuery
<1> HIDE DEF n
<1>2. \A i \in 1..n, g \in F : NodeCompared(tree[i], props, g) \in BOOLEAN
  BY <1>1, NodeComparedIsBoolean
<1>3. ByPlace(n, BOOLEAN, step)
  <2>1. step \in [1..n -> [F -> BOOLEAN]]
    BY <1>2
  <2>2. ASSUME NEW i \in 1..n, NEW g \in F, NEW h \in F, \A j \in 1..(i - 1) : g[j] = h[j]
        PROVE  step[i][g] = step[i][h]
    <3>1. NodeCompared(tree[i], props, g) = NodeCompared(tree[i], props, h)
      BY <1>1, <2>2, NodeComparedIsLocal
    <3>2. QED  BY <3>1
  <2> HIDE DEF step
  <2>3. QED  BY <2>1, <2>2 DEF ByPlace
<1>4. PICK g \in F : Unfolds(g, n, step)
  <2> HIDE DEF step
  <2>1. QED  BY <1>1, <1>3, RecursionByPlace
<1>5. \A i \in 1..n : g[i] = NodeCompared(tree[i], props, g)
  BY <1>4 DEF Unfolds
<1>6. eqn(g)
  BY <1>1, <1>5
<1>7. eqn(compared)
  <2> HIDE DEF eqn
  <2>1. QED  BY <1>6
<1>8. Compared(tree, props) = compared[n]
  BY DEF Compared, n
<1> HIDE DEF compared
<1>9. \A i \in 1..n : compared[i] = NodeCompared(tree[i], props, compared)
  BY <1>1, <1>7
<1>10. QED  BY <1>8, <1>9 DEF n

\* A predicate that holds negates something, or has compared the rule's value.
LEMMA PredicatesCompare ==
  ASSUME NEW e, IsPredicate(e), NEW props, PredicateEval(e, props)
  PROVE  Negative(e) \/ Comparable(e, props)
<1> SUFFICES ASSUME ~Negative(e)  PROVE Comparable(e, props)
  OBVIOUS
<1>1. e.nots = 0 /\ FieldPredicate(e, props)
  BY DEF IsPredicate, Negative, PredicateEval
<1>2. CASE e.op = "$exists"
  BY <1>1, <1>2 DEF Negative, FieldPredicate, Comparable
<1>3. CASE e.op # "$exists"
  <2> DEFINE actual == props[e.field]
             Near(v) == same_variant(actual, v) \/ (Numeric(actual) /\ Numeric(v))
  <2>1. e.field \in DOMAIN props /\ FieldOp(e.op, actual, e.values)
    BY <1>1, <1>3 DEF FieldPredicate
  <2>2. \E i \in DOMAIN e.values : Near(e.values[i])
    <3>1. CASE e.op = "$in"
      BY <2>1, <3>1 DEF FieldOp, same_variant
    <3>2. CASE e.op = "$nin"
      BY <2>1, <3>2 DEF FieldOp
    <3>3. CASE e.op \notin {"$in", "$nin"}
      <4>1. 1 \in DOMAIN e.values
        BY <3>3 DEF IsPredicate
      <4>2. e.op \in {"$eq", "$ne", "$gt", "$gte", "$lt", "$lte"}
        BY <1>3, <3>3 DEF IsPredicate, Comparisons
      <4>3. CASE e.op = "$eq" \/ e.op = "$ne"
        BY <2>1, <4>1, <4>3 DEF FieldOp, same_variant
      <4>4. CASE e.op \in {"$gt", "$gte", "$lt", "$lte"}
        <5>1. \E ordering \in {"less", "equal", "greater"} :
                Compares(actual, e.values[1], ordering)
          BY <2>1, <4>4 DEF FieldOp
        <5>2. Numeric(actual) /\ Numeric(e.values[1])
          BY <5>1 DEF Compares
        <5>3. QED  BY <4>1, <5>2
      <4>5. QED  BY <4>2, <4>3, <4>4
    <3>4. QED  BY <3>1, <3>2, <3>3
  <2>3. QED  BY <2>1, <2>2 DEF Comparable
<1>4. QED  BY <1>2, <1>3

\* A clause that holds of a rule was compared with it.
LEMMA MatchesAreCompared ==
  ASSUME NEW tree, IsQuery(tree), NEW props, NEW active \in BOOLEAN,
         active => WindowField \in DOMAIN props,
         eval(tree, props, active)
  PROVE  Compared(tree, props)
<1> DEFINE n == Len(tree)
<1>1. n \in Nat /\ n \in 1..n /\ \A i \in 1..n : IsNode(tree[i], i)
  BY DEF IsQuery
<1>2. PICK h : /\ \A i \in 1..n : h[i] = NodeEval(tree[i], props, active, h)
               /\ eval(tree, props, active) = h[n]
  BY EvalUnfolds
<1>3. PICK c : /\ \A i \in 1..n : c[i] = NodeCompared(tree[i], props, c)
               /\ Compared(tree, props) = c[n]
  BY ComparedUnfolds
<1> DEFINE T == {k \in Nat : \A i \in 1..n : i <= k /\ h[i] => c[i]}
<1>4. 0 \in T
  BY <1>1
<1>5. ASSUME NEW k \in Nat, k \in T  PROVE k + 1 \in T
  <2> SUFFICES ASSUME k + 1 \in 1..n, h[k + 1]  PROVE c[k + 1]
    BY <1>1, <1>5
  <2> DEFINE e == tree[k + 1]
  <2>1. h[k + 1] = NodeEval(e, props, active, h) /\ c[k + 1] = NodeCompared(e, props, c)
        /\ IsNode(e, k + 1)
    BY <1>1, <1>2, <1>3
  <2>2. \A j \in 1..k : h[j] => c[j]
    BY <1>1, <1>5
  <2> HIDE DEF e
  <2>3. CASE IsPredicate(e)
    <3>1. PredicateEval(e, props)
      BY <2>1, <2>3 DEF IsPredicate, NodeEval
    <3>2. Negative(e) \/ Comparable(e, props)
      BY <2>3, <3>1, PredicatesCompare
    <3>3. QED  BY <2>1, <2>3, <3>2 DEF IsPredicate, NodeCompared
  <2>4. CASE e.node \in {"And", "Or", "Nor"} /\ e.of \subseteq 1..k
    <3>1. \A j \in e.of : h[j] => c[j]
      BY <2>2, <2>4
    <3>2. QED  BY <2>1, <2>4, <3>1 DEF NodeEval, NodeCompared
  <2>5. CASE e.node = "ActiveAt"
    BY <2>1, <2>5 DEF NodeEval, NodeCompared
  <2>6. QED  BY <2>1, <2>3, <2>4, <2>5 DEF IsNode
<1>6. \A k \in Nat : k \in T
  <2> HIDE DEF T
  <2>1. QED  BY <1>4, <1>5, NatSetInduction
<1>7. h[n] => c[n]
  BY <1>1, <1>6
<1>8. QED  BY <1>2, <1>3, <1>7

-----------------------------------------------------------------------------
\* Of a predicate alone, what it is for a rule is what it evaluates to.
LEMMA EvalOfPredicate ==
  ASSUME NEW tree, IsQuery(tree), NEW props, NEW active \in BOOLEAN,
         Root(tree).node = "Predicate"
  PROVE  eval(tree, props, active) = PredicateEval(Root(tree), props)
<1>1. PICK h : /\ \A i \in 1..Len(tree) : h[i] = NodeEval(tree[i], props, active, h)
               /\ eval(tree, props, active) = h[Len(tree)]
  BY EvalUnfolds
<1>2. Len(tree) \in 1..Len(tree)
  BY DEF IsQuery
<1>3. h[Len(tree)] = NodeEval(Root(tree), props, active, h)
  BY <1>1, <1>2 DEF Root
<1>4. QED  BY <1>1, <1>3 DEF NodeEval

\* Numbers as they are read are equal where neither is less.
LEMMA EqualityIsBothBounds ==
  ASSUME NEW e, IsPredicate(e), e.op = "$eq", e.nots = 0, Numeric(e.values[1]),
         NEW props, \A f \in DOMAIN props : IsNormal(props[f])
  PROVE  PredicateEval(e, props)
           <=> \A op \in {"$gte", "$lte"} : PredicateEval([e EXCEPT !.op = op], props)
<1> DEFINE v == e.values[1]
           actual == props[e.field]
           there == e.field \in DOMAIN props
<1>1. IsNormal(v)
  BY DEF IsPredicate
<1>2. there => IsNormal(actual)
  OBVIOUS
<1>3. PredicateEval(e, props) <=> there /\ actual = v
  BY DEF PredicateEval, FieldPredicate, FieldOp
<1>4. ASSUME NEW op \in {"$gte", "$lte"}
      PROVE  PredicateEval([e EXCEPT !.op = op], props)
               <=> there /\ FieldOp(op, actual, e.values)
  <2> DEFINE b == [e EXCEPT !.op = op]
  <2>1. b.op = op /\ b.nots = 0 /\ b.field = e.field /\ b.values = e.values
    BY DEF IsPredicate, Predicate
  <2> HIDE DEF b
  <2>2. QED  BY <2>1 DEF PredicateEval, FieldPredicate
<1>5. FieldOp("$gte", actual, e.values) <=> Compares(actual, v, "greater") \/ Compares(actual, v, "equal")
  BY DEF FieldOp
<1>6. FieldOp("$lte", actual, e.values) <=> Compares(actual, v, "less") \/ Compares(actual, v, "equal")
  BY DEF FieldOp
<1>7. ASSUME there
      PROVE  actual = v <=> /\ Compares(actual, v, "greater") \/ Compares(actual, v, "equal")
                            /\ Compares(actual, v, "less") \/ Compares(actual, v, "equal")
  <2> HIDE DEF actual, v
  <2>1. IsNormal(actual)
    BY <1>2, <1>7
  <2>2. actual = Value(actual.variant, actual.value) /\ v = Value(v.variant, v.value)
        /\ actual.value \in Int /\ v.value \in Int /\ v.value # NaN
    BY <1>1, <2>1 DEF IsNormal, IsPropertyValue, v
  <2>3. ASSUME actual = v  PROVE Compares(actual, v, "equal")
    BY <2>2, <2>3 DEF Compares, v
  <2>4. ASSUME Compares(actual, v, "greater") \/ Compares(actual, v, "equal"),
               Compares(actual, v, "less") \/ Compares(actual, v, "equal")
        PROVE  actual = v
    <3>1. Numeric(actual) /\ Numeric(v) /\ actual.value = v.value
      BY <2>2, <2>4 DEF Compares
    <3>2. actual.variant = "Int" <=> v.variant = "Int"
      BY <1>1, <2>1, <3>1 DEF IsNormal
    <3>3. actual.variant = v.variant
      BY <3>1, <3>2 DEF Numeric
    <3>4. QED  BY <2>2, <3>1, <3>3
  <2>5. QED  BY <2>3, <2>4
<1> HIDE DEF actual, v, there
<1>8. QED  BY <1>3, <1>4, <1>5, <1>6, <1>7

-----------------------------------------------------------------------------
\* What a JSON value becomes as a property.
LEMMA ReadValuesAreNormal ==
  ASSUME NEW j, IsJson(j), from_json_value(j) # Unsupported
  PROVE  IsNormal(from_json_value(j))
<1> USE DEF IsJson, Forms, Json, Value, Variants, IsPropertyValue, Numeric, IsNormal
<1>1. CASE j.form \in {"null", "bool", "string"}
  BY <1>1 DEF from_json_value
<1>2. CASE j.form \in {"integer", "decimal"}
  <2>1. from_json_value(j) = number_to_property_value(j)
    BY <1>2 DEF from_json_value
  <2>2. CASE ~HasFraction(j.value) /\ FitsI64(j.value)
    BY <1>2, <2>1, <2>2 DEF number_to_property_value
  <2>3. CASE ~(~HasFraction(j.value) /\ FitsI64(j.value))
    BY <1>2, <2>1, <2>3 DEF number_to_property_value
  <2>4. QED  BY <2>2, <2>3
<1>3. CASE j.form = "nested"
  BY <1>3 DEF from_json_value
<1>4. QED  BY <1>1, <1>2, <1>3

LEMMA LoadedValuesAreTyped ==
  ASSUME NEW j, IsJson(j), deserialize(j) # Unsupported
  PROVE  IsPropertyValue(deserialize(j))
<1> USE DEF IsJson, Forms, Json, Value, Variants, IsPropertyValue
<1>1. CASE j.form \in {"null", "bool", "string"}
  BY <1>1 DEF deserialize
<1>2. CASE j.form \in {"integer", "decimal"}
  BY <1>2 DEF deserialize
<1>3. CASE j.form = "nested"
  BY <1>3 DEF deserialize
<1>4. QED  BY <1>1, <1>2, <1>3

\* A value the engine has written is loaded as what it was read as.
LEMMA WrittenValuesAreNormal ==
  ASSUME NEW j, IsJson(j), deserialize(j) # Unsupported, j = serialize(from_json_value(j))
  PROVE  IsNormal(deserialize(j))
<1>1. j.form \in Forms /\ j.value \in Int
  BY DEF IsJson
<1>2. CASE j.form \in {"null", "bool", "string"}
  BY <1>2, ReadValuesAreNormal DEF deserialize, from_json_value
<1>3. CASE j.form = "nested"
  BY <1>3 DEF deserialize
<1>4. CASE j.form \in {"integer", "decimal"}
  <2> DEFINE v == number_to_property_value(j)
  <2>1. from_json_value(j) = v /\ v # Unsupported /\ v.value = j.value
    BY <1>4 DEF from_json_value, number_to_property_value, Unsupported, Value
  <2>2. j.value # NaN
    BY <1>4 DEF IsJson
  <2>3. v.variant = IF ~HasFraction(j.value) /\ FitsI64(j.value) THEN "Int" ELSE "Float"
    BY DEF number_to_property_value, Value
  <2>4. v = Value(v.variant, j.value)
    BY DEF number_to_property_value, Value
  <2> HIDE DEF v
  <2>5. CASE v.variant = "Int"
    <3>1. serialize(v) = Json("integer", v.value)
      BY <2>1, <2>2, <2>5 DEF serialize, is_serializable
    <3>2. j.form = "integer" /\ FitsI64(j.value)
      BY <2>1, <2>3, <2>5, <3>1 DEF Json
    <3>3. deserialize(j) = v
      BY <2>4, <2>5, <3>2 DEF deserialize
    <3>4. QED  BY <2>1, <3>3, ReadValuesAreNormal
  <2>6. CASE v.variant = "Float"
    <3>1. serialize(v) = Json("decimal", v.value)
      BY <2>1, <2>2, <2>6 DEF serialize, is_serializable
    <3>2. j.form = "decimal"
      BY <2>1, <3>1 DEF Json
    <3>3. deserialize(j) = v
      BY <2>4, <2>6, <3>2 DEF deserialize
    <3>4. QED  BY <2>1, <3>3, ReadValuesAreNormal
  <2>7. QED  BY <2>3, <2>5, <2>6
<1>5. QED  BY <1>1, <1>2, <1>3, <1>4 DEF Forms

-----------------------------------------------------------------------------
\* What is parsed is a query's expression.
LEMMA PredicatesParse ==
  ASSUME NEW field, NEW p, IsOperator(p), parse_field_predicate(field, p).node # "Error"
  PROVE  IsPredicate(parse_field_predicate(field, p))
<1> DEFINE values == [i \in DOMAIN p.operands |-> from_json_value(p.operands[i])]
           op == IF p.op = "plain" THEN "$eq" ELSE p.op
           refused == \/ field \notin Fields
                      \/ \E i \in DOMAIN values : values[i] = Unsupported
                      \/ p.op \notin Comparisons \cup {"$in", "$nin", "$exists"}
                      \/ p.op = "$exists" /\ p.operands[1].form # "bool"
           e == Predicate(field, op, p.nots, values)
<1>1. parse_field_predicate(field, p) = IF refused THEN Node("Error", {}) ELSE e
  BY DEF parse_field_predicate
<1>2. ~refused
  <2> HIDE DEF refused, e
  <2>1. QED  BY <1>1 DEF Node
<1>3. \A i \in DOMAIN values : IsNormal(values[i])
  <2>1. \A i \in DOMAIN p.operands : IsJson(p.operands[i])
    BY DEF IsOperator
  <2>2. QED  BY <1>2, <2>1, ReadValuesAreNormal
<1>4. op \in (Comparisons \cup {"$in", "$nin", "$exists"}) \ {"plain"}
  BY <1>2 DEF Comparisons
<1>5. op \notin {"$in", "$nin"} => DOMAIN values = {1}
  BY DEF IsOperator
<1>6. p.nots \in Nat
  BY DEF IsOperator
<1> HIDE DEF values, op, refused
<1>7. /\ e.field = field /\ e.op = op /\ e.nots = p.nots /\ e.values = values
      /\ e.node = "Predicate"
  BY DEF Predicate
<1> HIDE DEF e
<1>8. e = Predicate(e.field, e.op, e.nots, e.values)
  BY <1>7 DEF e
<1>9. QED  BY <1>1, <1>2, <1>3, <1>4, <1>5, <1>6, <1>7, <1>8 DEF IsPredicate

LEMMA NodesParse ==
  ASSUME NEW w, IsWhere(w), NEW i \in DOMAIN w, parse_node(w, i).node # "Error"
  PROVE  IsNode(parse_node(w, i), i)
<1> DEFINE e == parse_node(w, i)
<1>1. w[i].of \subseteq 1..(i - 1)
  BY DEF IsWhere, IsTree
<1>2. CASE w[i].key = "member"
  <2>1. e = parse_field_predicate(w[i].field, w[i].predicate)
    BY <1>2 DEF parse_node
  <2>2. IsOperator(w[i].predicate)
    BY <1>2 DEF IsWhere
  <2>3. QED  BY <2>1, <2>2, PredicatesParse DEF IsNode
<1>3. CASE w[i].key = "members"
  <2>1. e = parse_implicit_and(w, i)
    BY <1>3 DEF parse_node
  <2>2. CASE \E j \in w[i].of : w[i].of = {j}
    <3> DEFINE k == CHOOSE j \in w[i].of : TRUE
    <3>1. k \in w[i].of
      BY <2>2
    <3>2. e = parse_field_predicate(w[k].field, w[k].predicate)
      BY <2>1, <2>2 DEF parse_implicit_and
    <3> HIDE DEF k
    <3>3. k \in DOMAIN w
      <4>1. i \in 1..Len(w) /\ DOMAIN w = 1..Len(w) /\ Len(w) \in Nat
        BY DEF IsWhere, IsTree
      <4>2. k \in 1..(i - 1)
        BY <1>1, <3>1
      <4>3. QED  BY <4>1, <4>2
    <3>4. w[k].key = "member"
      BY <1>3, <3>1 DEF IsWhere
    <3>5. IsOperator(w[k].predicate)
      BY <3>3, <3>4 DEF IsWhere
    <3>6. QED  BY <3>2, <3>5, PredicatesParse DEF IsNode
  <2>3. CASE ~\E j \in w[i].of : w[i].of = {j}
    <3>1. e = Node("And", w[i].of)
      BY <2>1, <2>3 DEF parse_implicit_and
    <3>2. e.node = "And" /\ e.of = w[i].of
      BY <3>1 DEF Node
    <3>3. QED  BY <1>1, <3>2 DEF IsNode
  <2>4. QED  BY <2>2, <2>3
<1>4. CASE w[i].key = "$activeAt"
  <2>1. e = Node("ActiveAt", {})
    BY <1>4 DEF parse_node
  <2>2. e.node = "ActiveAt"
    BY <2>1 DEF Node
  <2>3. QED  BY <2>2 DEF IsNode
<1>5. CASE w[i].key \in {"And", "Or", "Nor"}
  <2>1. e = Node(w[i].key, w[i].of)
    BY <1>5 DEF parse_node
  <2>2. e.node = w[i].key /\ e.of = w[i].of
    BY <2>1 DEF Node
  <2>3. QED  BY <1>1, <1>5, <2>2 DEF IsNode
<1>6. CASE w[i].key \notin {"member", "members", "$activeAt", "And", "Or", "Nor"}
  <2>1. e = Node("Error", {})
    BY <1>6 DEF parse_node
  <2>2. QED  BY <2>1 DEF Node
<1>7. QED  BY <1>2, <1>3, <1>4, <1>5, <1>6

\* A tree that is parsed is refused, or is a query's expression.
LEMMA WheresParse ==
  ASSUME NEW w, IsWhere(w)
  PROVE  IF IsError(parse(w)) THEN parse(w) = ParseError ELSE IsQuery(parse(w))
<1> DEFINE n == Len(w)
           parsed == [i \in DOMAIN w |-> parse_node(w, i)]
           refused == \E i \in DOMAIN w : parsed[i].node = "Error"
<1>1. n \in Nat \ {0} /\ DOMAIN w = 1..n
  BY DEF IsWhere, IsTree
<1>2. parse(w) = IF refused THEN ParseError ELSE parsed
  BY DEF parse
<1>3. CASE refused
  <2>1. IsError(ParseError)
    BY DEF IsError, Root, ParseError, Node
  <2>2. QED  BY <1>2, <1>3, <2>1
<1>4. CASE ~refused
  <2>1. DOMAIN parsed = 1..n /\ Len(parsed) = n
    BY <1>1
  <2>2. \A i \in 1..n : IsNode(parsed[i], i) /\ parsed[i].node # "Error"
    <3> SUFFICES ASSUME NEW i \in 1..n  PROVE IsNode(parsed[i], i) /\ parsed[i].node # "Error"
      OBVIOUS
    <3>1. i \in DOMAIN w /\ parsed[i] = parse_node(w, i)
      BY <1>1
    <3>2. parse_node(w, i).node # "Error"
      BY <1>4, <3>1
    <3>3. QED  BY <3>1, <3>2, NodesParse
  <2> HIDE DEF parsed
  <2>3. IsQuery(parsed)
    BY <1>1, <2>1, <2>2 DEF IsQuery
  <2>4. ~IsError(parsed)
    BY <1>1, <2>1, <2>2 DEF IsError, Root
  <2> HIDE DEF refused
  <2>5. QED  BY <1>2, <1>4, <2>3, <2>4
<1>5. QED  BY <1>3, <1>4

LEMMA NoQueryYet == ~IsQuery(Unparsed) /\ ~IsQuery(ParseError) /\ IsError(ParseError)
<1>1. Len(Unparsed) = 1 /\ Len(ParseError) = 1
  BY DEF Unparsed, ParseError
<1>2. Unparsed[1].node = "Unparsed" /\ ParseError[1].node = "Error"
  BY DEF Unparsed, ParseError, Node
<1>3. ~IsNode(Unparsed[1], 1) /\ ~IsNode(ParseError[1], 1)
  BY <1>2 DEF IsNode, IsPredicate
<1>4. QED  BY <1>1, <1>2, <1>3 DEF IsQuery, IsError, Root

-----------------------------------------------------------------------------
\* The rules a scan of the query's clause admits.
Scanned == {r \in RuleIds : eval(expr, rules[r], r \in open)}

RulesAreRead ==
  \A r \in RuleIds : \A f \in DOMAIN rules[r] :
    /\ IsPropertyValue(rules[r][f])
    /\ HandWritten \/ IsNormal(rules[r][f])

QueryIsPrepared ==
  /\ IsQuery(expr) \/ expr \in {Unparsed, ParseError}
  /\ IsQuery(expr) => rules # <<>>
  /\ ~IsQuery(expr) => open = {} /\ filter = None /\ admitted = None
  /\ \A r \in open : r \in RuleIds /\ WindowField \in DOMAIN rules[r]
  /\ filter # None => filter = Scanned
  /\ admitted # None => admitted = Scanned

\* The inductive invariant: the index is that of the rules, and what it answered
\* when the query was prepared is what a scan of the rules admits since.
IInv == RulesAreRead /\ index = IndexOf(rules) /\ QueryIsPrepared

LEMMA InitEstablishes == Init => IInv
<1> SUFFICES ASSUME Init  PROVE IInv
  OBVIOUS
<1>1. rules = <<>> /\ index = <<>> /\ expr = Unparsed /\ open = {} /\ filter = None
      /\ admitted = None
  BY DEF Init
<1>2. DOMAIN rules = {}
  BY <1>1
<1>3. IndexOf(rules) = <<>>
  BY <1>2 DEF IndexOf
<1>4. RulesAreRead
  BY <1>2 DEF RulesAreRead, RuleIds
<1>5. QueryIsPrepared
  BY <1>1, NoQueryYet DEF QueryIsPrepared
<1>6. QED  BY <1>1, <1>3, <1>4, <1>5 DEF IInv

\* A ruleset is built when there is none, so that no query is under way.
LEMMA BuildPreserves ==
  ASSUME IInv, NEW props, Build(props),
         \A r \in DOMAIN props : \A f \in DOMAIN props[r] :
           IsPropertyValue(props[r][f]) /\ (HandWritten \/ IsNormal(props[r][f]))
  PROVE  IInv'
<1>1. rules = <<>> /\ rules' = props /\ index' = IndexOf(props) /\ UNCHANGED queryVars
  BY DEF Build
<1>2. ~IsQuery(expr) /\ expr \in {Unparsed, ParseError} /\ open = {} /\ filter = None
      /\ admitted = None
  BY <1>1 DEF IInv, QueryIsPrepared
<1>3. ~IsQuery(expr') /\ expr' \in {Unparsed, ParseError} /\ open' = {} /\ filter' = None
      /\ admitted' = None
  BY <1>1, <1>2 DEF queryVars
<1>4. RulesAreRead'
  BY <1>1 DEF RulesAreRead, RuleIds
<1>5. QueryIsPrepared'
  BY <1>3 DEF QueryIsPrepared
<1>6. QED  BY <1>1, <1>4, <1>5 DEF IInv

LEMMA LoadsPreserve ==
  ASSUME IInv, NEW docs \in RuleDocuments, LoadGeoJson(docs) \/ LoadCanonical(docs)
  PROVE  IInv'
<1>1. \A r \in DOMAIN docs : \A f \in DOMAIN docs[r] : IsJson(docs[r][f])
  BY WhereAssumption
<1>2. CASE LoadGeoJson(docs)
  <2> DEFINE props == [r \in DOMAIN docs |-> properties_from_json(docs[r])]
  <2>1. Build(props)
    BY <1>2 DEF LoadGeoJson
  <2>2. ASSUME NEW r \in DOMAIN props, NEW f \in DOMAIN props[r]
        PROVE  IsPropertyValue(props[r][f]) /\ (HandWritten \/ IsNormal(props[r][f]))
    <3>1. props[r] = properties_from_json(docs[r]) /\ r \in DOMAIN docs
      OBVIOUS
    <3>2. /\ f \in DOMAIN docs[r] /\ from_json_value(docs[r][f]) # Unsupported
          /\ props[r][f] = from_json_value(docs[r][f])
      BY <2>2, <3>1 DEF properties_from_json
    <3>3. IsNormal(props[r][f])
      BY <1>1, <3>1, <3>2, ReadValuesAreNormal
    <3>4. QED  BY <3>3 DEF IsNormal
  <2> HIDE DEF props
  <2>3. QED  BY <2>1, <2>2, BuildPreserves
<1>3. CASE LoadCanonical(docs)
  <2> DEFINE props == [r \in DOMAIN docs |-> [f \in DOMAIN docs[r] |-> deserialize(docs[r][f])]]
  <2>1. Build(props)
    BY <1>3 DEF LoadCanonical
  <2>2. ASSUME NEW r \in DOMAIN props, NEW f \in DOMAIN props[r]
        PROVE  IsPropertyValue(props[r][f]) /\ (HandWritten \/ IsNormal(props[r][f]))
    <3>1. r \in DOMAIN docs /\ f \in DOMAIN docs[r] /\ props[r][f] = deserialize(docs[r][f])
      BY <2>2
    <3>2. /\ deserialize(docs[r][f]) # Unsupported
          /\ HandWritten \/ docs[r][f] = serialize(from_json_value(docs[r][f]))
      BY <1>3, <3>1 DEF LoadCanonical
    <3>3. IsPropertyValue(props[r][f])
      BY <1>1, <3>1, <3>2, LoadedValuesAreTyped
    <3>4. HandWritten \/ IsNormal(props[r][f])
      BY <1>1, <3>1, <3>2, WrittenValuesAreNormal
    <3>5. QED  BY <3>3, <3>4
  <2> HIDE DEF props
  <2>3. QED  BY <2>1, <2>2, BuildPreserves
<1>4. QED  BY <1>2, <1>3

LEMMA PreparePreserves ==
  ASSUME IInv, NEW w \in Wheres, Prepare(w)  PROVE IInv'
<1>1. /\ rules # <<>> /\ expr = Unparsed /\ expr' = parse(w)
      /\ rules' = rules /\ index' = index /\ admitted' = admitted
  BY DEF Prepare
<1>2. open = {} /\ filter = None /\ admitted = None /\ RulesAreRead /\ index = IndexOf(rules)
  BY <1>1, NoQueryYet DEF IInv, QueryIsPrepared
<1>3. IF IsError(expr') THEN expr' = ParseError ELSE IsQuery(expr')
  <2>1. IsWhere(w)
    BY WhereAssumption
  <2>2. IF IsError(parse(w)) THEN parse(w) = ParseError ELSE IsQuery(parse(w))
    BY <2>1, WheresParse
  <2>3. QED  BY <1>1, <2>2
<1>4. RulesAreRead' /\ index' = IndexOf(rules')
  BY <1>1, <1>2 DEF RulesAreRead, RuleIds
<1>5. CASE IsError(expr')
  <2>1. open' = {} /\ filter' = None /\ admitted' = None
    BY <1>1, <1>2, <1>5 DEF Prepare
  <2>2. expr' = ParseError /\ ~IsQuery(expr')
    BY <1>3, <1>5, NoQueryYet
  <2>3. QueryIsPrepared'
    BY <2>1, <2>2 DEF QueryIsPrepared
  <2>4. QED  BY <1>4, <2>3 DEF IInv
<1>6. CASE ~IsError(expr')
  <2>1. /\ open' \in SUBSET IF has_active_at(expr')
                              THEN {r \in RuleIds : WindowField \in DOMAIN rules[r]} ELSE {}
        /\ filter' = indexable_matches(index, expr')
    BY <1>6 DEF Prepare
  <2>2. \A r \in open' : r \in RuleIds' /\ WindowField \in DOMAIN rules'[r]
    BY <1>1, <2>1 DEF RuleIds
  <2>3. IsQuery(expr')
    BY <1>3, <1>6
  <2>4. filter' # None => filter' = Scanned'
    <3> SUFFICES ASSUME filter' # None  PROVE filter' = Scanned'
      OBVIOUS
    <3> DEFINE tree == expr'
               windows == open'
    <3>1. filter' = indexable_matches(IndexOf(rules), tree) /\ IsQuery(tree)
      BY <1>2, <2>1, <2>3
    <3> HIDE DEF tree, windows
    <3>2. filter' = {r \in DOMAIN rules : eval(tree, rules[r], r \in windows)}
      BY <3>1, IndexAgrees
    <3>3. QED  BY <1>1, <3>2 DEF Scanned, RuleIds, tree, windows
  <2>5. QueryIsPrepared'
    BY <1>1, <1>2, <2>2, <2>3, <2>4 DEF QueryIsPrepared
  <2>6. QED  BY <1>4, <2>5 DEF IInv
<1>7. QED  BY <1>5, <1>6

LEMMA RetainPreserves ==
  ASSUME IInv, RetainAdmitted  PROVE IInv'
<1>1. /\ expr # Unparsed /\ ~IsError(expr)
      /\ admitted' = {r \in RuleIds : admitted_by_properties(r)}
      /\ rules' = rules /\ index' = index /\ expr' = expr /\ open' = open /\ filter' = filter
  BY DEF RetainAdmitted
<1>2. IsQuery(expr)
  BY <1>1, NoQueryYet DEF IInv, QueryIsPrepared
<1>3. admitted' = Scanned
  <2>1. CASE filter = None
    BY <1>1, <2>1 DEF admitted_by_properties, Scanned
  <2>2. CASE filter # None
    <3>1. filter = Scanned
      BY <2>2 DEF IInv, QueryIsPrepared
    <3>2. admitted' = {r \in RuleIds : r \in filter}
      BY <1>1, <2>2 DEF admitted_by_properties
    <3>3. QED  BY <3>1, <3>2 DEF Scanned
  <2>3. QED  BY <2>1, <2>2
<1>4. Scanned' = Scanned
  BY <1>1 DEF Scanned, RuleIds
<1>5. RulesAreRead' /\ index' = IndexOf(rules')
  BY <1>1 DEF IInv, RulesAreRead, RuleIds
<1>6. QueryIsPrepared'
  <2>1. /\ rules # <<>>
        /\ filter # None => filter = Scanned
        /\ \A r \in open : r \in RuleIds /\ WindowField \in DOMAIN rules[r]
    BY <1>2 DEF IInv, QueryIsPrepared
  <2>2. \A r \in open' : r \in RuleIds' /\ WindowField \in DOMAIN rules'[r]
    BY <1>1, <2>1 DEF RuleIds
  <2>3. QED  BY <1>1, <1>2, <1>3, <1>4, <2>1, <2>2 DEF QueryIsPrepared
<1>7. QED  BY <1>5, <1>6 DEF IInv

LEMMA EndQueryPreserves ==
  ASSUME IInv, EndQuery  PROVE IInv'
<1>1. /\ expr' = Unparsed /\ open' = {} /\ filter' = None /\ admitted' = None
      /\ rules' = rules /\ index' = index
  BY DEF EndQuery
<1>2. RulesAreRead' /\ index' = IndexOf(rules')
  BY <1>1 DEF IInv, RulesAreRead, RuleIds
<1>3. ~IsQuery(expr')
  BY <1>1, NoQueryYet
<1>4. QueryIsPrepared'
  BY <1>1, <1>3 DEF QueryIsPrepared
<1>5. QED  BY <1>2, <1>4 DEF IInv

LEMMA InvariantHolds == Spec => []IInv
<1>1. IInv /\ [Next]_vars => IInv'
  <2> SUFFICES ASSUME IInv, [Next]_vars  PROVE IInv'
    OBVIOUS
  <2>1. CASE UNCHANGED vars
    <3>1. /\ rules' = rules /\ index' = index /\ expr' = expr /\ open' = open
          /\ filter' = filter /\ admitted' = admitted
      BY <2>1 DEF vars
    <3>2. RulesAreRead' /\ index' = IndexOf(rules')
      BY <3>1 DEF IInv, RulesAreRead, RuleIds
    <3>3. Scanned' = Scanned /\ RuleIds' = RuleIds
      BY <3>1 DEF Scanned, RuleIds
    <3>4. QueryIsPrepared'
      BY <3>1, <3>3 DEF IInv, QueryIsPrepared
    <3>5. QED  BY <3>2, <3>4 DEF IInv
  <2>2. CASE \E docs \in RuleDocuments : LoadGeoJson(docs) \/ LoadCanonical(docs)
    BY <2>2, LoadsPreserve
  <2>3. CASE \E w \in Wheres : Prepare(w)
    BY <2>3, PreparePreserves
  <2>4. CASE RetainAdmitted
    BY <2>4, RetainPreserves
  <2>5. CASE EndQuery
    BY <2>5, EndQueryPreserves
  <2>6. QED  BY <2>1, <2>2, <2>3, <2>4, <2>5 DEF Next
<1>2. QED  BY <1>1, InitEstablishes, PTL DEF Spec

-----------------------------------------------------------------------------
\* Every variable keeps its type: a ruleset's properties are of the five variants,
\* and the index and a scan admit rules of the ruleset only.
THEOREM WhereTypeCorrect == Spec => []TypeOK
<1>1. IInv => TypeOK
  <2> SUFFICES ASSUME IInv  PROVE TypeOK
    OBVIOUS
  <2>1. \A r \in RuleIds : \A f \in DOMAIN rules[r] : IsPropertyValue(rules[r][f])
    BY DEF IInv, RulesAreRead
  <2>2. \A i \in DOMAIN expr :
          expr[i].node \in {"Unparsed", "Error", "Predicate", "And", "Or", "Nor", "ActiveAt"}
    <3>1. CASE IsQuery(expr)
      BY <3>1 DEF IsQuery, IsNode, IsPredicate
    <3>2. CASE expr \in {Unparsed, ParseError}
      BY <3>2 DEF Unparsed, ParseError, Node
    <3>3. QED  BY <3>1, <3>2 DEF IInv, QueryIsPrepared
  <2>3. Scanned \subseteq RuleIds
    BY DEF Scanned
  <2>4. QED  BY <2>1, <2>2, <2>3 DEF IInv, QueryIsPrepared, TypeOK
<1>2. QED  BY <1>1, InvariantHolds, PTL

\* However a clause is nested and whatever it compares, a query admits the rules
\* of which the clause evaluates to true, also when the index answers for it.
THEOREM IndexAlwaysAdmitsWhatAScanAdmits == Spec => []IndexAdmitsWhatAScanAdmits
<1>1. IInv => IndexAdmitsWhatAScanAdmits
  BY DEF IInv, QueryIsPrepared, IndexAdmitsWhatAScanAdmits, Scanned
<1>2. QED  BY <1>1, InvariantHolds, PTL

\* No absent property and no value of another type is what admits a rule, but for
\* $not, $nor and $exists: false.
THEOREM MismatchesNeverMatch == Spec => []MismatchesDoNotMatch
<1>1. IInv => MismatchesDoNotMatch
  <2> SUFFICES ASSUME IInv, admitted # None, NEW r \in admitted
               PROVE  Compared(expr, rules[r])
    BY DEF MismatchesDoNotMatch
  <2>1. IsQuery(expr) /\ r \in RuleIds /\ eval(expr, rules[r], r \in open)
    BY DEF IInv, QueryIsPrepared, Scanned
  <2>2. r \in open => WindowField \in DOMAIN rules[r]
    BY DEF IInv, QueryIsPrepared
  <2> DEFINE rule == rules[r]
             active == r \in open
  <2>3. active \in BOOLEAN /\ (active => WindowField \in DOMAIN rule)
        /\ eval(expr, rule, active)
    BY <2>1, <2>2
  <2> HIDE DEF rule, active
  <2>4. Compared(expr, rule)
    BY <2>1, <2>3, MatchesAreCompared
  <2>5. QED  BY <2>4 DEF rule
<1>2. QED  BY <1>1, InvariantHolds, PTL

\* As long as the engine alone writes canonical rulesets, equality of property
\* values is equality of the numbers, whatever their spelling.
THEOREM EqualityIsAlwaysOfValues ==
  ASSUME HandWritten = FALSE  PROVE Spec => []EqualityIsOfValues
<1>1. IInv => EqualityIsOfValues
  <2> DEFINE e == Root(expr)
  <2> SUFFICES ASSUME IInv, admitted # None, e.node = "Predicate", e.op = "$eq", e.nots = 0,
                      Numeric(e.values[1]), NEW r \in RuleIds
               PROVE  r \in admitted
                        <=> \A op \in {"$gte", "$lte"} :
                              PredicateEval([e EXCEPT !.op = op], rules[r])
    BY DEF EqualityIsOfValues
  <2>1. IsQuery(expr) /\ admitted = Scanned
    BY DEF IInv, QueryIsPrepared
  <2>2. IsPredicate(e)
    <3>1. \E i \in 1..Len(expr) : IsNode(e, i)
      BY <2>1 DEF IsQuery, Root
    <3>2. QED  BY <3>1 DEF IsNode
  <2> DEFINE rule == rules[r]
             active == r \in open
  <2>3. r \in admitted <=> PredicateEval(e, rule)
    <3>1. active \in BOOLEAN
      OBVIOUS
    <3> HIDE DEF rule, active
    <3>2. eval(expr, rule, active) = PredicateEval(e, rule)
      BY <2>1, <3>1, EvalOfPredicate
    <3>3. r \in admitted <=> eval(expr, rule, active)
      BY <2>1 DEF Scanned, rule, active
    <3>4. QED  BY <3>2, <3>3
  <2>4. \A f \in DOMAIN rule : IsNormal(rule[f])
    BY DEF IInv, RulesAreRead
  <2> HIDE DEF e, rule
  <2>5. PredicateEval(e, rule)
          <=> \A op \in {"$gte", "$lte"} : PredicateEval([e EXCEPT !.op = op], rule)
    BY <2>2, <2>4, EqualityIsBothBounds DEF e
  <2>6. QED  BY <2>3, <2>5 DEF e, rule
<1>2. QED  BY <1>1, InvariantHolds, PTL
=============================================================================
