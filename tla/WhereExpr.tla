------------------------------ MODULE WhereExpr ------------------------------
(***************************************************************************)
(* The where clause of a query: core/src/model/where_expr.rs parses and    *)
(* evaluates it, and core/src/indexing/property_index.rs answers the       *)
(* clauses an equality index can.  A rule is admitted by the index when it *)
(* answers, and by evaluation when it does not.                            *)
(*                                                                         *)
(* A tree, of clauses or of expressions, is the sequence of its nodes, each *)
(* after the ones below it and naming their places; its root is the last.  *)
(* A field predicate { $not: { $not: { op: operands } } } is the operator, *)
(* its operands and the number of $not's around it.  Whether a rule's      *)
(* $activeAt window is open is the business of module Temporal.            *)
(***************************************************************************)
EXTENDS PropertyValues, Sequences, FiniteSets

CONSTANTS RuleDocuments,  \* the properties rules are written with, as JSON
          Wheres,         \* the trees of the where members of queries
          Fields,         \* property names; any other name starts with $
          WindowField,    \* a field every $activeAt window needs
          HandWritten,    \* whether canonical rulesets are written by others too
          None            \* no index answers

\* A tree's nodes are below later ones, every node but the root below one.
IsTree(w) ==
  /\ Len(w) \in Nat \ {0} /\ DOMAIN w = 1..Len(w)
  /\ \A i \in DOMAIN w : w[i].of \subseteq 1..(i - 1)
  /\ \A j \in DOMAIN w : j = Len(w) \/ \E i \in DOMAIN w : j \in w[i].of

\* { $not: { op: operands } }: one operand, but for a list's, and a plain value
\* stands under no $not.
IsOperator(p) ==
  /\ p.nots \in Nat /\ (p.op = "plain" => p.nots = 0)
  /\ p.op \notin {"$in", "$nin"} => DOMAIN p.operands = {1}
  /\ \A i \in DOMAIN p.operands : IsJson(p.operands[i])

\* A where member, in JSON: an object's members and nothing else are fields with
\* an operator.
IsWhere(w) ==
  /\ IsTree(w)
  /\ \A i \in DOMAIN w :
       /\ w[i].key = "member" => w[i].of = {} /\ IsOperator(w[i].predicate)
       /\ \A j \in w[i].of : w[j].key = "member" <=> w[i].key = "members"
  /\ w[Len(w)].key # "member"

ASSUME WhereAssumption ==
  /\ WindowField \in Fields
  /\ HandWritten \in BOOLEAN
  /\ \A docs \in RuleDocuments : \A r \in DOMAIN docs : \A f \in DOMAIN docs[r] :
       IsJson(docs[r][f])
  /\ \A w \in Wheres : IsWhere(w)

VARIABLES rules,     \* the properties of each rule, in ruleset order
          index,     \* EqualityIndex: field, value, positions
          expr,      \* the parsed clause of the query
          open,      \* the rules whose window is open at the query's instant
          filter,    \* PreparedQuery.where_filter
          admitted   \* the rules that pass admitted_by_properties

vars == <<rules, index, expr, open, filter, admitted>>
queryVars == <<expr, open, filter, admitted>>

RuleIds == DOMAIN rules

\* Nodes of an expression, and the expressions of one node.
Predicate(field, op, nots, values) ==
  [node |-> "Predicate", field |-> field, op |-> op, nots |-> nots, values |-> values]
Node(node, of) == [node |-> node, of |-> of]
ParseError == <<Node("Error", {})>>
Unparsed   == <<Node("Unparsed", {})>>

Root(tree)    == tree[Len(tree)]
IsError(tree) == Root(tree).node = "Error"

-----------------------------------------------------------------------------
Comparisons == {"plain", "$eq", "$ne", "$gt", "$gte", "$lt", "$lte"}

\* parse_field_predicate, parse_field_op, parse_not_inner: one operator, scalar
\* operands, a list for $in and $nin, a boolean for $exists.
parse_field_predicate(field, p) ==
  LET values == [i \in DOMAIN p.operands |-> from_json_value(p.operands[i])] IN
  IF \/ field \notin Fields
     \/ \E i \in DOMAIN values : values[i] = Unsupported
     \/ p.op \notin Comparisons \cup {"$in", "$nin", "$exists"}
     \/ p.op = "$exists" /\ p.operands[1].form # "bool"
  THEN Node("Error", {})
  ELSE Predicate(field, IF p.op = "plain" THEN "$eq" ELSE p.op, p.nots, values)

\* The members of an object are a conjunction; of one member, that member.
parse_implicit_and(w, i) ==
  IF \E j \in w[i].of : w[i].of = {j}
  THEN LET member == w[CHOOSE j \in w[i].of : TRUE]
       IN  parse_field_predicate(member.field, member.predicate)
  ELSE Node("And", w[i].of)

\* A clause that is a list, or a window, has what is below it parsed where it is.
parse_node(w, i) ==
  CASE w[i].key = "member"    -> parse_field_predicate(w[i].field, w[i].predicate)
    [] w[i].key = "members"   -> parse_implicit_and(w, i)
    [] w[i].key = "$activeAt" -> Node("ActiveAt", {})
    [] w[i].key \in {"And", "Or", "Nor"} -> Node(w[i].key, w[i].of)
    [] OTHER -> Node("Error", {})

\* One clause that is refused refuses all of them.
parse(w) ==
  LET parsed == [i \in DOMAIN w |-> parse_node(w, i)] IN
  IF \E i \in DOMAIN w : parsed[i].node = "Error" THEN ParseError ELSE parsed

has_active_at(tree) == \E i \in DOMAIN tree : tree[i].node = "ActiveAt"

-----------------------------------------------------------------------------
\* An operator on a property that is there.
FieldOp(op, actual, values) ==
  LET Is(ordering) == Compares(actual, values[1], ordering)
      Listed       == \E i \in DOMAIN values : actual = values[i]
  IN CASE op = "$eq"  -> actual = values[1]
       [] op = "$ne"  -> same_variant(actual, values[1]) /\ actual # values[1]
       [] op = "$gt"  -> Is("greater")
       [] op = "$gte" -> Is("greater") \/ Is("equal")
       [] op = "$lt"  -> Is("less")
       [] op = "$lte" -> Is("less") \/ Is("equal")
       [] op = "$in"  -> Listed
       [] op = "$nin" -> ~Listed /\ \E i \in DOMAIN values : same_variant(actual, values[i])

\* Mutant: $ne holds of a rule without the property.
FieldPredicateMissingNe(e, props) ==
  CASE e.op = "$exists" -> (e.field \in DOMAIN props) = (e.values[1].value = 1)
    [] e.op = "$ne"     -> e.field \in DOMAIN props => props[e.field] # e.values[1]
    [] OTHER -> e.field \in DOMAIN props /\ FieldOp(e.op, props[e.field], e.values)

\* FieldPredicate::eval below the $not's.
FieldPredicate(e, props) ==
  IF e.op = "$exists"
    THEN (e.field \in DOMAIN props) = (e.values[1].value = 1)
    ELSE e.field \in DOMAIN props /\ FieldOp(e.op, props[e.field], e.values)

\* Each $not negates what is in it.
PredicateEval(e, props) ==
  IF e.nots % 2 = 1 THEN ~FieldPredicate(e, props) ELSE FieldPredicate(e, props)

\* What a node is for a rule, from what the nodes below it are; active says
\* whether the query's instant is in the rule's window.
NodeEval(e, props, active, holds) ==
  CASE e.node = "And" -> \A j \in e.of : holds[j]
    [] e.node = "Or"  -> \E j \in e.of : holds[j]
    [] e.node = "Nor" -> ~\E j \in e.of : holds[j]
    [] e.node = "ActiveAt"  -> active
    [] e.node = "Predicate" -> PredicateEval(e, props)

eval(tree, props, active) ==
  LET holds[i \in DOMAIN tree] == NodeEval(tree[i], props, active, holds)
  IN  holds[Len(tree)]

-----------------------------------------------------------------------------
\* Mutant: positions are counted from zero.
IndexFromZero(props) ==
  [f \in UNION {DOMAIN props[r] : r \in DOMAIN props} |->
     [v \in {props[r][f] : r \in {s \in DOMAIN props : f \in DOMAIN props[s]}} |->
        {r - 1 : r \in {s \in DOMAIN props : f \in DOMAIN props[s] /\ props[s][f] = v}}]]

\* EqualityIndex::build, rule by rule: which values a field has, and where.
IndexOf(props) ==
  [f \in UNION {DOMAIN props[r] : r \in DOMAIN props} |->
     [v \in {props[r][f] : r \in {s \in DOMAIN props : f \in DOMAIN props[s]}} |->
        {r \in DOMAIN props : f \in DOMAIN props[r] /\ props[r][f] = v}]]

matching(ix, field, value) ==
  IF field \in DOMAIN ix /\ value \in DOMAIN ix[field] THEN ix[field][value] ELSE {}

matching_in(ix, field, values) ==
  UNION {matching(ix, field, values[i]) : i \in DOMAIN values}

\* Mutant: a negated equality is served as the equality.
predicate_matches_not(ix, e) ==
  CASE e.op = "$eq" -> matching(ix, e.field, e.values[1])
    [] e.op = "$in" -> matching_in(ix, e.field, e.values)
    [] OTHER        -> None

\* index_query: nothing but an equality and a $in is indexed.
predicate_matches(ix, e) ==
  CASE e.nots = 0 /\ e.op = "$eq" -> matching(ix, e.field, e.values[1])
    [] e.nots = 0 /\ e.op = "$in" -> matching_in(ix, e.field, e.values)
    [] OTHER                      -> None

\* A conjunction is served when it is not empty and all of it is.
NodeMatches(ix, e, matches) ==
  CASE e.node = "Predicate" -> predicate_matches(ix, e)
    [] e.node = "And" /\ e.of # {} /\ (\A j \in e.of : matches[j] # None)
         -> {r \in UNION {matches[j] : j \in e.of} : \A j \in e.of : r \in matches[j]}
    [] OTHER -> None

indexable_matches(ix, tree) ==
  LET matches[i \in DOMAIN tree] == NodeMatches(ix, tree[i], matches)
  IN  matches[Len(tree)]

\* PreparedQuery::admitted_by_properties of a query with a where clause and no
\* exclusions.
admitted_by_properties(r) ==
  IF filter = None THEN eval(expr, rules[r], r \in open) ELSE r \in filter

-----------------------------------------------------------------------------
Init ==
  /\ rules = <<>>
  /\ index = <<>>
  /\ expr = Unparsed
  /\ open = {}
  /\ filter = None
  /\ admitted = None

Build(props) ==
  /\ rules = <<>>
  /\ rules' = props
  /\ index' = IndexOf(props)
  /\ UNCHANGED queryVars

LoadGeoJson(docs) == Build([r \in DOMAIN docs |-> properties_from_json(docs[r])])

\* Bound: the canonical form is the one to_canonical writes of rules read from
\* GeoJSON, unless others write it.  A nested value is refused.
LoadCanonical(docs) ==
  /\ \A r \in DOMAIN docs : \A f \in DOMAIN docs[r] :
       /\ deserialize(docs[r][f]) # Unsupported
       /\ HandWritten \/ docs[r][f] = serialize(from_json_value(docs[r][f]))
  /\ Build([r \in DOMAIN docs |-> [f \in DOMAIN docs[r] |-> deserialize(docs[r][f])]])

\* Query::from_json and Ruleset::prepare; a query that tests windows has an
\* instant, at which some rules that have one are in theirs.
Prepare(w) ==
  /\ rules # <<>>
  /\ expr = Unparsed
  /\ expr' = parse(w)
  /\ IF IsError(expr') THEN UNCHANGED <<open, filter>>
     ELSE /\ open' \in SUBSET IF has_active_at(expr')
                                THEN {r \in RuleIds : WindowField \in DOMAIN rules[r]} ELSE {}
          /\ filter' = indexable_matches(index, expr')
  /\ UNCHANGED <<rules, index, admitted>>

\* scratch.retain, on a candidate whose envelope meets every rule.
RetainAdmitted ==
  /\ expr # Unparsed /\ ~IsError(expr)
  /\ admitted = None
  /\ admitted' = {r \in RuleIds : admitted_by_properties(r)}
  /\ UNCHANGED <<rules, index, expr, open, filter>>

\* The batch is over, or the query was refused.
EndQuery ==
  /\ admitted # None \/ IsError(expr)
  /\ expr' = Unparsed
  /\ open' = {}
  /\ filter' = None
  /\ admitted' = None
  /\ UNCHANGED <<rules, index>>

Next ==
  \/ \E docs \in RuleDocuments : LoadGeoJson(docs) \/ LoadCanonical(docs)
  \/ \E w \in Wheres : Prepare(w)
  \/ RetainAdmitted
  \/ EndQuery

Spec == Init /\ [][Next]_vars

-----------------------------------------------------------------------------
TypeOK ==
  /\ \A r \in RuleIds : \A f \in DOMAIN rules[r] : IsPropertyValue(rules[r][f])
  /\ \A i \in DOMAIN expr :
       expr[i].node \in {"Unparsed", "Error", "Predicate", "And", "Or", "Nor", "ActiveAt"}
  /\ open \subseteq RuleIds
  /\ filter = None \/ filter \subseteq RuleIds
  /\ admitted = None \/ admitted \subseteq RuleIds

\* The index decides nothing: a clause it answers admits the rules a scan of all
\* rules admits ("the set of rule ids that can satisfy where_clause using only
\* indexed lookups", property_index.rs), and so does one it leaves to the scan.
IndexAdmitsWhatAScanAdmits ==
  admitted # None => admitted = {r \in RuleIds : eval(expr, rules[r], r \in open)}

\* Whether a rule's property can be compared with an operand at all.
Comparable(e, props) ==
  /\ e.field \in DOMAIN props
  /\ \/ e.op = "$exists"
     \/ \E i \in DOMAIN e.values :
          \/ same_variant(props[e.field], e.values[i])
          \/ Numeric(props[e.field]) /\ Numeric(e.values[i])

Negative(e) == e.nots > 0 \/ (e.op = "$exists" /\ e.values[1].value # 1)

NodeCompared(e, props, compared) ==
  CASE e.node = "And" -> \A j \in e.of : compared[j]
    [] e.node = "Or"  -> \E j \in e.of : compared[j]
    [] e.node = "Nor" -> TRUE
    [] e.node = "ActiveAt"  -> WindowField \in DOMAIN props
    [] e.node = "Predicate" -> Negative(e) \/ Comparable(e, props)

Compared(tree, props) ==
  LET compared[i \in DOMAIN tree] == NodeCompared(tree[i], props, compared)
  IN  compared[Len(tree)]

\* "A missing property or a type mismatch evaluates as non-match (even for
\* $ne)": but for $not, $nor and $exists: false, a rule is admitted only by
\* operators that had a value of its own to compare.
MismatchesDoNotMatch ==
  admitted # None => \A r \in admitted : Compared(expr, rules[r])

\* "Bit equality equals value equality", for integral numbers become Int: a rule
\* is admitted by { field: n } exactly when both { field: { $gte: n } } and
\* { field: { $lte: n } } admit it, however rule and query spell the number.
EqualityIsOfValues ==
  LET e == Root(expr) IN
  admitted # None /\ e.node = "Predicate" =>
    (e.op = "$eq" /\ e.nots = 0 /\ Numeric(e.values[1]) =>
       \A r \in RuleIds :
         r \in admitted <=>
           \A op \in {"$gte", "$lte"} : PredicateEval([e EXCEPT !.op = op], rules[r]))
=============================================================================
