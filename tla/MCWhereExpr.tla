----------------------------- MODULE MCWhereExpr -----------------------------
(***************************************************************************)
(* WhereExpr for TLC: two rules with up to two properties each, and every  *)
(* operator on every kind of operand, under up to two lists and two $not's.*)
(***************************************************************************)
EXTENDS WhereExpr, TLC

MCFields == {"x", "y"}

One  == Json("integer", 2)
One0 == Json("decimal", 2)   \* 1.0
Half == Json("decimal", 1)
Text == Json("string", 1)
Huge == Json("decimal", 100) \* integral, and beyond an i64

Properties ==
  UNION {[S -> {One, One0, Half, Text, Huge, JsonNested}] : S \in {{}, {"x"}}}
    \cup {("y" :> One) @@ f : f \in UNION {[S -> {One, Half, Text}] : S \in {{}, {"x"}}}}

\* Beside it, a rule without properties, and one of each type of value.
Others ==
  {f \in Properties : f = <<>> \/ \E v \in {One, Half, Text} : f = ("x" :> v) @@ ("y" :> One)}

Rulesets == {<<a, b>> : a \in Properties, b \in Others}

Op(op, nots, operands) == [op |-> op, nots |-> nots, operands |-> operands]

Lists == {<<>>} \cup {<<a>> : a \in {One, One0, Half, Text}}
           \cup {<<a, b>> : a, b \in {One, One0, Half, Text}}

Positives ==
  [op : Comparisons \cup {"$like"}, nots : {0},
   operands : {<<a>> : a \in {One, One0, Half, Text, Huge, JsonNested}}]
    \cup [op : {"$in", "$nin"}, nots : {0}, operands : Lists]
    \cup [op : {"$exists"}, nots : {0},
          operands : {<<Json("bool", 0)>>, <<Json("bool", 1)>>, <<One>>}]

Predicates ==
  Positives \cup {[p EXCEPT !.nots = n] :
                    p \in {q \in Positives : q.op # "plain"}, n \in {1, 2}}

Member(f, p) == [key |-> "member", of |-> {}, field |-> f, predicate |-> p]
Members(ms) == Append(ms, [key |-> "members", of |-> 1..Len(ms)])

\* Up to two clauses under a key: the second's places come after the first's.
After(w, n) == [i \in DOMAIN w |-> [w[i] EXCEPT !.of = {j + n : j \in @}]]
Listed(key, ws) ==
  LET list(of) == <<[key |-> key, of |-> of]>> IN
  CASE ws = <<>>    -> list({})
    [] Len(ws) = 1  -> ws[1] \o list({Len(ws[1])})
    [] OTHER        -> ws[1] \o After(ws[2], Len(ws[1]))
                         \o list({Len(ws[1]), Len(ws[1]) + Len(ws[2])})

YPredicates == {Op("plain", 0, <<One>>), Op("$in", 0, <<Half, One>>), Op("$ne", 0, <<Half>>)}

Objects ==
  {Members(<<>>)}
    \cup {Members(<<Member("x", p)>>) : p \in Predicates}
    \cup {Members(<<Member("x", p), Member("y", q)>>) : p \in Predicates, q \in YPredicates}

Basic ==
  {Members(<<>>),
   Members(<<Member("x", Op("plain", 0, <<One>>))>>),
   Members(<<Member("x", Op("$in", 0, <<Half, One>>))>>),
   Members(<<Member("x", Op("$eq", 1, <<Half>>))>>),
   Members(<<Member("y", Op("$gte", 0, <<Half>>))>>),
   Members(<<Member("$or", Op("plain", 0, <<One>>))>>),
   Listed("$activeAt", <<>>)}

Keys == {"And", "Or", "Nor"}

Upto2(S) == {<<>>} \cup {<<a>> : a \in S} \cup {<<a, b>> : a, b \in S}

ListsOf(clauses) == {Listed(k, ws) : k \in Keys, ws \in Upto2(clauses)}

Objective ==
  {w \in Basic : \E i \in DOMAIN w : w[i].key = "member" /\ w[i].field # "$or"}

Clauses ==
  Objects \cup ListsOf(Basic)
    \cup {Listed(k, <<w, b>>) : k \in Keys, w \in ListsOf(Objective),
            b \in {Members(<<Member("x", Op("plain", 0, <<One>>))>>), Listed("$activeAt", <<>>)}}
    \cup {Listed("$like", <<>>)}
=============================================================================
