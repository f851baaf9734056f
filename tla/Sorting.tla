------------------------------ MODULE Sorting ------------------------------
(***************************************************************************)
(* What the code has its standard library do to a sequence: sort_by, and   *)
(* retain.  An order is the set of its pairs, and the place of an element  *)
(* is counted, not computed by exchanging elements, so that what a sorted  *)
(* sequence is can be proved of it for every set.                          *)
(***************************************************************************)
EXTENDS Integers, Sequences, FiniteSets

\* How many elements come before one.
Rank(S, before, x) == Cardinality({y \in S : <<y, x>> \in before})

\* The elements of a set in an order that is total.
InOrder(S, before) ==
  [n \in 1..Cardinality(S) |-> CHOOSE x \in S : Rank(S, before, x) = n - 1]

\* The order of numbers.
Less(S) == {p \in S \X S : p[1] < p[2]}

\* A stable sort: elements of which neither comes before the other stay as they
\* were.
SortBy(s, before) ==
  LET earlier == {p \in (DOMAIN s) \X (DOMAIN s) :
                    \/ <<s[p[1]], s[p[2]]>> \in before
                    \/ <<s[p[2]], s[p[1]]>> \notin before /\ p[1] < p[2]}
      sorted  == InOrder(DOMAIN s, earlier)
  IN  [n \in DOMAIN sorted |-> s[sorted[n]]]

\* The elements of a sequence that are to be kept, in its order.
Retain(s, keep) ==
  LET kept == InOrder({i \in DOMAIN s : s[i] \in keep}, Less(DOMAIN s)) IN
  [n \in DOMAIN kept |-> s[kept[n]]]
=============================================================================
