------------------------------ MODULE Serving ------------------------------
(***************************************************************************)
(* Batches served while the ruleset is replaced: Engine composed with the  *)
(* per-thread memo of prepared geometries (core/src/indexing/              *)
(* prepared_cache.rs), the candidate loop of core/src/runtime/evaluate.rs  *)
(* and the rich views of the bindings.                                     *)
(*                                                                         *)
(* What a candidate is related against is abstracted to where it came      *)
(* from: a slot of the memo holds the ruleset whose rule was prepared in   *)
(* it, and a batch remembers every ruleset it was related against.         *)
(***************************************************************************)
EXTENDS Engine

CONSTANTS RuleIndexes,  \* positions of the rules of a ruleset
          BatchSize     \* candidates of a batch

ASSUME ServingAssumption == BatchSize \in Nat

VARIABLES cache,  \* PREPARED_CACHE of each thread
          batch   \* the batch each thread is evaluating

servingVars == <<cache, batch>>
allVars == <<vars, servingVars>>

NoSlots  == [i \in RuleIndexes |-> NoRuleset]
NoBatch  == [left |-> 0, prepared |-> FALSE, unnamed |-> FALSE, related |-> {},
             namedBy |-> NoRuleset]

\* Only a rich batch has rules to name.
NewBatch(rich) == [NoBatch EXCEPT !.left = BatchSize, !.unnamed = rich]

\* The ruleset the thread's query evaluates against.
Snapshot(t) == answer[t].of

ServingInit ==
  /\ Init
  /\ cache = [t \in Threads |-> [key |-> 0, slots |-> NoSlots]]
  /\ batch = [t \in Threads |-> NoBatch]

\* A mask call (query, resolve) or a rich one (query_rich, resolve_rich).
StartBatch(t, rich) ==
  /\ CallQuery(t)
  /\ batch' = [batch EXCEPT ![t] = NewBatch(rich)]
  /\ UNCHANGED cache

\* Mutants: the memo is keyed anew but its slots are kept; the memo is renewed
\* by every batch.
ForRulesetKeepingSlots(t, id) == cache' = [cache EXCEPT ![t].key = id]
ForRulesetAlwaysFresh(t, id) ==
  cache' = [cache EXCEPT ![t] = [key |-> id, slots |-> NoSlots]]

\* PreparedMemo::for_ruleset: the slots are kept when they are keyed by this
\* ruleset, and replaced wholesale otherwise, whatever the predicate.
ForRuleset(t, id) ==
  IF cache[t].key = id
    THEN UNCHANGED cache
    ELSE cache' = [cache EXCEPT ![t] = [key |-> id, slots |-> NoSlots]]

Prepare(t) ==
  /\ pc[t] = "using"
  /\ ~batch[t].prepared
  /\ ForRuleset(t, Snapshot(t).id)
  /\ batch' = [batch EXCEPT ![t].prepared = TRUE]
  /\ UNCHANGED vars

\* PreparedMemo::ensure: fill the empty slots among the touched rules.
Ensured(slots, touched, r) ==
  [i \in RuleIndexes |->
     IF i \in touched /\ slots[i] = NoRuleset THEN r ELSE slots[i]]

\* One candidate, of which "touched" are the rules its envelope meets and the
\* properties admit; none for a candidate that is invalid or meets nothing.
\* The six directional predicates relate against the prepared geometries.
EvaluateRelate(t, touched) ==
  LET slots == Ensured(cache[t].slots, touched, Snapshot(t)) IN
  /\ pc[t] = "using"
  /\ batch[t].prepared /\ batch[t].left > 0
  /\ cache' = [cache EXCEPT ![t].slots = slots]
  /\ batch' = [batch EXCEPT ![t].left = @ - 1,
                            ![t].related = @ \cup {slots[i] : i \in touched}]
  /\ UNCHANGED vars

\* Mutant: the loop runs past the last candidate.
EvaluateUnpreparedTooLong(t, touched) ==
  /\ pc[t] = "using"
  /\ batch[t].prepared /\ batch[t].left >= 0
  /\ batch' = [batch EXCEPT ![t].left = @ - 1,
                            ![t].related = @ \cup {Snapshot(t) : i \in touched}]
  /\ UNCHANGED <<vars, cache>>

\* intersects and withinDistance use the ruleset's own geometries and fill no
\* slot.
EvaluateUnprepared(t, touched) ==
  /\ pc[t] = "using"
  /\ batch[t].prepared /\ batch[t].left > 0
  /\ batch' = [batch EXCEPT ![t].left = @ - 1,
                            ![t].related = @ \cup {Snapshot(t) : i \in touched}]
  /\ UNCHANGED <<vars, cache>>

\* Mutant: the names are looked up in a second snapshot.
NameRulesFromActive(t) ==
  /\ pc[t] = "using"
  /\ batch[t].prepared /\ batch[t].left = 0 /\ batch[t].unnamed
  /\ batch' = [batch EXCEPT ![t].unnamed = FALSE, ![t].namedBy = ruleset]
  /\ UNCHANGED <<vars, cache>>

\* query_rich_json, resolve_rich_json: the string ids of the matched rules are
\* looked up in the snapshot that was evaluated.
NameRules(t) ==
  /\ pc[t] = "using"
  /\ batch[t].prepared /\ batch[t].left = 0 /\ batch[t].unnamed
  /\ batch' = [batch EXCEPT ![t].unnamed = FALSE, ![t].namedBy = Snapshot(t)]
  /\ UNCHANGED <<vars, cache>>

EndBatch(t) ==
  /\ batch[t].prepared /\ batch[t].left = 0 /\ ~batch[t].unnamed
  /\ DropSnapshot(t)
  /\ batch' = [batch EXCEPT ![t] = NoBatch]
  /\ UNCHANGED cache

EngineStep(t) ==
  /\ \/ AcquireRead(t) \/ CloneSnapshot(t)
     \/ Current(t) \/ Build(t) \/ Swap(t)
  /\ UNCHANGED servingVars

EvaluateCandidate(t) ==
  \E touched \in SUBSET RuleIndexes :
    EvaluateRelate(t, touched) \/ EvaluateUnprepared(t, touched)

ServingNext ==
  \/ \E t \in Threads :
       \/ \E rich \in BOOLEAN : StartBatch(t, rich)
       \/ Prepare(t)
       \/ EvaluateCandidate(t)
       \/ NameRules(t)
       \/ EndBatch(t)
       \/ EngineStep(t)
  \/ Finished /\ UNCHANGED servingVars

ServingSpec == ServingInit /\ [][ServingNext]_allVars

-----------------------------------------------------------------------------
Memos == [key : Nat, slots : [RuleIndexes -> Rulesets]]
Batches == [left : 0..BatchSize, prepared : BOOLEAN, unnamed : BOOLEAN,
            related : SUBSET Rulesets, namedBy : Rulesets]

ServingTypeOK ==
  /\ cache \in [Threads -> Memos]
  /\ batch \in [Threads -> Batches]

\* A filled slot was prepared from a rule of the ruleset the memo is keyed by:
\* no geometry survives a replacement under another ruleset's key ("invalidated
\* wholesale when it changes", prepared_cache.rs).
SlotsBelongToKey ==
  \A t \in Threads, i \in RuleIndexes :
    cache[t].slots[i] # NoRuleset =>
      /\ cache[t].slots[i].id = cache[t].key
      /\ cache[t].slots[i] \in Live

\* Every candidate of a batch is related against one ruleset, the one active
\* when the snapshot was taken, and its rules are named by that same ruleset: a
\* replacement cannot tear a batch apart, and string_id(..).expect never meets
\* the id of another ruleset.
BatchSeesOneRuleset ==
  \A t \in Threads :
    /\ batch[t].related \subseteq {Snapshot(t)}
    /\ batch[t].namedBy \in {NoRuleset, Snapshot(t)}

\* While a memo keeps its key, a slot once filled is never emptied, refilled or
\* handed to another ruleset: a warm batch prepares nothing again.
SlotsAreFilledOnce ==
  [][\A t \in Threads, i \in RuleIndexes :
       cache[t].slots[i] # NoRuleset /\ cache'[t].key = cache[t].key
         => cache'[t].slots[i] = cache[t].slots[i]]_allVars
=============================================================================
