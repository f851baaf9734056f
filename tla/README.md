# Verifying spatial-rules

TLA+ specifications of spatial-rules, an in-memory engine that evaluates
GeoJSON rules (an id, a geometry, a priority and properties) against candidates
(polygons, points, and several of either), with bindings for Node, Python and
WebAssembly. Paths are relative to the repository's root; `core/` is the Rust
crate every binding wraps.

Every definition of a model is translated from the code. Geometry is
abstracted to its verdicts, and JSON to what parsing it decides. What is left is
the part of the program that unit tests reach least: what threads see of each other
while the ruleset is replaced, what outlives one candidate or one batch, and
the arithmetic at the edges of the calendar and of the globe.

## The system

| Component | State it keeps | Operations | Talks to |
|---|---|---|---|
| Engine, `core/src/runtime/engine.rs` | `RwLock<Arc<Ruleset>>`, `Mutex<RulesetState>` (version, rule count, times) | `snapshot`, `current`, `replace*`, `query*`, `resolve*` | every binding calls it; it builds and swaps rulesets |
| Compiled ruleset, `core/src/runtime/ruleset.rs` | rules, id table, R\*-trees, equality index, identity; immutable once built | `from_geojson`, `from_canonical`, `to_canonical`, `prepare`, the batch entry points | drawn by the engine, read by evaluation |
| Prepared geometry memo, `core/src/indexing/prepared_cache.rs` | `NEXT_RULESET_ID` (process wide), `PREPARED_CACHE` (per thread) | `next_ruleset_id`, `for_ruleset`, `ensure` | filled by evaluation, keyed by the ruleset |
| Evaluation and resolution, `core/src/runtime/evaluate.rs` | buffers of the compiled query, reused by each candidate of a batch | `evaluate`, `evaluate_mask`, `evaluate_resolve`, `evaluate_resolve_mask` | spatial index, equality index, memo |
| Query model, `core/src/model/query.rs`, `aggregate.rs` | none | builders, `from_json`, `validate` | evaluation |
| Where clauses, `core/src/model/where_expr.rs`, `properties.rs` | none | `parse`, `eval`, `index_query` | equality index |
| Equality index, `core/src/indexing/property_index.rs` | values of a key to rule positions | `matching_in` | built with the ruleset |
| Spatial index and envelopes, `core/src/indexing/spatial_index.rs`, `core/src/model/spherical_envelope.rs` | two R\*-trees: planar boxes, arcs outside them (built by the first distance query) | `query_envelope_into`, `query_fringe_into`, `fringe_box` | `rstar` |
| Temporal instants, `core/src/model/temporal.rs` | none | `parse_iso8601` | `$activeAt` |
| Aggregates, `core/src/runtime/aggregate.rs` | none | `from_json`, `compute` | match and resolution |
| Ingestion, `core/src/runtime/ingestion.rs` | none | GeoJSON to rules and candidates | construction |
| Rich views, `bindings-common/src/lib.rs` | none | outcomes to JSON with string ids | Node, Python, WebAssembly |
| Node binding, `node/src/lib.rs`, `node/index.ts` | result objects with a lazy rich view, tasks on worker threads, the caller's `Buffer` | `query`, `queryAsync`, `replaceRuleset`, `toOutcomesJson`, ... | engine |
| Python, WebAssembly bindings | none of their own | thin wrappers | engine |

**How they interact.** A thread that queries clones the active `Arc` under a
read lock, drops the lock, compiles the query against that snapshot and loops
over the candidates with its own buffers and its own memo. A thread that
replaces builds a ruleset with no lock held, then takes the write lock and the
report's mutex, stores the `Arc`, updates the report and releases both. The only
shared state is `Engine` and the identity counter; the memo is per thread but
outlives the ruleset. The Node binding adds a JavaScript thread, worker
threads, and results that evaluate a second time when their rich view is read.

**What is hard.** Replacements racing queries, reports and each other; builds
that fail halfway; a cache that outlives what it was filled from; buffers that
outlive a candidate; a result whose two halves are evaluated at different
times; a buffer its owner may overwrite while a worker copies it; ties of
precedence; calendar and clock arithmetic; an index that must admit what a scan
would; boxes on a sphere, where longitudes wrap and great circles leave the box
of their ends; numbers of overlapping rules. Nothing is persisted, so there is no recovery; there is no network and
no timeout.

**What makes each component correct.**

- Engine: the active ruleset and its version are one atomic register; the
  report is never ahead of the published ruleset; a failed replacement has no
  effect; nobody waits for a build or for an evaluation; ids identify.
- Memo: a slot belongs to the ruleset the memo is keyed by, and is filled once.
- A batch: one ruleset for every candidate and every name.
- Evaluation: the rich match is exactly the applicable rules; the masks agree
  with it; a malformed query is invalid on every entry; the winner and the merged
  values follow precedence.
- Aggregates and overlaps: they describe the applicable rules, all of them and
  no others; a ratio is a share of the candidate.
- Distance: the indexes never lose a rule within the distance.
- Node results: the views of a result relate as documented.
- Temporal: exactly the calendar's dates, the right weekday, windows that go
  round the clock.
- Where clauses and equality index: the index admits exactly what a scan admits;
  equality is equality of values; what cannot be compared does not match.
- Construction: a saved ruleset loads as the same rules; a string id finds its
  rule and a `RuleId` never names another; every reader has the same gates.

## The modules

```
 AtomicEngine      what the engine promises: one register, a log of rulesets
   ^      ^
   |      '------ Results        node: calls, promises, lazy views  (EXTENDS)
   |                             ResultsProofs
   | refines
 Engine            locks, builds, failures          EngineProofs
   ^
   '------------- Serving        + memo and batches EngineProofs    (EXTENDS)
 PropertyValues    what a JSON scalar becomes, and how two values compare
   ^   ^  ^
   |   |  '------ Construction  gates, ids, the canonical form    (EXTENDS)
   |   '--------- WhereExpr     where clauses, equality index     (EXTENDS)
   '------------- Aggregates    overlap, coverage, the numbers    (EXTENDS)
                     ^
                     '--------- Evaluation  one compiled query, its buffers,
                                            precedence and merge  (EXTENDS)
 Sorting           sort_by and retain; Construction and Aggregates EXTEND it
 Distance          envelopes on the sphere, the two indexes of withinDistance
 Temporal          instants and $activeAt windows
```

`MC*.tla` give the constants and symmetry sets for TLC. The theorems about a
module are in `<Module>Proofs`: Engine, Results, Temporal, Distance, Construction, Evaluation and
WhereExpr have one; those about Serving are in EngineProofs, those about
Aggregates in EvaluationProofs. `OrderLemmas` has what several of them need:
induction over a set of numbers, least and greatest elements, what sorting and
retaining do to a sequence, that folds have a result, sums, and that a function
defined from its own values at earlier places exists.

**AtomicEngine** states the promise of ADR-0007 and ADR-0009: `Snapshot`,
`Current`, `Replace` and `FailReplace` each take effect at an instant between
the call and its answer. The state is the log of every ruleset published: the
active one is the last, its version the length.

**Engine** is `engine.rs` with one action per step between two points where
another thread may run. `writer`, `readers` and `mutex` are the holders of
`Engine.ruleset` and `Engine.state`. `AcquireRead`, `CloneSnapshot` and
`DropSnapshot` are a query; `AcquireState` and `ReadReport` are
`current`; `ParseFails`, `TakeId`, `GateRejects` and `GatePasses` are
a build off the lock, which draws its id before it looks at a
rule; `AcquireWrite` .. `ReleaseWrite` are `swap` step by step. The
other fields of the report are functions of the ruleset being swapped in and
are abstracted to `state.of`. `published` is a history variable.

**Serving** adds the memo (`cache`) and the batch each thread evaluates.
`ForRuleset` is `PreparedMemo::for_ruleset`, `Ensured` is `ensure`,
`EvaluateRelate` a candidate of a directional predicate and
`EvaluateUnprepared` of `intersects` or `withinDistance`; `NameRules` is the rich
views' lookup of string ids. What a candidate is related against is abstracted
to the ruleset it was prepared from, and a batch remembers all of them.

**Evaluation** is the pipeline of `evaluate.rs` for one thread. A candidate is
the rules each index query returns for it, the rules the exact predicate
holds of, and the cells of the plane it covers; every combination that geometry
allows is enumerated. `Touched` is the filter, `Admit` the exact check over it,
`Entry` the order of the early returns, `Precedes` and `Provide` precedence and
merge. `EvaluateMaskIntersects` is the path that the mask of `intersects` takes alone:
its own filter (`MaskHits`) and a scan that ends at the first rule that intersects. `scratch` and `slots` survive from one candidate to the next as the
buffers and the memo do. A query is what the builders can make: `validate` is
the gate of evaluation, `from_json` the other one, which the properties compare
it with.

**Aggregates** is `aggregate.rs` and the overlap metric. `numeric_values` picks
the numbers of a field from the applicable rules in their order, `numeric` folds
them, `compute` leaves a function without a contributor out. The plane is a
set of cells of one area, so that unions and intersections are those of sets;
`geodesic_area_signed` adds up the components of a polygon with the sign of
their winding, as the geo crate does.

**Distance** is `withinDistance` from `expand_envelope` to the exact check.
Angles are whole units, the sides of boxes thousandths of one, and cosines are
given in thousandths. A rule is its vertices, whose box the planar index
holds, and the samples of its arcs, whose box `fringe_box` gives to the second
index if it leaves the first. `Wrapped` is the envelope and its parts across the antimeridian;
`GetOrInit` is the lazily built index; `AdmitWithinDistance` is the handler. The
property compares what it admits with the exact check of every rule.

**PropertyValues** is `properties.rs`. A JSON number has a spelling and a
value counted in halves, so that 1.0 and 1 are one value and two spellings.
`from_json_value` is what GeoJSON and queries go through; `deserialize` and
`serialize` are the serde derives the canonical form goes through. The two
conversions of a number differ, and most of what follows is about that.

**WhereExpr** is `where_expr.rs` and `property_index.rs`. `parse` builds the
tree, `eval` is the scan, `indexable_matches` the index. A tree is the sequence of
its nodes, each after the ones below it and naming their places, its root
the last: what the code computes by recursion on a node is a function of the
places (`holds`, `matches`), defined from what is below (`NodeEval`,
`NodeMatches`). The `$not`s around an operator are counted. `LoadGeoJson` and
`LoadCanonical` are the two ways to properties, `Prepare` compiles a query,
`RetainAdmitted` is the filter over the hits and `EndQuery` goes on to the next query on
the same ruleset. Which `$activeAt` windows are open is an arbitrary
set of the rules that have one.

**Construction** is the way from a document to a ruleset: `IngestCode` and
`rule_from_feature` are `ingestion.rs`, `GateCode` the gates of `build_indexed`
in their order, `EnvelopeCode` the bounding boxes it takes once every rule has passed
them (an empty MultiPolygon is valid and has none), `from_canonical_slow` the second reading of a document that
failed, `rule_id` the binary search in the id table, `checked_index` the
ownership check. `ToCanonical` and `LoadSaved` are the round trip; `LookUp`
leaves a `RuleId` with the caller, who may use it on the next ruleset.

**Results** is the Node binding over the atomic register: `CallQuery` ..
`QueryReturns` a synchronous call; `CallAsync`, `CopyStarts`, `CopyEnds`,
`Evaluates` and `Settles` a promise; `ReadRich` and `RichReturns` the first read of
the lazy view; `ReadGeoJson` is `toGeoJson`, which parses the candidates again without
a native call; `Overwrite` is the caller writing to the `Buffer` it passed. `mispaired`
remembers that features were once paired with the mask of other candidates. A copy
during which the buffer changed is the content `Torn`, whose parse may succeed
or fail.

**Sorting** is what the code leaves to the standard library: `SortBy` is a stable
`sort_by`, `Retain` is `retain`. The place of an element is the number of elements
before it, so that a sorted sequence is defined without recursion.

**Temporal** is `parse_iso8601` on the six numbers of a text, and
`eval_active_at`. Rust's division truncates towards zero and TLA+'s rounds down, so
`Quot` and `Rem` are Rust's.

## What is checked

| Run | Question | Bounds and why they are enough |
|---|---|---|
| `engine` | Does the lock protocol implement the atomic register, with a report that never runs ahead, ids that identify and no ring of waiting calls? | Three threads, two calls each: two replacements race while a third thread looks on before, between and after them. Threads are symmetric. |
| `engine_live` | Can a query or a publication be kept waiting by a build or an evaluation that never ends? | Three threads, one call each, no symmetry: one hangs, one holds, one asks. |
| `serving` | Does a batch see one ruleset, and does the memo keep nothing of another? | Two threads, three calls each: query, replacement (own or other), query on the warm memo. Two rules and two candidates: filled and empty slots side by side. |
| `evaluation` | Is the match exactly the applicable rules, do the masks agree, do winner and merged values follow precedence, and do the numbers describe what applies? | Three rules, of which two overlap, with ties, shared keys and fields without a number; seventeen queries, five of them malformed; every combination of hits and verdicts: a stale buffer, a rule hit by several queries, an empty answer, a double count. Rule 2 has arcs outside its box, 1 and 2 lie across the antimeridian, 3 does neither. |
| `results` | How do the views of a Node result relate? | One worker, three rulesets, two results, one overwrite: a worker overtaken by two replacements and reused. |
| `temporal` | Are exactly the calendar's dates accepted, with the right weekday, and is a window open exactly while the clock goes round from start to end? | 400 consecutive years, the period of the Gregorian calendar, with months 0..13 and days 0..32; every hour of a week; masks, starts and ends inside and outside their ranges. |
| `distance` | Is a rule within the distance ever lost? | A grid of 10 degrees over the sphere, one point or two, radii of 15 and 35 degrees; a rule for each way to be special: arcs to the north of the box, arcs over the pole, beside the antimeridian on either side, across it, with a vertex at a pole. |
| `where` | Does the index admit what a scan admits, and does a mismatch ever match? | Two rules with two fields, the second without properties or with one value of each type; every operator on integers, decimals, strings and nested values, two `$not`s, two levels of lists: every operand meets every type of property, and posting lists are united and intersected. |
| `construction` | Does what was saved load, do ids find their rules, do the two readers agree on priorities? | Two rulesets of up to two rules, thirteen kinds of feature: one ruleset saved and loaded, or replaced while a `RuleId` is held. |
| `hand_written` | Is equality the equality of values for canonical rulesets others wrote?: **violated**, see the findings. | Those of `where`; `HandWritten` is the only difference. |
| `year_zero` | The weekday of year 0000: **violated**, see the findings. | The one year the other run leaves out. |
| `mixed_winding` | Is a ratio at most 1 whatever the winding?: **violated**, see the findings. | Those of `evaluation`, with a candidate of two components wound apart. |

**The findings.** `core/src/model/temporal.rs` documents the weekday of "a
Gregorian date", and the parser accepts the year 0000. The congruence counts
January and February of a year with the year before, and -1 divided or reduced
with Rust's truncation is not what the congruence needs: the weekday of those two
months is wrong by one. `year_zero` exhibits such a date; `temporal`
shows every other year right.

`core/src/model/properties.rs:24` says that floats are only ever non-integral,
"so bit equality equals value equality". That holds of GeoJSON, of queries, and
of rulesets the engine saved from GeoJSON (`where`). A canonical ruleset written by
hand, or by a serializer that writes 1.0 for 1, keeps the property a `Float`,
and no gate converts it: the rule satisfies `$gte: 1` and `$lte: 1`
but neither `x: 1` nor `x: 1.0`. `hand_written` exhibits it. (Integers of 2^63
and above are `Float`s on every path. Next to that limit the bounds of a query
compare as f64, so the largest i64 and 2^63 meet each other's bounds but not each
other's equality: a rounding, which the model leaves out.)

`core/src/model/query.rs:289` documents an overlap ratio "in [0, 1]", and
`evaluate.rs:54` that the measure is "robust to exterior-ring winding". It is, for
one polygon. The area of a MultiPolygon candidate adds its components with the
sign of their winding before the magnitude is taken, and neither ingestion nor
validation winds rings alike: with components wound apart the area is a
difference, and ratio and coverage of a rule exceed 1, or are 0 where the areas
cancel. `mixed_winding` exhibits a ratio of 2; `SharesAreOfTheCandidate` shows
the ratios right for every candidate wound alike.

**Fairness.** `FairSpec` of `Engine` assumes weak fairness of each thread's
`LockStep`: a thread that can take its next step at a lock is run eventually.
The operating system's scheduler gives that, and the code between two lock
operations is a few assignments. Nothing is assumed of a build, of the
evaluation holding a snapshot, nor that a thread calls again: a build or a batch
may hang for ever. Calls are bounded by `MaxCalls`, and the bound matters:
`std::sync::RwLock` promises no priority to writers, so with an endless supply
of readers a writer could starve in the model and in the program. The liveness
properties are of finitely many calls. All other modules are safety only.

**Bounds that are part of a module** are `MaxCalls` (Engine), `BatchSize`
(Serving), `Rulesets`, `Queries`, `Geometries`, `Fringed` and `Wrapped`
(Evaluation), `Points` and `Radii` (Distance), `Texts`, `Tested` and `Windows`
(Temporal), `MaxWrites` and `MaxResults` (Results),
`IntLimit` and `HandWritten` (PropertyValues, WhereExpr) and `MaxBuilds`
(Construction), each declared as such. Deadlock is checked in all runs but those of `Temporal`, which
ends once a text is rejected or a window tested, and of `Construction`, which
ends when the last ruleset was begun and nothing is in use; `Finished`
marks a state of Engine and Serving in which every thread has returned from its
last call.

## What is proved

The TLA+ proof system checks what follows for every value of the constants: any
set of threads, any number of calls, overwrites and results, any rules, queries,
candidates, documents and bounds.

- `TypeCorrect`, `InvariantHolds`, `ReportNeverAhead`, `IdsUnique`, `NoRingOfWaits`
  (EngineProofs): the type invariant and the three safety invariants of `Engine`.
- `RefinesAtomicEngine`: every behaviour of `Engine` is one of `AtomicEngine`. So is
  every behaviour of `Serving` (`ServingImplementsAtomicEngine`), and `Results` takes no
  other steps of the register it is built on (`ResultsUseTheRegister`), which is the one
  the engine implements.
- `ServingTypeCorrect`, `SlotsAreKeyed`, `BatchesAreAtomic`, `WarmSlotsStay`
  (EngineProofs): those of `Serving`, for any rules and batch size.
- `ResultsTypeCorrect`, `ResultsInvariant`, `MasksAreWithinTheirCalls`,
  `RichViewsAreNotOlder`, `ViewsOfOneRulesetAgree`, `MasksAreOfTheCandidatesPassed`,
  `FeaturesAreOfTheMask`, `RichViewsAreCached` (ResultsProofs): every property of
  `Results` that a run checks.
- `TemporalTypeCorrect`, `AcceptsExactlyTheCalendar`, `WeekdaysAreGregorian`,
  `ActiveOverMidnight` (TemporalProofs): every property of `Temporal`, for all years
  of four digits and all windows. The weekday is proved of every accepted date but those
  of January and February of the year 0000, of which it is false (`year_zero`).
- `DistanceTypeCorrect`, `RulesAreNeverDropped` (DistanceProofs): every property of
  `Distance`, for any rules, any candidate of several points, any distance and any
  resolution of the globe.
- `ConstructionTypeCorrect`, `SavedRulesetsAlwaysLoad`, `LookupIsExact`,
  `HandlesAlwaysNameTheirRule`, `PriorityFaultsAlwaysAgree` (ConstructionProofs):
  every property of `Construction`, for any number of rules and of rulesets.
- `EvaluationTypeCorrect`, `MatchesAreAlwaysExact`, `MasksAlwaysTellTheOutcome`,
  `WinnersHavePrecedence`, `FirstProvidersWin`, `AggregatesAlwaysDescribe`,
  `SharesOfTheWoundAlike` (EvaluationProofs): every property of `Evaluation`, for any
  number of rules, any keys and any numbers. That shares are of the candidate is
  proved of candidates whose components are all wound one way; of others it is
  false (`mixed_winding`).
- `WhereTypeCorrect`, `IndexAlwaysAdmitsWhatAScanAdmits`, `MismatchesNeverMatch`,
  `EqualityIsAlwaysOfValues` (WhereExprProofs): every property of `WhereExpr`, for any
  properties and clause trees of any width and depth. That equality is of values is
  proved of rulesets read from GeoJSON or saved by the engine (`HandWritten` is
  FALSE, as in the run); of those others write it is false (`hand_written`).

Every invariant and every action property of a passing run is stated by one of these
theorems; the conditions of three of them are the ones the findings show to be
needed.

**What they assume.** Each module names the assumptions on its constants, and the
runs evaluate them:

- `EngineAssumption`: the name of a free lock is not a thread, the bound is a
  number. `ServingAssumption`: so is the batch size. `ResultsAssumption`: the JavaScript
  thread is a thread, the bounds are numbers, a torn copy is none of the contents
  the caller wrote.
- `TemporalAssumption`: texts are made of numbers of two and four digits, and the
  fields of a window of integers.
- `DistanceAssumption`: cosines do not grow from the equator to the pole, rules and
  candidates have points on the globe, a rule's vertices are among the samples
  of its arcs. `SphereAssumption`: the one fact of spherical geometry that is used. Two
  points within a distance differ by no more than it in latitude, and by less
  in longitude than `expand_envelope` widens at the latitude the distance reaches. The
  run evaluates it on its grid; on the sphere it follows from
  sin(dLon) <= sin(d) / cos(lat).
- `PropertyValuesAssumption`, `ConstructionAssumption`: an i64 has both signs; documents
  are sequences of features whose members are JSON, programs sequences of what
  Rust's types let a rule be, and `None` is none of the ids and handles.
- `WhereAssumption`: the properties of rules and the operands of clauses are JSON
  (in which no number is infinite), and the where members of queries are trees:
  the members of an object stand under it and nowhere else, and an operator that takes one operand
  has one. Whether names, operators and operands are supported is not assumed; `parse`
  decides it.
- `EvaluationAssumption`: rules have numbered positions and priorities, queries are
  what the builders can make, properties are values of the types Rust gives them,
  and the components of a candidate share no cell, as OGC validity demands of a
  MultiPolygon. (Priorities are natural because the gates of Construction reject
  others.)

**The argument for Engine.** None of the invariants is inductive alone. `IInv`
adds what the locks mean: who holds the write lock and the mutex can be read off
the program counters (a reader is at `reading`; a writer from `wantSwapState` to
`unlockWrite`; the mutex's holder at `readingState` or from `storing` to
`unlockState`), so two threads are never between the two stores. The report then lags
the log by exactly one while some thread is at `counting`, and by nothing at any
other time. Ids in use are distinct and below `nextId`, which is why drawing the
next one keeps them so.

**The argument for the refinement.** A replacement takes effect in `StoreArc`,
when the `Arc` is stored; its answer is the report it is about to write
(`AtomicAnswer`), since no other replacement can come in between. A snapshot takes
effect in `CloneSnapshot` and a report in `ReadReport`, when the lag is zero. All
other steps but the calls stutter.

**The argument for Serving.** Its steps either are Engine's or leave Engine's
variables alone, so `IInv` carries over (`EngineIsPart`). `ServesOneRuleset(t)` says
that a thread's snapshot was published, that a filled slot holds the ruleset the memo
is keyed by, and that while a batch is prepared the memo is keyed by its snapshot.
Ids identify, so equal keys are equal rulesets, and what `EvaluateRelate` reads
from a slot is the snapshot's.

**The argument for Results.** `ResultsInv` keeps, for each result (`ResultAt`) and
each promise under way (`TaskAt`), where its ruleset stands in the log and where
its candidates stand among the contents of the `Buffer`. The ruleset of a mask is at
a place between the length of the log at the call and at the hand-over; a
rich view is at the length of the log at its call, which is no less, and nothing is
published while it is evaluated, because a synchronous call holds the JavaScript
thread (`JsAt`). Candidates differ from those of the call only if the content of
the `Buffer` has grown past the call's. Log and `Buffer` only grow, so none of this is
undone (`ResultStable`, `TaskStable`); and since no ruleset is published twice, its
place in the log is its position. The register this rests on is the one
`RefinesAtomicEngine` shows the engine to be.

**The argument for Temporal.** `TemporalInv` says that the instant is what the text
parses to and that the window was tested against it; the rest is arithmetic. The
congruence of `iso_weekday` takes a year apart as 100 * j + k, and so does
`DayNumber`, the count of days, once the year is written that way
(`ZellerIsGregorian`); the months contribute a table of twelve. The lengths of months
come from the same count (`DaysOfMonths`). A window over midnight is one that starts
after it ends, and "the clock goes round" is arithmetic modulo 24 (`RoundTheClock`).

**The argument for Distance.** A rule within the distance has a point near a point of
the candidate. By `SphereAssumption` and because cosines fall towards the poles
(`WidenedGrows`), the expanded envelope has that point or the same one a turn away
(`EnvelopeCovers`); its parts split at the antimeridian have it as it is
(`WrappedCovers`). The point is in the planar box of the rule, or the rule has
a box in the fringe index that has it (`IndexesReturn`). `DistanceInv` adds that
the fringe index is the same from the query that builds it on.

**The argument for Construction.** `ConstructionInv` has a part for each thing a
state remembers. `ActiveInv`: the active ruleset went through the gates and has an
identity below the next. `SavedInv`: the saved document is the canonical form of rules
that did. A value that any loader makes is written and read as itself
(`ValuesRoundTrip`) and the gates pass what passed them before (`AdmittedPass`), so
loading it gives the same rules (`InputInv`). `HandleInv`: a `RuleId` has an identity
already drawn, so no later ruleset has it. `InputInv` also keeps what the last document
came to; with only priorities at fault, both readers stop at the first faulty one or
reject the same number (`GeoJsonFaultsPriorities`, `CanonicalFaultsPriorities`). For the
lookup: `IdOrder` is sorted and ids are distinct (`IdOrderSorts`, `KeysGrow`), one
round of the search keeps the place it looks for within its bounds
(`HalvingFinds`), and the search ends by induction on their difference
(`SearchFinds`).

**The argument for Evaluation.** What an earlier candidate left behind must not
matter: an entry point needs no more of the state before it than `TypeOK`, and
whatever `slots` holds, `Admit` prepares every rule it then relates (`AdmitIs`).
The mask of `intersects` leaves buffer and memo as `Admit` does, and its scan finds a
rule exactly if there is one to list (`EarlyExitMasks`). `PipelineIsExact` follows the buffer from the hits of the index queries through
`retain` and the exact check to exactly the applicable rules, in order, given that the
hits miss no rule the predicate holds of (`CandidatesAre`, which for `withinDistance` is
what `RulesAreNeverDropped` proves of Distance). `PrecedenceIsStrict` makes the order total, since positions
break ties, so `SortBy` has one result; `FoldProvides` shows by induction on the
number of rules folded that a key has the value of the first of them that has it.
`EvaluationInv` adds the properties to `TypeOK`: an answer is about the query
and the ruleset it was made for, and those change only after it was collected.

**The argument for the numbers.** A match lists the applicable rules as declared,
a resolution by precedence; all that matters is that either enumerates them, each
once (`SortedLists`). Skipping the rules without a number leaves an enumeration of
the contributors (`NumbersAre`). `FoldExists` gives the function by which
`FoldLeft` goes through a sequence, and induction along its places shows what the
folds of `numeric` find: a bound that is one of the numbers (`LesserBounds`,
`GreaterBounds`), or their sum and count (`SumCounts`). The sum over a sequence
and the sum over a set, which the property speaks of, both count the same credits
and debts (`Weight`), so the order in which either is added up does not matter
(`WeightOfPlaces`, `SumFunctionIs`). `AreaIs` adds up components of which no two
share a cell: wound alike they make plus or minus the number of their cells.

**The argument for waiting.** By `IInv` the holder of a lock is known from its
program counter, so whoever is waited for is inside a critical section. Of the points of
one, only `wantSwapState` waits: for the mutex, whose holder is at `readingState` or
further on in `swap` and waits for nothing. A chain of waiting calls hence has at most three.
That is the safety half of the liveness properties, for any number of threads.

**The argument for WhereExpr.** That there are functions `holds` and `matches` with
the values their definitions give each place is `RecursionByPlace`: what a node
is depends on the places below it alone (`NodeEvalIsLocal`, `MatchesAreLocal`), so
one extends such a function place by place (`EvalUnfolds`, `IndexableMatchesUnfolds`).
With the unfolded functions, an induction over the places of a tree shows that
a node the index answers is answered with the rules a scan of that node admits
(`IndexAgrees`; for an equality or a list, `PredicatesAreServed`, because `IndexOf`
has each value of each field with all its positions, `IndexFinds`), and that a
node that holds of a rule had something of it to compare (`MatchesAreCompared`).
`IInv` keeps, between the preparation of a query and its retain, that the filter is
what a scan of the rules would give: the index is that of the rules, and neither changes
under a query. For equality, every number that is read is normal: an Int if it is
integral and fits, a Float if not (`ReadValuesAreNormal`), and what `to_canonical` wrote
of a normal value is read as that value (`WrittenValuesAreNormal`), so equal numbers are
equal values (`EqualityIsBothBounds`).

**Induction.** The library's induction theorems take an operator, which the provers
at hand cannot instantiate. `NatSetInduction` states induction of a set of
numbers, and is proved from the finiteness of an interval; binary search, the merge
of properties, folds, sums and trees are proved with it.

Only model-checked: `SnapshotsDoNotWaitForBuilds` and `SwapsDoNotWaitForQueries`, because
liveness under fairness is beyond the prover.

## What is not modelled, and why

- Geometry: DE-9IM relations, R\*-trees, OGC validity, areas and the interpolation
  of great circles are floating-point computations of other crates. Evaluation takes
  their verdicts as inputs and assumes that the planar boxes are exact for the
  DE-9IM predicates and that the index queries of a distance together miss no
  rule, which is what `NeverDrops` of Distance says.
- What lies between two samples of an arc. Distance takes the samples for the
  arc, with radii no smaller than the distance between two of them. The code's
  margin of 0.0001 degrees covers the sagitta of a great circle between samples
  (2.4 m), but the latitude between two samples of an edge that follows a parallel
  is undershot by 2.43 m times the tangent of the latitude, more than the margin's 11 m
  beyond 78 degrees; and the samples of an edge across the antimeridian leave up
  to a step on either side of it uncovered. No run can exhibit this in
  integers of 32 bits; it is listed as a hazard.
- The rounding of sums and averages, their order, and overflow to infinity:
  numbers are exact in the model.
- A poisoned lock: it needs a panic under a lock, and the code under the locks
  is a few assignments.
- Wall-clock times in the report: no document promises their order.
- JSON parsing and serialization beyond scalars, and wording.
- -0.0, and the rounding of integers beyond 2^53 when an integer meets a float:
  numbers are exact in the model.
- The text of a float: what `to_canonical` writes is taken to be read as the same
  float. `Cargo.toml` asks for serde_json without its `float_roundtrip`, and if no
  other dependency turns that feature on, a float of many digits may come back as
  its neighbour. The round trip shown is one of ids, priorities, types and of
  numbers short enough to be parsed exactly.
- A key written twice in one object of a canonical ruleset: properties are a
  function of the field. Such documents are also the only ones that the second
  reading of `from_canonical_slow` could still build, so that build has no step.
- Python and WebAssembly bindings: wrappers without state; Python's threads are the
  threads of Engine.
- Benchmarks, scripts and the integration server: harness code.

## Plan

Done, in this order: AtomicEngine, Engine and its proofs; Serving and its proofs;
Evaluation; Results; Temporal; PropertyValues and WhereExpr; Construction;
Aggregates; Distance; the proofs of Results; the proofs of Temporal, Distance, Construction and
Evaluation; WhereExpr without recursive operators, and its proofs. Nothing of the plan is
left. What would come next is outside these tools' reach: liveness proofs, and the
interpolation of arcs between samples.
