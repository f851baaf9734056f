------------------------------- MODULE Engine -------------------------------
(***************************************************************************)
(* core/src/runtime/engine.rs: the holder of the active ruleset.           *)
(*                                                                         *)
(* Threads share one Engine.  A query clones the active Arc under a read   *)
(* lock and evaluates outside it; a replacement builds a ruleset with no   *)
(* lock held and publishes it under the write lock and the report's mutex. *)
(* One action stands for one step between two points where another thread  *)
(* may run.                                                                *)
(*                                                                         *)
(* A ruleset is its identity: the id drawn from NEXT_RULESET_ID and the    *)
(* call that built it.  The report's rule_count, build_duration_ms and     *)
(* last_swap_time_unix_ms are attributes of the ruleset being swapped in,  *)
(* so they are abstracted to the field "of".                               *)
(***************************************************************************)
EXTENDS Naturals, Sequences

CONSTANTS Threads,   \* the threads that call the engine
          NoThread,  \* the holder of a free lock
          MaxCalls   \* bound: calls each thread makes

ASSUME EngineAssumption ==
  /\ NoThread \notin Threads
  /\ MaxCalls \in Nat

VARIABLES
  nextId,     \* NEXT_RULESET_ID
  ruleset,    \* what Engine.ruleset points to
  state,      \* Engine.state, the report
  writer,     \* the thread that holds Engine.ruleset for writing
  readers,    \* the threads that hold Engine.ruleset for reading
  mutex,      \* the thread that holds Engine.state
  pc,         \* where each thread is
  mine,       \* the ruleset each replacing thread has built
  answer,     \* what each thread's last answered call returned
  calls,      \* calls each thread has begun
  published   \* history: the rulesets ever stored in Engine.ruleset

lockVars == <<writer, readers, mutex>>
vars == <<nextId, ruleset, state, writer, readers, mutex, pc, mine, answer,
          calls, published>>

Rulesets  == [id : Nat, maker : Threads \cup {NoThread}, call : Nat]
NoRuleset == [id |-> 0, maker |-> NoThread, call |-> 0]

QueryPoints   == {"wantRead", "reading", "using"}
CurrentPoints == {"wantState", "readingState"}
BuildPoints   == {"building", "gating"}
SwapPoints    == {"wantWrite", "wantSwapState", "storing", "counting",
                  "unlockState", "unlockWrite"}
Points == {"idle"} \cup QueryPoints \cup CurrentPoints \cup BuildPoints
            \cup SwapPoints

NoAnswer       == [kind |-> "none",     version |-> 0, of |-> NoRuleset]
Failure        == [kind |-> "error",    version |-> 0, of |-> NoRuleset]
SnapshotOf(r)  == [kind |-> "snapshot", version |-> 0, of |-> r]
ReportAnswer   == [kind |-> "report", version |-> state.version,
                   of |-> state.of]

Goto(t, point) == pc' = [pc EXCEPT ![t] = point]

-----------------------------------------------------------------------------
\* Engine::wrap of the first ruleset.
Init ==
  /\ nextId = 2
  /\ ruleset = [id |-> 1, maker |-> NoThread, call |-> 0]
  /\ state = [version |-> 1, of |-> ruleset]
  /\ writer = NoThread
  /\ readers = {}
  /\ mutex = NoThread
  /\ pc = [t \in Threads |-> "idle"]
  /\ mine = [t \in Threads |-> NoRuleset]
  /\ answer = [t \in Threads |-> NoAnswer]
  /\ calls = [t \in Threads |-> 0]
  /\ published = <<ruleset>>

Call(t, point) ==
  /\ pc[t] = "idle"
  /\ calls[t] < MaxCalls
  /\ calls' = [calls EXCEPT ![t] = @ + 1]
  /\ Goto(t, point)
  /\ UNCHANGED <<nextId, ruleset, state, lockVars, mine, answer, published>>

-----------------------------------------------------------------------------
\* query, query_mask, resolve, resolve_mask, and every other user of
\* snapshot(): the read guard is a temporary, dropped once the Arc is cloned.
CallQuery(t) == Call(t, "wantRead")

AcquireRead(t) ==
  /\ pc[t] = "wantRead"
  /\ writer = NoThread
  /\ readers' = readers \cup {t}
  /\ Goto(t, "reading")
  /\ UNCHANGED <<nextId, ruleset, state, writer, mutex, mine, answer, calls,
                 published>>

\* Mutant: the read guard outlives snapshot(), held through the evaluation.
CloneSnapshotHoldingLock(t) ==
  /\ pc[t] = "reading"
  /\ answer' = [answer EXCEPT ![t] = SnapshotOf(ruleset)]
  /\ Goto(t, "using")
  /\ UNCHANGED <<nextId, ruleset, state, lockVars, mine, calls, published>>

CloneSnapshot(t) ==
  /\ pc[t] = "reading"
  /\ answer' = [answer EXCEPT ![t] = SnapshotOf(ruleset)]
  /\ readers' = readers \ {t}
  /\ Goto(t, "using")
  /\ UNCHANGED <<nextId, ruleset, state, writer, mutex, mine, calls, published>>

\* The batch is evaluated and the snapshot dropped; no lock is held.
DropSnapshot(t) ==
  /\ pc[t] = "using"
  /\ Goto(t, "idle")
  /\ UNCHANGED <<nextId, ruleset, state, lockVars, mine, answer, calls,
                 published>>

-----------------------------------------------------------------------------
CallCurrent(t) == Call(t, "wantState")

\* Mutant: current() reads the report without its mutex.
AcquireStateUnlocked(t) ==
  /\ pc[t] = "wantState"
  /\ Goto(t, "readingState")
  /\ UNCHANGED <<nextId, ruleset, state, lockVars, mine, answer, calls, published>>

AcquireState(t) ==
  /\ pc[t] = "wantState"
  /\ mutex = NoThread
  /\ mutex' = t
  /\ Goto(t, "readingState")
  /\ UNCHANGED <<nextId, ruleset, state, writer, readers, mine, answer, calls,
                 published>>

ReadReport(t) ==
  /\ pc[t] = "readingState"
  /\ answer' = [answer EXCEPT ![t] = ReportAnswer]
  /\ mutex' = NoThread
  /\ Goto(t, "idle")
  /\ UNCHANGED <<nextId, ruleset, state, writer, readers, mine, calls,
                 published>>

-----------------------------------------------------------------------------
\* Mutant: the write lock is taken before the build.
CallReplaceUnderLock(t) ==
  /\ pc[t] = "idle"
  /\ calls[t] < MaxCalls
  /\ writer = NoThread /\ readers = {}
  /\ writer' = t
  /\ calls' = [calls EXCEPT ![t] = @ + 1]
  /\ Goto(t, "building")
  /\ UNCHANGED <<nextId, ruleset, state, readers, mutex, mine, answer, published>>

\* replace, replace_from_geojson, replace_from_canonical.
CallReplace(t) == Call(t, "building")

FailAt(t, point) ==
  /\ pc[t] = point
  /\ answer' = [answer EXCEPT ![t] = Failure]
  /\ mine' = [mine EXCEPT ![t] = NoRuleset]
  /\ Goto(t, "idle")
  /\ UNCHANGED <<nextId, ruleset, state, lockVars, calls, published>>

\* The input does not parse: no ruleset id is drawn.
ParseFails(t) == FailAt(t, "building")

\* Mutant: the counter is read but not advanced.
TakeIdWithoutAdd(t) ==
  /\ pc[t] = "building"
  /\ mine' = [mine EXCEPT ![t] =
                [id |-> nextId, maker |-> t, call |-> calls[t]]]
  /\ Goto(t, "gating")
  /\ UNCHANGED <<nextId, ruleset, state, lockVars, answer, calls, published>>

\* build_indexed draws the id before it looks at the first rule.
TakeId(t) ==
  /\ pc[t] = "building"
  /\ mine' = [mine EXCEPT ![t] =
                [id |-> nextId, maker |-> t, call |-> calls[t]]]
  /\ nextId' = nextId + 1
  /\ Goto(t, "gating")
  /\ UNCHANGED <<ruleset, state, lockVars, answer, calls, published>>

\* A rule fails the construction gate: the id is spent, nothing is published.
GateRejects(t) == FailAt(t, "gating")

GatePasses(t) ==
  /\ pc[t] = "gating"
  /\ Goto(t, "wantWrite")
  /\ UNCHANGED <<nextId, ruleset, state, lockVars, mine, answer, calls,
                 published>>

\* swap: write lock, then mutex; the guards drop in the reverse order.
AcquireWrite(t) ==
  /\ pc[t] = "wantWrite"
  /\ writer = NoThread
  /\ readers = {}
  /\ writer' = t
  /\ Goto(t, "wantSwapState")
  /\ UNCHANGED <<nextId, ruleset, state, readers, mutex, mine, answer, calls,
                 published>>

\* Mutant: the report is updated without its mutex.
AcquireNoSwapState(t) ==
  /\ pc[t] = "wantSwapState"
  /\ Goto(t, "storing")
  /\ UNCHANGED <<nextId, ruleset, state, lockVars, mine, answer, calls, published>>

AcquireSwapState(t) ==
  /\ pc[t] = "wantSwapState"
  /\ mutex = NoThread
  /\ mutex' = t
  /\ Goto(t, "storing")
  /\ UNCHANGED <<nextId, ruleset, state, writer, readers, mine, answer, calls,
                 published>>

StoreArc(t) ==
  /\ pc[t] = "storing"
  /\ ruleset' = mine[t]
  /\ published' = Append(published, mine[t])
  /\ Goto(t, "counting")
  /\ UNCHANGED <<nextId, state, lockVars, mine, answer, calls>>

\* Mutant: the version is counted down.
UpdateReportBackwards(t) ==
  /\ pc[t] = "counting"
  /\ state' = [version |-> state.version - 1, of |-> mine[t]]
  /\ answer' = [answer EXCEPT ![t] = ReportAnswer']
  /\ Goto(t, "unlockState")
  /\ UNCHANGED <<nextId, ruleset, lockVars, mine, calls, published>>

UpdateReport(t) ==
  /\ pc[t] = "counting"
  /\ state' = [version |-> state.version + 1, of |-> mine[t]]
  /\ answer' = [answer EXCEPT ![t] = ReportAnswer']
  /\ Goto(t, "unlockState")
  /\ UNCHANGED <<nextId, ruleset, lockVars, mine, calls, published>>

ReleaseState(t) ==
  /\ pc[t] = "unlockState"
  /\ mutex' = NoThread
  /\ Goto(t, "unlockWrite")
  /\ UNCHANGED <<nextId, ruleset, state, writer, readers, mine, answer, calls,
                 published>>

ReleaseWrite(t) ==
  /\ pc[t] = "unlockWrite"
  /\ writer' = NoThread
  /\ mine' = [mine EXCEPT ![t] = NoRuleset]
  /\ Goto(t, "idle")
  /\ UNCHANGED <<nextId, ruleset, state, readers, mutex, answer, calls,
                 published>>

-----------------------------------------------------------------------------
Query(t)   == CallQuery(t) \/ AcquireRead(t) \/ CloneSnapshot(t) \/ DropSnapshot(t)
Current(t) == CallCurrent(t) \/ AcquireState(t) \/ ReadReport(t)
Build(t)   == CallReplace(t) \/ ParseFails(t) \/ TakeId(t) \/ GateRejects(t)
                \/ GatePasses(t)
Swap(t)    == AcquireWrite(t) \/ AcquireSwapState(t) \/ StoreArc(t)
                \/ UpdateReport(t) \/ ReleaseState(t) \/ ReleaseWrite(t)

Step(t) == Query(t) \/ Current(t) \/ Build(t) \/ Swap(t)

\* Every thread has returned from its last call: not a deadlock.
Finished ==
  /\ \A t \in Threads : pc[t] = "idle" /\ calls[t] = MaxCalls
  /\ UNCHANGED vars

Next == (\E t \in Threads : Step(t)) \/ Finished

Spec == Init /\ [][Next]_vars

(***************************************************************************)
(* The scheduler runs a thread that can run.  Nothing is assumed of a      *)
(* build, which may take for ever, nor of the evaluation that holds a      *)
(* snapshot, nor that a thread makes another call.                         *)
(***************************************************************************)
LockStep(t) == AcquireRead(t) \/ CloneSnapshot(t) \/ AcquireState(t)
                 \/ ReadReport(t) \/ Swap(t)

FairSpec == Spec /\ \A t \in Threads : WF_vars(LockStep(t))

-----------------------------------------------------------------------------
TypeOK ==
  /\ nextId \in Nat
  /\ ruleset \in Rulesets
  /\ state \in [version : Nat, of : Rulesets]
  /\ writer \in Threads \cup {NoThread}
  /\ readers \subseteq Threads
  /\ mutex \in Threads \cup {NoThread}
  /\ pc \in [Threads -> Points]
  /\ mine \in [Threads -> Rulesets]
  /\ answer \in [Threads -> [kind : {"none", "error", "snapshot", "report"},
                             version : Nat, of : Rulesets]]
  /\ calls \in [Threads -> Nat]
  /\ published \in Seq(Rulesets)

\* "the counters always move with the published ruleset, never ahead of it"
\* (engine.rs, current): whatever instant the report is looked at, it is the
\* report of a ruleset already stored in the Arc, under the version that
\* ruleset was published as; and whenever a thread can take the mutex, it is
\* the report of the newest one.
ReportDescribesPublished ==
  /\ state.version \in 1..Len(published)
  /\ state.of = published[state.version]
  /\ (mutex = NoThread => state.version = Len(published))

\* The id keys the per-thread memo of prepared geometries, so two rulesets that
\* can be evaluated must not share one, however many builds run at once and
\* whichever of them fail (prepared_cache.rs: "Assigns each Ruleset a unique
\* identity").
Live ==
  {published[i] : i \in 1..Len(published)} \cup
  {mine[t] : t \in {u \in Threads : mine[u] # NoRuleset}}

IdsIdentify == \A r, s \in Live : r.id = s.id => r = s

\* Who holds the lock a thread waits at.
WaitsFor(t) ==
  CASE pc[t] = "wantRead"                       -> {writer} \ {NoThread}
    [] pc[t] = "wantWrite"                      -> ({writer} \cup readers) \ {NoThread}
    [] pc[t] \in {"wantState", "wantSwapState"} -> {mutex} \ {NoThread}
    [] OTHER                                    -> {}

\* Whoever is waited for is neither building nor evaluating, and waits at most
\* for one that waits for nobody: a chain of three at the longest and never a
\* ring ("no other path holds both locks, so the ordering is deadlock-free",
\* engine.rs, swap).
WaitsAreShort ==
  \A t \in Threads : \A u \in WaitsFor(t) :
    /\ pc[u] \notin BuildPoints \cup {"using"}
    /\ \A v \in WaitsFor(u) : WaitsFor(v) = {}

\* A query waits for no build, which takes no lock, and for no other query:
\* a thread asking for a snapshot gets one even when every build in progress
\* hangs ("a replacement never blocks a query", engine.rs).
SnapshotsDoNotWaitForBuilds ==
  \A t \in Threads : pc[t] = "wantRead" ~> pc[t] = "using"

\* Publication waits for no evaluation: a built ruleset is published even when
\* every snapshot taken is held for ever.
SwapsDoNotWaitForQueries ==
  \A t \in Threads : pc[t] = "wantWrite" ~> pc[t] = "idle"

-----------------------------------------------------------------------------
(***************************************************************************)
(* The engine implements the atomic register.  A replacement takes effect  *)
(* when the Arc is stored: both locks are held, so nobody can look before  *)
(* the report has followed.                                                *)
(***************************************************************************)
PendingCall ==
  [t \in Threads |->
     CASE pc[t] \in {"wantRead", "reading"}                            -> "snapshot"
       [] pc[t] \in CurrentPoints                                      -> "current"
       [] pc[t] \in BuildPoints \cup {"wantWrite", "wantSwapState", "storing"} -> "replace"
       [] OTHER                                                        -> "none"]

AtomicAnswer ==
  [t \in Threads |->
     IF pc[t] = "counting"
       THEN [kind |-> "report", version |-> Len(published), of |-> mine[t]]
       ELSE answer[t]]

Atomic == INSTANCE AtomicEngine
            WITH log <- published, pending <- PendingCall, answer <- AtomicAnswer

ImplementsAtomicEngine == Atomic!AtomicSpec
=============================================================================
