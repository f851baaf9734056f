---------------------------- MODULE EngineProofs ----------------------------
(***************************************************************************)
(* What holds of the engine for every set of threads and every number of   *)
(* calls.  IInv is the inductive invariant: who holds which lock is read   *)
(* off the program counters, the report lags the Arc by one publication    *)
(* exactly while a thread is between the two stores, and no id is drawn    *)
(* twice.                                                                  *)
(*                                                                         *)
(* And for every set of rules and every batch size, what holds of Serving: *)
(* a batch is evaluated against, and named by, one published ruleset.  The *)
(* argument rests on the engine's ids: a warm slot carries the id its memo *)
(* is keyed by, the memo is keyed by the snapshot's id, and no two         *)
(* published rulesets share an id.                                         *)
(***************************************************************************)
EXTENDS Serving, SequenceTheorems, TLAPS

HoldsWrite == {"wantSwapState", "storing", "counting", "unlockState",
               "unlockWrite"}
HoldsState == {"readingState", "storing", "counting", "unlockState"}
HoldsRuleset == {"gating"} \cup SwapPoints
Unpublished == {"gating", "wantWrite", "wantSwapState", "storing"}

LocksMatchPoints ==
  /\ \A t \in Threads :
       /\ t \in readers <=> pc[t] = "reading"
       /\ writer = t <=> pc[t] \in HoldsWrite
       /\ mutex = t <=> pc[t] \in HoldsState
  /\ writer # NoThread => readers = {}

ReportFollowsArc ==
  /\ Len(published) \in Nat \ {0}
  /\ ruleset = published[Len(published)]
  /\ state.version \in 1..Len(published)
  /\ state.of = published[state.version]
  /\ \A t \in Threads : pc[t] = "counting" =>
       /\ mine[t] = published[Len(published)]
       /\ Len(published) = state.version + 1
  /\ (\A t \in Threads : pc[t] # "counting") => Len(published) = state.version

IdsDistinct ==
  /\ \A i \in 1..Len(published) : published[i].id < nextId
  /\ \A i, j \in 1..Len(published) : published[i].id = published[j].id => i = j
  /\ \A t \in Threads : pc[t] \in HoldsRuleset => mine[t].id < nextId
  /\ \A t, u \in Threads :
       pc[t] \in HoldsRuleset /\ pc[u] \in HoldsRuleset /\ mine[t].id = mine[u].id
         => t = u
  /\ \A t \in Threads, i \in 1..Len(published) :
       pc[t] \in HoldsRuleset /\ mine[t].id = published[i].id
         => mine[t] = published[i] /\ pc[t] \notin Unpublished
  /\ \A t \in Threads : pc[t] \notin HoldsRuleset => mine[t] = NoRuleset

IInv == LocksMatchPoints /\ ReportFollowsArc /\ IdsDistinct

-----------------------------------------------------------------------------
\* Every variable keeps its type.
THEOREM TypeCorrect == Spec => []TypeOK
<1>1. Init => TypeOK
  BY EngineAssumption
  DEF Init, TypeOK, Rulesets, NoRuleset, NoAnswer, Points
<1>2. TypeOK /\ [Next]_vars => TypeOK'
  <2>0. ASSUME TypeOK, UNCHANGED vars  PROVE TypeOK'
    BY <2>0 DEF TypeOK, vars
  <2> SUFFICES ASSUME TypeOK, NEW t \in Threads, Step(t)
               PROVE  TypeOK'
    BY <2>0 DEF Next, Finished
  <2> USE EngineAssumption
      DEF TypeOK, Goto, lockVars, Points, QueryPoints, CurrentPoints,
          BuildPoints, SwapPoints
  <2>1. CASE Query(t)
    <3>1. CASE CallQuery(t)  BY <3>1 DEF CallQuery, Call
    <3>2. CASE AcquireRead(t)  BY <3>2 DEF AcquireRead
    <3>3. CASE CloneSnapshot(t)  BY <3>3 DEF CloneSnapshot, SnapshotOf
    <3>4. CASE DropSnapshot(t)  BY <3>4 DEF DropSnapshot
    <3>5. QED  BY <2>1, <3>1, <3>2, <3>3, <3>4 DEF Query
  <2>2. CASE Current(t)
    <3>1. CASE CallCurrent(t)  BY <3>1 DEF CallCurrent, Call
    <3>2. CASE AcquireState(t)  BY <3>2 DEF AcquireState
    <3>3. CASE ReadReport(t)  BY <3>3 DEF ReadReport, ReportAnswer
    <3>4. QED  BY <2>2, <3>1, <3>2, <3>3 DEF Current
  <2>3. CASE Build(t)
    <3>1. CASE CallReplace(t)  BY <3>1 DEF CallReplace, Call
    <3>2. CASE ParseFails(t)
      BY <3>2 DEF ParseFails, FailAt, Failure, NoRuleset, Rulesets
    <3>3. CASE TakeId(t)  BY <3>3 DEF TakeId, Rulesets
    <3>4. CASE GateRejects(t)
      BY <3>4 DEF GateRejects, FailAt, Failure, NoRuleset, Rulesets
    <3>5. CASE GatePasses(t)  BY <3>5 DEF GatePasses
    <3>6. QED  BY <2>3, <3>1, <3>2, <3>3, <3>4, <3>5 DEF Build
  <2>4. CASE Swap(t)
    <3>1. CASE AcquireWrite(t)  BY <3>1 DEF AcquireWrite
    <3>2. CASE AcquireSwapState(t)  BY <3>2 DEF AcquireSwapState
    <3>3. CASE StoreArc(t)  BY <3>3 DEF StoreArc
    <3>4. CASE UpdateReport(t)  BY <3>4 DEF UpdateReport, ReportAnswer
    <3>5. CASE ReleaseState(t)  BY <3>5 DEF ReleaseState
    <3>6. CASE ReleaseWrite(t)
      BY <3>6 DEF ReleaseWrite, NoRuleset, Rulesets
    <3>7. QED  BY <2>4, <3>1, <3>2, <3>3, <3>4, <3>5, <3>6 DEF Swap
  <2>5. QED  BY <2>1, <2>2, <2>3, <2>4 DEF Step
<1>3. QED  BY <1>1, <1>2, PTL DEF Spec

\* A step leaves every lock with the thread its program counter says.
LEMMA LocksStep ==
  ASSUME TypeOK, TypeOK', IInv, [Next]_vars
  PROVE  LocksMatchPoints'
<1> USE EngineAssumption DEF IInv, LocksMatchPoints, TypeOK, Goto, lockVars, HoldsWrite,
        HoldsState
<1>1. ASSUME NEW t \in Threads, Query(t)
      PROVE  LocksMatchPoints'
  <2>1. CASE CallQuery(t)  BY <2>1 DEF CallQuery, Call
  <2>2. CASE AcquireRead(t)  BY <2>2 DEF AcquireRead
  <2>3. CASE CloneSnapshot(t)  BY <2>3 DEF CloneSnapshot
  <2>4. CASE DropSnapshot(t)  BY <2>4 DEF DropSnapshot
  <2>5. QED  BY <1>1, <2>1, <2>2, <2>3, <2>4 DEF Query
<1>2. ASSUME NEW t \in Threads, Current(t)
      PROVE  LocksMatchPoints'
  <2>1. CASE CallCurrent(t)  BY <2>1 DEF CallCurrent, Call
  <2>2. CASE AcquireState(t)  BY <2>2 DEF AcquireState
  <2>3. CASE ReadReport(t)  BY <2>3 DEF ReadReport
  <2>4. QED  BY <1>2, <2>1, <2>2, <2>3 DEF Current
<1>3. ASSUME NEW t \in Threads, Build(t)
      PROVE  LocksMatchPoints'
  <2>1. CASE CallReplace(t)  BY <2>1 DEF CallReplace, Call
  <2>2. CASE ParseFails(t)  BY <2>2 DEF ParseFails, FailAt
  <2>3. CASE TakeId(t)  BY <2>3 DEF TakeId
  <2>4. CASE GateRejects(t)  BY <2>4 DEF GateRejects, FailAt
  <2>5. CASE GatePasses(t)  BY <2>5 DEF GatePasses
  <2>6. QED  BY <1>3, <2>1, <2>2, <2>3, <2>4, <2>5 DEF Build
<1>4. ASSUME NEW t \in Threads, Swap(t)
      PROVE  LocksMatchPoints'
  <2>1. CASE AcquireWrite(t)  BY <2>1 DEF AcquireWrite
  <2>2. CASE AcquireSwapState(t)  BY <2>2 DEF AcquireSwapState
  <2>3. CASE StoreArc(t)  BY <2>3 DEF StoreArc
  <2>4. CASE UpdateReport(t)  BY <2>4 DEF UpdateReport
  <2>5. CASE ReleaseState(t)  BY <2>5 DEF ReleaseState
  <2>6. CASE ReleaseWrite(t)  BY <2>6 DEF ReleaseWrite
  <2>7. QED  BY <1>4, <2>1, <2>2, <2>3, <2>4, <2>5, <2>6 DEF Swap
<1>5. CASE UNCHANGED vars  BY <1>5 DEF vars
<1>6. QED
  BY <1>1, <1>2, <1>3, <1>4, <1>5 DEF Next, Step, Finished

\* A step moves the Arc and the report together, under both locks.
LEMMA ReportStep ==
  ASSUME TypeOK, TypeOK', IInv, [Next]_vars
  PROVE  ReportFollowsArc'
<1> USE EngineAssumption DEF IInv, ReportFollowsArc, TypeOK, Goto, lockVars, HoldsWrite,
        HoldsState, LocksMatchPoints
<1>1. ASSUME NEW t \in Threads, Query(t)
      PROVE  ReportFollowsArc'
  <2>1. CASE CallQuery(t)  BY <2>1 DEF CallQuery, Call
  <2>2. CASE AcquireRead(t)  BY <2>2 DEF AcquireRead
  <2>3. CASE CloneSnapshot(t)  BY <2>3 DEF CloneSnapshot
  <2>4. CASE DropSnapshot(t)  BY <2>4 DEF DropSnapshot
  <2>5. QED  BY <1>1, <2>1, <2>2, <2>3, <2>4 DEF Query
<1>2. ASSUME NEW t \in Threads, Current(t)
      PROVE  ReportFollowsArc'
  <2>1. CASE CallCurrent(t)  BY <2>1 DEF CallCurrent, Call
  <2>2. CASE AcquireState(t)  BY <2>2 DEF AcquireState
  <2>3. CASE ReadReport(t)  BY <2>3 DEF ReadReport
  <2>4. QED  BY <1>2, <2>1, <2>2, <2>3 DEF Current
<1>3. ASSUME NEW t \in Threads, Build(t)
      PROVE  ReportFollowsArc'
  <2>1. CASE CallReplace(t)  BY <2>1 DEF CallReplace, Call
  <2>2. CASE ParseFails(t)  BY <2>2 DEF ParseFails, FailAt
  <2>3. CASE TakeId(t)  BY <2>3 DEF TakeId
  <2>4. CASE GateRejects(t)  BY <2>4 DEF GateRejects, FailAt
  <2>5. CASE GatePasses(t)  BY <2>5 DEF GatePasses
  <2>6. QED  BY <1>3, <2>1, <2>2, <2>3, <2>4, <2>5 DEF Build
<1>4. ASSUME NEW t \in Threads, Swap(t)
      PROVE  ReportFollowsArc'
  <2>1. CASE AcquireWrite(t)  BY <2>1 DEF AcquireWrite
  <2>2. CASE AcquireSwapState(t)  BY <2>2 DEF AcquireSwapState
  <2>3. CASE StoreArc(t)  BY <2>3 DEF StoreArc
  <2>4. CASE UpdateReport(t)  BY <2>4 DEF UpdateReport
  <2>5. CASE ReleaseState(t)  BY <2>5 DEF ReleaseState
  <2>6. CASE ReleaseWrite(t)  BY <2>6 DEF ReleaseWrite
  <2>7. QED  BY <1>4, <2>1, <2>2, <2>3, <2>4, <2>5, <2>6 DEF Swap
<1>5. CASE UNCHANGED vars  BY <1>5 DEF vars
<1>6. QED
  BY <1>1, <1>2, <1>3, <1>4, <1>5 DEF Next, Step, Finished

\* A step that draws no id and stores no Arc keeps the ids apart: rulesets are
\* only passed along or dropped.
LEMMA IdsKept ==
  ASSUME IdsDistinct, UNCHANGED <<nextId, published>>,
         \A t \in Threads :
           IF pc'[t] \in HoldsRuleset
             THEN /\ pc[t] \in HoldsRuleset
                  /\ mine'[t] = mine[t]
                  /\ pc'[t] \in Unpublished => pc[t] \in Unpublished
             ELSE mine'[t] = NoRuleset
  PROVE  IdsDistinct'
<1>1. \A t \in Threads : pc'[t] \in HoldsRuleset => mine'[t].id < nextId
  BY DEF IdsDistinct
<1>2. \A t, u \in Threads :
        pc'[t] \in HoldsRuleset /\ pc'[u] \in HoldsRuleset /\ mine'[t].id = mine'[u].id
          => t = u
  BY DEF IdsDistinct
<1>3. \A t \in Threads, i \in 1..Len(published) :
        pc'[t] \in HoldsRuleset /\ mine'[t].id = published[i].id
          => mine'[t] = published[i] /\ pc'[t] \notin Unpublished
  BY DEF IdsDistinct
<1>4. QED  BY <1>1, <1>2, <1>3 DEF IdsDistinct

\* The id drawn is above every id drawn before.
LEMMA IdsTake ==
  ASSUME TypeOK, IdsDistinct, NEW t \in Threads, TakeId(t)
  PROVE  IdsDistinct'
<1> DEFINE r == [id |-> nextId, maker |-> t, call |-> calls[t]]
<1>1. /\ nextId \in Nat /\ nextId' = nextId + 1
      /\ published' = published /\ published \in Seq(Rulesets)
      /\ mine'[t] = r /\ r.id = nextId
      /\ pc'[t] = "gating" /\ pc[t] = "building"
      /\ \A u \in Threads \ {t} : mine'[u] = mine[u] /\ pc'[u] = pc[u]
  BY DEF TypeOK, TakeId, Goto
<1>2. \A i \in 1..Len(published) : published[i].id \in Nat
  <2>1. \A i \in 1..Len(published) : published[i] \in Rulesets
    BY <1>1
  <2>2. QED  BY <2>1 DEF Rulesets
<1>3. \A u \in Threads : mine[u].id \in Nat
  BY DEF TypeOK, Rulesets
<1> HIDE DEF r
<1>4. \A i \in 1..Len(published) :
        published[i].id < nextId' /\ published[i].id # mine'[t].id
  BY <1>1, <1>2 DEF IdsDistinct
<1>5. \A u \in Threads : pc'[u] \in HoldsRuleset => mine'[u].id < nextId'
  BY <1>1, <1>3 DEF IdsDistinct
<1>6. \A u \in Threads \ {t} : pc'[u] \in HoldsRuleset => mine'[u].id # mine'[t].id
  BY <1>1, <1>3 DEF IdsDistinct
<1>7. \A u, v \in Threads :
        pc'[u] \in HoldsRuleset /\ pc'[v] \in HoldsRuleset /\ mine'[u].id = mine'[v].id
          => u = v
  BY <1>1, <1>6 DEF IdsDistinct
<1>8. \A u \in Threads, i \in 1..Len(published) :
        pc'[u] \in HoldsRuleset /\ mine'[u].id = published[i].id
          => mine'[u] = published[i] /\ pc'[u] \notin Unpublished
  BY <1>1, <1>4 DEF IdsDistinct
<1>9. \A u \in Threads : pc'[u] \notin HoldsRuleset => mine'[u] = NoRuleset
  BY <1>1 DEF IdsDistinct, HoldsRuleset
<1>10. QED
  BY <1>1, <1>4, <1>5, <1>7, <1>8, <1>9 DEF IdsDistinct

\* The ruleset stored was unpublished, so no id enters the log twice.
LEMMA IdsStore ==
  ASSUME TypeOK, IdsDistinct, NEW t \in Threads, StoreArc(t)
  PROVE  IdsDistinct'
<1> DEFINE n == Len(published)
<1>1. /\ published \in Seq(Rulesets) /\ n \in Nat /\ mine[t] \in Rulesets
      /\ mine' = mine /\ nextId' = nextId
      /\ pc[t] = "storing" /\ pc'[t] = "counting"
      /\ \A u \in Threads \ {t} : pc'[u] = pc[u]
  BY DEF TypeOK, StoreArc, Goto
<1>2. published' = Append(published, mine[t])
  BY DEF StoreArc
<1>3. /\ Len(published') = n + 1
      /\ published'[n + 1] = mine[t]
      /\ \A i \in 1..n : published'[i] = published[i]
  BY <1>1, <1>2
<1>4. pc[t] \in HoldsRuleset /\ pc[t] \in Unpublished
  BY <1>1 DEF HoldsRuleset, SwapPoints, Unpublished
<1>5. /\ mine[t].id < nextId
      /\ \A i \in 1..n : mine[t].id # published[i].id
      /\ \A u \in Threads \ {t} : pc[u] \in HoldsRuleset => mine[u].id # mine[t].id
  BY <1>4 DEF IdsDistinct
<1>6. \A u \in Threads :
        /\ pc'[u] \in HoldsRuleset <=> pc[u] \in HoldsRuleset
        /\ pc'[u] \in Unpublished => pc[u] \in Unpublished
  BY <1>1 DEF HoldsRuleset, SwapPoints, Unpublished
<1> HIDE DEF n
<1>7. 1..(n + 1) = (1..n) \cup {n + 1}
  BY <1>1
<1>8. /\ \A i \in 1..Len(published') : published'[i].id < nextId'
      /\ \A i, j \in 1..Len(published') : published'[i].id = published'[j].id => i = j
  BY <1>1, <1>3, <1>5, <1>7 DEF IdsDistinct, n
<1>9. pc'[t] \notin Unpublished
  BY <1>1 DEF Unpublished
<1>10. \A u \in Threads, i \in 1..Len(published') :
         pc'[u] \in HoldsRuleset /\ mine'[u].id = published'[i].id
           => mine'[u] = published'[i] /\ pc'[u] \notin Unpublished
  BY <1>1, <1>3, <1>5, <1>6, <1>7, <1>9 DEF IdsDistinct, n
<1>11. QED
  BY <1>1, <1>6, <1>8, <1>10 DEF IdsDistinct

\* A step draws an id nobody has, and publishes a ruleset only once.
LEMMA IdsStep ==
  ASSUME TypeOK, IdsDistinct, [Next]_vars
  PROVE  IdsDistinct'
<1> USE DEF TypeOK, Goto, lockVars, HoldsRuleset, Unpublished, SwapPoints
<1>1. ASSUME NEW t \in Threads, Query(t)
      PROVE  IdsDistinct'
  <2>1. CASE CallQuery(t)
    BY <2>1, IdsKept DEF IdsDistinct, CallQuery, Call
  <2>2. CASE AcquireRead(t)
    BY <2>2, IdsKept DEF IdsDistinct, AcquireRead
  <2>3. CASE CloneSnapshot(t)
    BY <2>3, IdsKept DEF IdsDistinct, CloneSnapshot
  <2>4. CASE DropSnapshot(t)
    BY <2>4, IdsKept DEF IdsDistinct, DropSnapshot
  <2>5. QED  BY <1>1, <2>1, <2>2, <2>3, <2>4 DEF Query
<1>2. ASSUME NEW t \in Threads, Current(t)
      PROVE  IdsDistinct'
  <2>1. CASE CallCurrent(t)
    BY <2>1, IdsKept DEF IdsDistinct, CallCurrent, Call
  <2>2. CASE AcquireState(t)
    BY <2>2, IdsKept DEF IdsDistinct, AcquireState
  <2>3. CASE ReadReport(t)
    BY <2>3, IdsKept DEF IdsDistinct, ReadReport
  <2>4. QED  BY <1>2, <2>1, <2>2, <2>3 DEF Current
<1>3. ASSUME NEW t \in Threads, Build(t)
      PROVE  IdsDistinct'
  <2>1. CASE CallReplace(t)
    BY <2>1, IdsKept DEF IdsDistinct, CallReplace, Call
  <2>2. CASE ParseFails(t)
    BY <2>2, IdsKept DEF IdsDistinct, ParseFails, FailAt
  <2>3. CASE TakeId(t)  BY <2>3, IdsTake
  <2>4. CASE GateRejects(t)
    BY <2>4, IdsKept DEF IdsDistinct, GateRejects, FailAt
  <2>5. CASE GatePasses(t)
    BY <2>5, IdsKept DEF IdsDistinct, GatePasses
  <2>6. QED  BY <1>3, <2>1, <2>2, <2>3, <2>4, <2>5 DEF Build
<1>4. ASSUME NEW t \in Threads, Swap(t)
      PROVE  IdsDistinct'
  <2>1. CASE AcquireWrite(t)
    BY <2>1, IdsKept DEF IdsDistinct, AcquireWrite
  <2>2. CASE AcquireSwapState(t)
    BY <2>2, IdsKept DEF IdsDistinct, AcquireSwapState
  <2>3. CASE StoreArc(t)  BY <2>3, IdsStore
  <2>4. CASE UpdateReport(t)
    BY <2>4, IdsKept DEF IdsDistinct, UpdateReport
  <2>5. CASE ReleaseState(t)
    BY <2>5, IdsKept DEF IdsDistinct, ReleaseState
  <2>6. CASE ReleaseWrite(t)
    BY <2>6, IdsKept DEF IdsDistinct, ReleaseWrite
  <2>7. QED  BY <1>4, <2>1, <2>2, <2>3, <2>4, <2>5, <2>6 DEF Swap
<1>5. CASE UNCHANGED vars  BY <1>5 DEF vars, IdsDistinct
<1>6. QED
  BY <1>1, <1>2, <1>3, <1>4, <1>5 DEF Next, Step, Finished

-----------------------------------------------------------------------------
\* The inductive invariant holds of every reachable state.
THEOREM InvariantHolds == Spec => []IInv
<1>1. Init => IInv
  <2> SUFFICES ASSUME Init  PROVE IInv
    OBVIOUS
  <2> USE EngineAssumption DEF Init
  <2>1. LocksMatchPoints
    BY DEF LocksMatchPoints, HoldsWrite, HoldsState
  <2>2. ReportFollowsArc
    BY DEF ReportFollowsArc
  <2>3. IdsDistinct
    BY DEF IdsDistinct, HoldsRuleset, SwapPoints
  <2>4. QED  BY <2>1, <2>2, <2>3 DEF IInv
<1>2. TypeOK /\ TypeOK' /\ IInv /\ [Next]_vars => IInv'
  BY LocksStep, ReportStep, IdsStep DEF IInv
<1>3. QED  BY <1>1, <1>2, TypeCorrect, PTL DEF Spec

\* For any number of threads and calls: the report never describes a ruleset
\* that is not published, and is up to date whenever its mutex is free
\* (Engine::swap stores the Arc before it counts, under both locks).
THEOREM ReportNeverAhead == Spec => []ReportDescribesPublished
<1>1. IInv => ReportDescribesPublished
  <2> SUFFICES ASSUME IInv  PROVE ReportDescribesPublished
    OBVIOUS
  <2>1. ASSUME mutex = NoThread  PROVE state.version = Len(published)
    <3>1. \A t \in Threads : pc[t] # "counting"
      BY <2>1, EngineAssumption DEF IInv, LocksMatchPoints, HoldsState
    <3>2. QED  BY <3>1 DEF IInv, ReportFollowsArc
  <2>2. QED
    BY <2>1 DEF IInv, ReportFollowsArc, ReportDescribesPublished
<1>2. QED  BY <1>1, InvariantHolds, PTL

\* For any number of threads and calls: rulesets that are published or being
\* built never share an id (NEXT_RULESET_ID is drawn by fetch_add).
THEOREM IdsUnique == Spec => []IdsIdentify
<1>1. IInv => IdsIdentify
  <2> SUFFICES ASSUME IInv, NEW r \in Live, NEW s \in Live, r.id = s.id
               PROVE  r = s
    BY DEF IdsIdentify
  <2>1. \A t \in Threads : mine[t] # NoRuleset => pc[t] \in HoldsRuleset
    BY DEF IInv, IdsDistinct
  <2>2. \A q \in Live :
          \/ \E i \in 1..Len(published) : q = published[i]
          \/ \E t \in Threads : pc[t] \in HoldsRuleset /\ q = mine[t]
    BY <2>1 DEF Live
  <2>3. QED
    BY <2>2 DEF IInv, IdsDistinct
<1>2. QED  BY <1>1, InvariantHolds, PTL

\* For any number of threads and calls: nobody waits for a build or for an
\* evaluation, and no two calls wait for each other (swap alone takes both
\* locks, Engine.ruleset first).
THEOREM NoRingOfWaits == Spec => []WaitsAreShort
<1>1. TypeOK /\ IInv => WaitsAreShort
  <2> SUFFICES ASSUME TypeOK, IInv, NEW t \in Threads, NEW u \in WaitsFor(t)
               PROVE  /\ pc[u] \notin BuildPoints \cup {"using"}
                      /\ \A v \in WaitsFor(u) : WaitsFor(v) = {}
    BY DEF WaitsAreShort
  <2> USE EngineAssumption DEF TypeOK, IInv, LocksMatchPoints, HoldsWrite, HoldsState
  <2>1. ASSUME NEW v \in Threads, pc[v] \in HoldsState \cup {"reading", "unlockWrite"}
        PROVE  WaitsFor(v) = {}
    BY <2>1 DEF WaitsFor
  <2>2. u \in Threads /\ pc[u] \in HoldsWrite \cup HoldsState \cup {"reading"}
    BY DEF WaitsFor
  <2>3. CASE pc[u] = "wantSwapState"
    <3>1. ASSUME NEW v \in WaitsFor(u)  PROVE v \in Threads /\ pc[v] \in HoldsState
      BY <2>3, <3>1 DEF WaitsFor
    <3>2. QED  BY <2>1, <2>3, <3>1 DEF BuildPoints
  <2>4. CASE pc[u] # "wantSwapState"
    <3>1. pc[u] \in HoldsState \cup {"reading", "unlockWrite"}
      BY <2>2, <2>4
    <3>2. WaitsFor(u) = {}
      BY <2>1, <2>2, <3>1
    <3>3. QED  BY <3>1, <3>2 DEF BuildPoints
  <2>5. QED  BY <2>3, <2>4
<1>2. QED  BY <1>1, TypeCorrect, InvariantHolds, PTL

\* What a replacement leaves visible to others is the atomic register of
\* AtomicEngine: a step of the register, or nothing.
LEMMA RegisterStep ==
  ASSUME TypeOK, IInv, [Next]_vars
  PROVE  [Atomic!AtomicNext]_(Atomic!atomicVars)
<1> DEFINE Same == UNCHANGED <<published, PendingCall, AtomicAnswer>>
<1> USE EngineAssumption DEF TypeOK, Goto, lockVars
<1>0. Same => UNCHANGED Atomic!atomicVars
  BY DEF Atomic!atomicVars
<1>1. ASSUME NEW t \in Threads, NEW call \in {"snapshot", "current", "replace"},
             PendingCall[t] = "none",
             PendingCall' = [PendingCall EXCEPT ![t] = call],
             UNCHANGED <<published, AtomicAnswer>>
      PROVE  Atomic!AtomicNext
  BY <1>1 DEF Atomic!AtomicNext, Atomic!Begin, Atomic!Calls
<1>2. ASSUME NEW t \in Threads, Query(t)
      PROVE  Atomic!AtomicNext \/ Same
  <2> USE DEF CurrentPoints, BuildPoints
  <2>1. CASE CallQuery(t)
    <3>1. /\ PendingCall[t] = "none"
          /\ PendingCall' = [PendingCall EXCEPT ![t] = "snapshot"]
      BY <2>1 DEF CallQuery, Call, PendingCall
    <3>2. UNCHANGED <<published, AtomicAnswer>>
      BY <2>1 DEF CallQuery, Call, AtomicAnswer
    <3>3. QED  BY <3>1, <3>2, <1>1
  <2>2. CASE AcquireRead(t)
    BY <2>2 DEF AcquireRead, PendingCall, AtomicAnswer
  <2>3. CASE CloneSnapshot(t)
    <3>1. /\ PendingCall[t] = "snapshot"
          /\ PendingCall' = [PendingCall EXCEPT ![t] = "none"]
      BY <2>3 DEF CloneSnapshot, PendingCall
    <3>2. /\ UNCHANGED published
          /\ AtomicAnswer' =
               [AtomicAnswer EXCEPT ![t] = SnapshotOf(published[Len(published)])]
      BY <2>3 DEF CloneSnapshot, AtomicAnswer, IInv, ReportFollowsArc
    <3>3. Atomic!Snapshot(t)
      BY <3>1, <3>2
      DEF Atomic!Snapshot, Atomic!Answer, Atomic!SnapshotOf, SnapshotOf
    <3>4. QED  BY <3>3 DEF Atomic!AtomicNext
  <2>4. CASE DropSnapshot(t)
    BY <2>4 DEF DropSnapshot, PendingCall, AtomicAnswer
  <2>5. QED  BY <1>2, <2>1, <2>2, <2>3, <2>4 DEF Query
<1>3. ASSUME NEW t \in Threads, Current(t)
      PROVE  Atomic!AtomicNext \/ Same
  <2> USE DEF CurrentPoints, BuildPoints
  <2>1. CASE CallCurrent(t)
    <3>1. /\ PendingCall[t] = "none"
          /\ PendingCall' = [PendingCall EXCEPT ![t] = "current"]
      BY <2>1 DEF CallCurrent, Call, PendingCall
    <3>2. UNCHANGED <<published, AtomicAnswer>>
      BY <2>1 DEF CallCurrent, Call, AtomicAnswer
    <3>3. QED  BY <3>1, <3>2, <1>1
  <2>2. CASE AcquireState(t)
    BY <2>2 DEF AcquireState, PendingCall, AtomicAnswer
  <2>3. CASE ReadReport(t)
    <3>1. /\ PendingCall[t] = "current"
          /\ PendingCall' = [PendingCall EXCEPT ![t] = "none"]
      BY <2>3 DEF ReadReport, PendingCall
    <3>2. \A u \in Threads : pc[u] # "counting"
      BY <2>3 DEF ReadReport, IInv, LocksMatchPoints, HoldsState
    <3>3. state.version = Len(published) /\ state.of = published[Len(published)]
      BY <3>2 DEF IInv, ReportFollowsArc
    <3>4. /\ UNCHANGED published
          /\ AtomicAnswer' = [AtomicAnswer EXCEPT ![t] =
               Atomic!Report(Len(published), published[Len(published)])]
      BY <2>3, <3>3 DEF ReadReport, ReportAnswer, AtomicAnswer, Atomic!Report
    <3>5. Atomic!Current(t)
      BY <3>1, <3>4 DEF Atomic!Current, Atomic!Answer
    <3>6. QED  BY <3>5 DEF Atomic!AtomicNext
  <2>4. QED  BY <1>3, <2>1, <2>2, <2>3 DEF Current
<1>4. ASSUME NEW t \in Threads, Build(t)
      PROVE  Atomic!AtomicNext \/ Same
  <2> USE DEF CurrentPoints, BuildPoints
  <2>1. CASE CallReplace(t)
    <3>1. /\ PendingCall[t] = "none"
          /\ PendingCall' = [PendingCall EXCEPT ![t] = "replace"]
      BY <2>1 DEF CallReplace, Call, PendingCall
    <3>2. UNCHANGED <<published, AtomicAnswer>>
      BY <2>1 DEF CallReplace, Call, AtomicAnswer
    <3>3. QED  BY <3>1, <3>2, <1>1
  <2>2. ASSUME NEW point \in BuildPoints, FailAt(t, point)
        PROVE  Atomic!AtomicNext
    <3>1. /\ PendingCall[t] = "replace"
          /\ PendingCall' = [PendingCall EXCEPT ![t] = "none"]
      BY <2>2 DEF FailAt, PendingCall
    <3>2. /\ UNCHANGED published
          /\ AtomicAnswer' = [AtomicAnswer EXCEPT ![t] = Failure]
      BY <2>2 DEF FailAt, AtomicAnswer
    <3>3. Atomic!FailReplace(t)
      BY <3>1, <3>2 DEF Atomic!FailReplace, Atomic!Answer, Atomic!Failure, Failure
    <3>4. QED  BY <3>3 DEF Atomic!AtomicNext
  <2>3. CASE ParseFails(t)  BY <2>2, <2>3 DEF ParseFails
  <2>4. CASE TakeId(t)
    BY <2>4 DEF TakeId, PendingCall, AtomicAnswer
  <2>5. CASE GateRejects(t)  BY <2>2, <2>5 DEF GateRejects
  <2>6. CASE GatePasses(t)
    BY <2>6 DEF GatePasses, PendingCall, AtomicAnswer
  <2>7. QED  BY <1>4, <2>1, <2>3, <2>4, <2>5, <2>6 DEF Build
<1>5. ASSUME NEW t \in Threads, Swap(t)
      PROVE  Atomic!AtomicNext \/ Same
  <2> USE DEF CurrentPoints, BuildPoints
  <2>1. CASE AcquireWrite(t)
    BY <2>1 DEF AcquireWrite, PendingCall, AtomicAnswer
  <2>2. CASE AcquireSwapState(t)
    BY <2>2 DEF AcquireSwapState, PendingCall, AtomicAnswer
  <2>3. CASE StoreArc(t)
    <3>1. /\ PendingCall[t] = "replace"
          /\ PendingCall' = [PendingCall EXCEPT ![t] = "none"]
      BY <2>3 DEF StoreArc, PendingCall
    <3>2. /\ published' = Append(published, mine[t])
          /\ Len(published') = Len(published) + 1
          /\ published'[Len(published) + 1] = mine[t]
      BY <2>3 DEF StoreArc
    <3>3. \A u \in Threads : pc[u] # "counting"
      BY <2>3 DEF StoreArc, IInv, LocksMatchPoints, HoldsState
    <3>4. AtomicAnswer' = [AtomicAnswer EXCEPT ![t] =
            Atomic!Report(Len(published'), mine[t])]
      BY <2>3, <3>2, <3>3 DEF StoreArc, AtomicAnswer, Atomic!Report
    <3>5. \A i \in 1..Len(published) : published[i] # mine[t]
      BY <2>3
      DEF StoreArc, IInv, IdsDistinct, HoldsRuleset, SwapPoints, Unpublished
    <3>6. Atomic!Replace(t)
      BY <3>1, <3>2, <3>4, <3>5 DEF Atomic!Replace, Atomic!Answer
    <3>7. QED  BY <3>6 DEF Atomic!AtomicNext
  <2>4. CASE UpdateReport(t)
    <3>1. UNCHANGED <<published, PendingCall>>
      BY <2>4 DEF UpdateReport, PendingCall
    <3>2. /\ mine' = mine /\ pc[t] = "counting"
          /\ state'.version = Len(published) /\ state'.of = mine[t]
          /\ \A u \in Threads \ {t} : pc[u] # "counting"
      BY <2>4 DEF UpdateReport, IInv, ReportFollowsArc, LocksMatchPoints, HoldsState
    <3>3. AtomicAnswer' = AtomicAnswer
      BY <2>4, <3>1, <3>2 DEF UpdateReport, ReportAnswer, AtomicAnswer
    <3>4. QED  BY <3>1, <3>3
  <2>5. CASE ReleaseState(t)
    BY <2>5 DEF ReleaseState, PendingCall, AtomicAnswer
  <2>6. CASE ReleaseWrite(t)
    <3>1. UNCHANGED <<published, PendingCall>>
      BY <2>6 DEF ReleaseWrite, PendingCall
    <3>2. AtomicAnswer' = AtomicAnswer
      BY <2>6 DEF ReleaseWrite, AtomicAnswer
    <3>3. QED  BY <3>1, <3>2
  <2>7. QED  BY <1>5, <2>1, <2>2, <2>3, <2>4, <2>5, <2>6 DEF Swap
<1>6. CASE UNCHANGED vars
  <2>1. Same
    BY <1>6 DEF vars, PendingCall, AtomicAnswer
  <2>2. QED  BY <2>1, <1>0
<1> HIDE DEF Same
<1>7. QED
  BY <1>0, <1>2, <1>3, <1>4, <1>5, <1>6 DEF Next, Step, Finished

\* For any number of threads and calls: the engine implements the atomic
\* register.  Every snapshot and report is the one of a single instant of its
\* call, a replacement is published once and reports itself, and a failed one
\* changes nothing.
THEOREM RefinesAtomicEngine == Spec => ImplementsAtomicEngine
<1>1. Init => Atomic!AtomicInit
  <2> SUFFICES ASSUME Init  PROVE Atomic!AtomicInit
    OBVIOUS
  <2>1. Len(published) = 1 /\ published[1] \in Rulesets
    BY DEF Init, Rulesets
  <2>2. PendingCall = [t \in Threads |-> "none"]
    BY DEF Init, PendingCall, CurrentPoints, BuildPoints
  <2>3. AtomicAnswer = [t \in Threads |-> Atomic!NoAnswer]
    BY DEF Init, AtomicAnswer, NoAnswer, Atomic!NoAnswer
  <2>4. QED  BY <2>1, <2>2, <2>3 DEF Atomic!AtomicInit
<1>2. QED
  BY <1>1, RegisterStep, TypeCorrect, InvariantHolds, PTL
  DEF Spec, ImplementsAtomicEngine, Atomic!AtomicSpec

-----------------------------------------------------------------------------
PublishedSet == {published[i] : i \in 1..Len(published)}

\* What holds of one thread: the snapshot it uses was published, the memo it
\* uses is keyed by that snapshot, a filled slot holds a published ruleset with
\* the memo's key, and its batch has seen the snapshot and nothing else.
ServesOneRuleset(t) ==
  /\ pc[t] = "using" => Snapshot(t) \in PublishedSet
  /\ pc[t] = "using" /\ batch[t].prepared => cache[t].key = Snapshot(t).id
  /\ pc[t] # "using" =>
       ~batch[t].prepared /\ batch[t].related = {} /\ batch[t].namedBy = NoRuleset
  /\ \A i \in RuleIndexes : cache[t].slots[i] # NoRuleset =>
       cache[t].slots[i].id = cache[t].key /\ cache[t].slots[i] \in PublishedSet
  /\ batch[t].related \subseteq {Snapshot(t)}
  /\ batch[t].namedBy \in {NoRuleset, Snapshot(t)}

ServingInv == \A t \in Threads : ServesOneRuleset(t)

-----------------------------------------------------------------------------
\* A step of Serving is a step of Engine, or leaves the engine alone.
LEMMA EngineIsPart ==
  ASSUME [ServingNext]_allVars  PROVE [Next]_vars
BY DEF ServingNext, allVars, Next, Step, Query, StartBatch, Prepare,
       EvaluateCandidate, EvaluateRelate, EvaluateUnprepared, NameRules,
       EndBatch, EngineStep, vars

\* The memo and the batches never disturb the engine: a behaviour of Serving is
\* one of Engine.
LEMMA ServesEngine == ServingSpec => Spec
<1>1. ServingInit => Init
  BY DEF ServingInit
<1>2. [ServingNext]_allVars => [Next]_vars
  BY EngineIsPart
<1>3. QED  BY <1>1, <1>2, PTL DEF ServingSpec, Spec

\* Threads that serve batches from memos see the same atomic register: every
\* snapshot a batch is evaluated on was active at an instant of its call.
THEOREM ServingImplementsAtomicEngine == ServingSpec => ImplementsAtomicEngine
BY ServesEngine, RefinesAtomicEngine

\* Every variable of Serving keeps its type.
THEOREM ServingTypeCorrect == ServingSpec => []ServingTypeOK
<1>0. NoRuleset \in Rulesets /\ NoSlots \in [RuleIndexes -> Rulesets]
  BY EngineAssumption DEF NoRuleset, NoSlots, Rulesets
<1>1. ServingInit => ServingTypeOK
  BY <1>0, ServingAssumption
  DEF ServingInit, ServingTypeOK, NoBatch, Memos, Batches
<1>2. TypeOK /\ ServingTypeOK /\ [ServingNext]_allVars => ServingTypeOK'
  <2> SUFFICES ASSUME TypeOK, ServingTypeOK, [ServingNext]_allVars
               PROVE  ServingTypeOK'
    OBVIOUS
  <2>1. \A t \in Threads :
          /\ Snapshot(t) \in Rulesets /\ Snapshot(t).id \in Nat
          /\ cache[t] \in Memos /\ batch[t] \in Batches
    BY DEF Snapshot, TypeOK, Rulesets, ServingTypeOK
  <2>2. ASSUME NEW t \in Threads, NEW rich \in BOOLEAN, StartBatch(t, rich)
        PROVE  ServingTypeOK'
    <3>1. BatchSize \in 0..BatchSize /\ NoBatch \in Batches
      BY <1>0, ServingAssumption DEF NoBatch, Batches
    <3>2. NewBatch(rich) \in Batches
      BY <3>1 DEF NewBatch, Batches
    <3>3. QED  BY <2>2, <3>2 DEF StartBatch, ServingTypeOK
  <2>3. ASSUME NEW t \in Threads, Prepare(t)
        PROVE  ServingTypeOK'
    <3>1. [batch[t] EXCEPT !.prepared = TRUE] \in Batches
      BY <2>1 DEF Batches
    <3>2. [key |-> Snapshot(t).id, slots |-> NoSlots] \in Memos
      BY <1>0, <2>1 DEF Memos
    <3>3. batch' = [batch EXCEPT ![t] = [batch[t] EXCEPT !.prepared = TRUE]]
      BY <2>3 DEF Prepare
    <3>4. QED  BY <2>3, <3>1, <3>2, <3>3 DEF Prepare, ForRuleset, ServingTypeOK
  <2>4. ASSUME NEW t \in Threads, NEW rulesets \in SUBSET Rulesets,
               batch[t].left > 0,
               batch' = [batch EXCEPT ![t].left = @ - 1,
                                      ![t].related = @ \cup rulesets]
        PROVE  batch' \in [Threads -> Batches]
    <3> DEFINE b == [batch[t] EXCEPT !.left = @ - 1, !.related = @ \cup rulesets]
    <3>1. batch[t].left - 1 \in 0..BatchSize
      BY <2>1, <2>4, ServingAssumption DEF Batches
    <3>2. batch[t].related \cup rulesets \in SUBSET Rulesets
      BY <2>1 DEF Batches
    <3>3. b \in Batches
      BY <2>1, <3>1, <3>2 DEF Batches
    <3>4. batch' = [batch EXCEPT ![t] = b]
      BY <2>4
    <3> HIDE DEF b
    <3>5. QED  BY <3>3, <3>4 DEF ServingTypeOK
  <2>5. ASSUME NEW t \in Threads, NEW touched \in SUBSET RuleIndexes,
               EvaluateRelate(t, touched)
        PROVE  ServingTypeOK'
    <3> DEFINE slots == Ensured(cache[t].slots, touched, Snapshot(t))
    <3>1. slots \in [RuleIndexes -> Rulesets]
      BY <2>1 DEF Ensured, Memos
    <3>2. /\ cache' = [cache EXCEPT ![t].slots = slots]
          /\ batch' = [batch EXCEPT ![t].left = @ - 1,
                         ![t].related = @ \cup {slots[i] : i \in touched}]
          /\ batch[t].left > 0
      BY <2>5 DEF EvaluateRelate
    <3> HIDE DEF slots
    <3>3. {slots[i] : i \in touched} \in SUBSET Rulesets
      BY <3>1
    <3>4. [cache[t] EXCEPT !.slots = slots] \in Memos
      BY <2>1, <3>1 DEF Memos
    <3>5. cache' = [cache EXCEPT ![t] = [cache[t] EXCEPT !.slots = slots]]
      BY <3>2
    <3>6. QED  BY <2>4, <3>2, <3>3, <3>4, <3>5 DEF ServingTypeOK
  <2>6. ASSUME NEW t \in Threads, NEW touched \in SUBSET RuleIndexes,
               EvaluateUnprepared(t, touched)
        PROVE  ServingTypeOK'
    <3>1. {Snapshot(t) : i \in touched} \in SUBSET Rulesets
      BY <2>1
    <3>2. QED  BY <2>4, <2>6, <3>1 DEF EvaluateUnprepared, ServingTypeOK
  <2>7. ASSUME NEW t \in Threads, NameRules(t)
        PROVE  ServingTypeOK'
    <3> DEFINE b == [batch[t] EXCEPT !.unnamed = FALSE, !.namedBy = Snapshot(t)]
    <3>1. b \in Batches
      BY <2>1 DEF Batches
    <3>2. batch' = [batch EXCEPT ![t] = b] /\ UNCHANGED cache
      BY <2>7 DEF NameRules
    <3> HIDE DEF b
    <3>3. QED  BY <3>1, <3>2 DEF ServingTypeOK
  <2>8. ASSUME NEW t \in Threads, EndBatch(t)
        PROVE  ServingTypeOK'
    <3>1. NoBatch \in Batches
      BY <1>0, ServingAssumption DEF NoBatch, Batches
    <3>2. QED  BY <2>8, <3>1 DEF EndBatch, ServingTypeOK
  <2>9. CASE UNCHANGED servingVars
    BY <2>9 DEF servingVars, ServingTypeOK
  <2>10. QED
    BY <2>2, <2>3, <2>5, <2>6, <2>7, <2>8, <2>9
    DEF ServingNext, EvaluateCandidate, EngineStep, allVars
<1>3. QED
  BY <1>1, <1>2, ServesEngine, TypeCorrect, PTL DEF ServingSpec

-----------------------------------------------------------------------------
\* What is published stays published.
LEMMA PublishedGrows ==
  ASSUME TypeOK, [Next]_vars
  PROVE  PublishedSet \subseteq PublishedSet'
<1>1. CASE UNCHANGED published
  BY <1>1 DEF PublishedSet
<1>2. ASSUME NEW t \in Threads, StoreArc(t)
      PROVE  PublishedSet \subseteq PublishedSet'
  <2>1. /\ published \in Seq(Rulesets) /\ mine[t] \in Rulesets
        /\ published' = Append(published, mine[t])
    BY <1>2 DEF StoreArc, TypeOK
  <2>2. \A i \in 1..Len(published) :
          i \in 1..Len(published') /\ published'[i] = published[i]
    BY <2>1
  <2>3. QED  BY <2>2 DEF PublishedSet
<1>3. QED
  BY <1>1, <1>2
  DEF Next, vars, Step, Query, Current, Build, Swap, Finished, CallQuery,
      CallCurrent, CallReplace, Call, AcquireRead, CloneSnapshot, DropSnapshot,
      AcquireState, ReadReport, ParseFails, GateRejects, FailAt, TakeId,
      GatePasses, AcquireWrite, AcquireSwapState, UpdateReport, ReleaseState,
      ReleaseWrite

\* The id of a published ruleset identifies it.
LEMMA PublishedIdentify ==
  ASSUME IdsDistinct, NEW r \in PublishedSet, NEW s \in PublishedSet, r.id = s.id
  PROVE  r = s
BY DEF IdsDistinct, PublishedSet

\* A step that leaves a thread alone keeps what holds of it.
LEMMA OtherThread ==
  ASSUME NEW t \in Threads, ServesOneRuleset(t),
         pc'[t] = pc[t], answer'[t] = answer[t],
         cache'[t] = cache[t], batch'[t] = batch[t],
         PublishedSet \subseteq PublishedSet'
  PROVE  ServesOneRuleset(t)'
<1>1. Snapshot(t)' = Snapshot(t)
  BY DEF Snapshot
<1>2. QED  BY <1>1 DEF ServesOneRuleset

\* A thread that is not evaluating a batch has read nothing yet: the engine's
\* own steps never move a snapshot under a batch.
LEMMA EngineStepServes ==
  ASSUME TypeOK, TypeOK', IInv, ServingTypeOK, ServingInv,
         NEW t \in Threads, EngineStep(t)
  PROVE  ServingInv'
<1>1. [Next]_vars
  BY DEF EngineStep, Next, Step, Query
<1>2. PublishedSet \subseteq PublishedSet'
  BY <1>1, PublishedGrows
<1>3. UNCHANGED <<cache, batch>>
  BY DEF EngineStep, servingVars
<1>4. \A u \in Threads \ {t} : pc'[u] = pc[u] /\ answer'[u] = answer[u]
  BY DEF EngineStep, Goto, TypeOK, Current, Build, Swap,
         CallCurrent, CallReplace, Call, AcquireRead, CloneSnapshot,
         AcquireState, ReadReport, ParseFails, GateRejects, FailAt, TakeId,
         GatePasses, AcquireWrite, AcquireSwapState, StoreArc, UpdateReport,
         ReleaseState, ReleaseWrite
<1>5. pc[t] # "using"
  BY DEF EngineStep, Current, Build, Swap,
         CallCurrent, CallReplace, Call, AcquireRead, CloneSnapshot,
         AcquireState, ReadReport, ParseFails, GateRejects, FailAt, TakeId,
         GatePasses, AcquireWrite, AcquireSwapState, StoreArc, UpdateReport,
         ReleaseState, ReleaseWrite
<1>6. pc'[t] = "using" => answer'[t].of = ruleset
  BY DEF EngineStep, Goto, TypeOK, Current, Build, Swap, SnapshotOf,
         CallCurrent, CallReplace, Call, AcquireRead, CloneSnapshot,
         AcquireState, ReadReport, ParseFails, GateRejects, FailAt, TakeId,
         GatePasses, AcquireWrite, AcquireSwapState, StoreArc, UpdateReport,
         ReleaseState, ReleaseWrite
<1>7. ruleset \in PublishedSet
  BY DEF IInv, ReportFollowsArc, PublishedSet
<1>8. ServesOneRuleset(t)'
  <2>1. ServesOneRuleset(t)
    BY DEF ServingInv
  <2>2. QED
    BY <1>2, <1>3, <1>5, <1>6, <1>7, <2>1 DEF ServesOneRuleset, Snapshot
<1>9. QED
  BY <1>2, <1>3, <1>4, <1>8, OtherThread DEF ServingInv

\* Relating a candidate keeps the batch on its snapshot: a slot that was warm
\* carries the snapshot's id, so it was prepared from the snapshot.
LEMMA RelateServes ==
  ASSUME IInv, ServingTypeOK, ServingInv, NEW t \in Threads,
         NEW touched \in SUBSET RuleIndexes, EvaluateRelate(t, touched)
  PROVE  ServesOneRuleset(t)'
<1> DEFINE s == Snapshot(t)
           slots == Ensured(cache[t].slots, touched, s)
<1>1. ServesOneRuleset(t) /\ pc[t] = "using" /\ batch[t].prepared
  BY DEF ServingInv, EvaluateRelate
<1>2. s \in PublishedSet /\ cache[t].key = s.id
  BY <1>1 DEF ServesOneRuleset
<1>3. \A i \in RuleIndexes : slots[i] # NoRuleset =>
        slots[i].id = cache[t].key /\ slots[i] \in PublishedSet
  BY <1>1, <1>2 DEF ServesOneRuleset, Ensured
<1>4. \A i \in touched : slots[i] = s
  <2> SUFFICES ASSUME NEW i \in touched  PROVE slots[i] = s
    OBVIOUS
  <2>1. CASE cache[t].slots[i] = NoRuleset
    BY <2>1 DEF Ensured
  <2>2. CASE cache[t].slots[i] # NoRuleset
    <3>1. slots[i] = cache[t].slots[i]
      BY <2>2 DEF Ensured
    <3>2. slots[i].id = s.id /\ slots[i] \in PublishedSet
      BY <1>2, <1>3, <2>2, <3>1
    <3>3. QED  BY <1>2, <3>2, PublishedIdentify DEF IInv
  <2>3. QED  BY <2>1, <2>2
<1>5. Snapshot(t)' = s /\ pc'[t] = "using" /\ UNCHANGED published
  BY <1>1 DEF EvaluateRelate, Snapshot, vars
<1>6. cache'[t].key = cache[t].key /\ cache'[t].slots = slots
  BY DEF EvaluateRelate, ServingTypeOK, Memos
<1>7. /\ batch'[t].related = batch[t].related \cup {slots[i] : i \in touched}
      /\ batch'[t].namedBy = batch[t].namedBy
      /\ batch'[t].prepared = batch[t].prepared
  BY DEF EvaluateRelate, ServingTypeOK, Batches
<1>8. PublishedSet' = PublishedSet
  BY <1>5 DEF PublishedSet
<1> HIDE DEF s, slots
<1>9. {slots[i] : i \in touched} \subseteq {s}
  BY <1>4
<1>10. batch'[t].related \subseteq {s} /\ batch'[t].namedBy \in {NoRuleset, s}
  BY <1>1, <1>7, <1>9 DEF ServesOneRuleset, s
<1>11. QED
  BY <1>2, <1>3, <1>5, <1>6, <1>8, <1>10 DEF ServesOneRuleset

\* Every other step of a batch.
LEMMA BatchStepServes ==
  ASSUME TypeOK, IInv, ServingTypeOK, ServingInv, NEW t \in Threads,
         \/ \E rich \in BOOLEAN : StartBatch(t, rich)
         \/ Prepare(t)
         \/ \E touched \in SUBSET RuleIndexes : EvaluateUnprepared(t, touched)
         \/ NameRules(t)
         \/ EndBatch(t)
  PROVE  ServesOneRuleset(t)'
<1>1. ServesOneRuleset(t) /\ cache[t] \in Memos /\ batch[t] \in Batches
  BY DEF ServingInv, ServingTypeOK
<1>2. UNCHANGED <<answer, published>>
  BY DEF StartBatch, CallQuery, Call, Prepare, EvaluateUnprepared, NameRules,
         EndBatch, DropSnapshot, vars
<1>3. Snapshot(t)' = Snapshot(t) /\ PublishedSet' = PublishedSet
  BY <1>2 DEF Snapshot, PublishedSet
<1>4. ASSUME NEW rich \in BOOLEAN, StartBatch(t, rich)
      PROVE  ServesOneRuleset(t)'
  <2>1. pc'[t] = "wantRead" /\ cache' = cache
    BY <1>4 DEF StartBatch, CallQuery, Call, Goto, TypeOK
  <2>2. batch'[t] = NewBatch(rich)
    BY <1>4 DEF StartBatch, ServingTypeOK
  <2>3. /\ NewBatch(rich).prepared = FALSE /\ NewBatch(rich).related = {}
        /\ NewBatch(rich).namedBy = NoRuleset
    BY DEF NewBatch, NoBatch
  <2>4. QED  BY <1>1, <1>3, <2>1, <2>2, <2>3 DEF ServesOneRuleset
<1>5. CASE Prepare(t)
  <2>1. /\ pc[t] = "using" /\ pc' = pc
        /\ batch'[t].related = batch[t].related
        /\ batch'[t].namedBy = batch[t].namedBy
    BY <1>1, <1>5 DEF Prepare, vars, ServingTypeOK, Batches
  <2>2. \/ cache[t].key = Snapshot(t).id /\ cache' = cache
        \/ cache'[t] = [key |-> Snapshot(t).id, slots |-> NoSlots]
    BY <1>5 DEF Prepare, ForRuleset, ServingTypeOK
  <2>3. \A i \in RuleIndexes : NoSlots[i] = NoRuleset
    BY DEF NoSlots
  <2>4. QED  BY <1>1, <1>3, <2>1, <2>2, <2>3 DEF ServesOneRuleset
<1>6. ASSUME NEW touched \in SUBSET RuleIndexes, EvaluateUnprepared(t, touched)
      PROVE  ServesOneRuleset(t)'
  <2>1. /\ pc[t] = "using" /\ pc' = pc /\ cache' = cache
        /\ batch'[t].related
             = batch[t].related \cup {Snapshot(t) : i \in touched}
        /\ batch'[t].namedBy = batch[t].namedBy
        /\ batch'[t].prepared = batch[t].prepared
    BY <1>1, <1>6 DEF EvaluateUnprepared, vars, ServingTypeOK, Batches
  <2>2. QED  BY <1>1, <1>3, <2>1 DEF ServesOneRuleset
<1>7. CASE NameRules(t)
  <2>1. /\ pc[t] = "using" /\ pc' = pc /\ cache' = cache
        /\ batch'[t].related = batch[t].related
        /\ batch'[t].namedBy = Snapshot(t)
        /\ batch'[t].prepared = batch[t].prepared
    BY <1>1, <1>7 DEF NameRules, vars, ServingTypeOK, Batches
  <2>2. QED  BY <1>1, <1>3, <2>1 DEF ServesOneRuleset
<1>8. CASE EndBatch(t)
  <2>1. pc'[t] = "idle" /\ cache' = cache /\ batch'[t] = NoBatch
    BY <1>8 DEF EndBatch, DropSnapshot, Goto, TypeOK, ServingTypeOK
  <2>2. QED  BY <1>1, <1>3, <2>1 DEF ServesOneRuleset, NoBatch
<1>9. QED
  BY <1>4, <1>5, <1>6, <1>7, <1>8

LEMMA ServingStep ==
  ASSUME TypeOK, TypeOK', IInv, ServingTypeOK, ServingInv, [ServingNext]_allVars
  PROVE  ServingInv'
<1>1. PublishedSet \subseteq PublishedSet'
  BY EngineIsPart, PublishedGrows
<1>2. ASSUME UNCHANGED allVars  PROVE ServingInv'
  BY <1>1, <1>2, OtherThread DEF allVars, vars, servingVars, ServingInv
<1>3. ASSUME NEW t \in Threads, ServesOneRuleset(t)',
             \/ \E rich \in BOOLEAN : StartBatch(t, rich)
             \/ Prepare(t) \/ EvaluateCandidate(t) \/ NameRules(t) \/ EndBatch(t)
      PROVE  ServingInv'
  <2>1. \A u \in Threads \ {t} :
          /\ pc'[u] = pc[u] /\ answer'[u] = answer[u]
          /\ cache'[u] = cache[u] /\ batch'[u] = batch[u]
    BY <1>3 DEF StartBatch, CallQuery, Call, Goto, Prepare, ForRuleset,
       EvaluateCandidate, EvaluateRelate, EvaluateUnprepared, NameRules,
       EndBatch, DropSnapshot, vars, TypeOK, ServingTypeOK
  <2>2. QED  BY <1>1, <1>3, <2>1, OtherThread DEF ServingInv
<1>4. ASSUME NEW t \in Threads,
             \/ \E rich \in BOOLEAN : StartBatch(t, rich)
             \/ Prepare(t) \/ EvaluateCandidate(t) \/ NameRules(t) \/ EndBatch(t)
      PROVE  ServingInv'
  <2>1. ServesOneRuleset(t)'
    BY <1>4, RelateServes, BatchStepServes DEF EvaluateCandidate
  <2>2. QED  BY <1>3, <1>4, <2>1
<1>5. ASSUME NEW t \in Threads, EngineStep(t)  PROVE ServingInv'
  BY <1>5, EngineStepServes
<1>6. CASE Finished /\ UNCHANGED servingVars
  BY <1>2, <1>6 DEF Finished, allVars
<1>7. QED
  BY <1>2, <1>4, <1>5, <1>6 DEF ServingNext

LEMMA ServingInvHolds == ServingSpec => []ServingInv
<1>1. ServingInit => ServingInv
  <2> SUFFICES ASSUME ServingInit, NEW t \in Threads
               PROVE  ServesOneRuleset(t)
    BY DEF ServingInv
  <2>1. pc[t] = "idle" /\ batch[t] = NoBatch /\ cache[t].slots = NoSlots
    BY DEF ServingInit, Init
  <2>2. ~NoBatch.prepared /\ NoBatch.related = {} /\ NoBatch.namedBy = NoRuleset
    BY DEF NoBatch
  <2>3. \A i \in RuleIndexes : NoSlots[i] = NoRuleset
    BY DEF NoSlots
  <2>4. QED  BY <2>1, <2>2, <2>3 DEF ServesOneRuleset
<1>2. TypeOK /\ TypeOK' /\ IInv /\ ServingTypeOK /\ ServingInv
        /\ [ServingNext]_allVars => ServingInv'
  BY ServingStep
<1>3. QED
  BY <1>1, <1>2, ServesEngine, TypeCorrect, InvariantHolds, ServingTypeCorrect,
     PTL DEF ServingSpec

\* No replacement tears a batch apart: it is related against, and named by,
\* the one ruleset whose snapshot the call took.
THEOREM BatchesAreAtomic == ServingSpec => []BatchSeesOneRuleset
<1>1. ServingInv => BatchSeesOneRuleset
  BY DEF ServingInv, ServesOneRuleset, BatchSeesOneRuleset
<1>2. QED  BY <1>1, ServingInvHolds, PTL

\* A warm slot belongs to the ruleset whose id the memo carries.
THEOREM SlotsAreKeyed == ServingSpec => []SlotsBelongToKey
<1>1. ServingInv => SlotsBelongToKey
  BY DEF ServingInv, ServesOneRuleset, SlotsBelongToKey, PublishedSet, Live
<1>2. QED  BY <1>1, ServingInvHolds, PTL

\* A warm slot stays what it is while the memo keeps its key: no batch prepares
\* a rule again, and none sees the geometry of another ruleset in its place.
THEOREM WarmSlotsStay == ServingSpec => SlotsAreFilledOnce
<1> DEFINE Kept == \A t \in Threads, i \in RuleIndexes :
                     cache[t].slots[i] # NoRuleset /\ cache'[t].key = cache[t].key
                       => cache'[t].slots[i] = cache[t].slots[i]
<1>1. ServingTypeOK /\ [ServingNext]_allVars => [Kept]_allVars
  <2> SUFFICES ASSUME ServingTypeOK, ServingNext
               PROVE  Kept
    OBVIOUS
  <2>1. ASSUME cache' = cache
        PROVE  Kept
    BY <2>1
  <2>2. ASSUME NEW t \in Threads, Prepare(t)
        PROVE  Kept
    BY <2>2 DEF Prepare, ForRuleset, ServingTypeOK
  <2>3. ASSUME NEW t \in Threads, NEW touched \in SUBSET RuleIndexes,
               EvaluateRelate(t, touched)
        PROVE  Kept
    BY <2>3 DEF EvaluateRelate, Ensured, ServingTypeOK, Memos
  <2>4. QED
    BY <2>1, <2>2, <2>3
    DEF ServingNext, StartBatch, EvaluateCandidate, EvaluateUnprepared, NameRules,
        EndBatch, EngineStep, servingVars
<1>2. QED
  BY <1>1, ServingTypeCorrect, PTL DEF ServingSpec, SlotsAreFilledOnce
=============================================================================
