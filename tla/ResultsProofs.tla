--------------------------- MODULE ResultsProofs ---------------------------
(***************************************************************************)
(* For every set of workers and of rulesets, every number of overwrites    *)
(* and of results: what the masks and views of a result are of.  The       *)
(* argument keeps, for every result and every call under way, the place of *)
(* its ruleset in the log and the place of its candidates among the        *)
(* contents of the Buffer; both only ever grow.                            *)
(***************************************************************************)
EXTENDS Results, SequenceTheorems, TLAPS

\* The register: rulesets are published once each.
RegisterInv ==
  /\ log \in Seq(Rulesets) /\ Len(log) \in Nat \ {0}
  /\ \A i, j \in 1..Len(log) : log[i] = log[j] => i = j
  /\ pending \in [Threads -> Calls \cup {"none"}]
  /\ DOMAIN answer = Threads

\* A call was made when "lg" and "b" were no longer than they are.
CallAt(call, lg, b) == call.at \in 1..Len(lg) /\ call.on \in 0..b

\* The ruleset r was active at some instant from "first" to "last".
ActiveWithin(r, first, last, lg) == \E p \in first..last : p \in 1..Len(lg) /\ lg[p] = r

\* What holds of a result under the log "lg" and the Buffer content "b".
ResultAt(R, lg, b) ==
  /\ CallAt(R.call, lg, b)
  /\ R.settled \in 1..Len(lg)
  /\ ActiveWithin(R.of, R.call.at, R.settled, lg)
  /\ R.overwritten => R.call.on < b
  /\ R.on # R.call.on => R.call.shared /\ R.overwritten
  /\ R.mispaired => R.call.shared /\ R.call.on < b
  /\ R.rich # NoView =>
       /\ R.rich.at \in R.settled..Len(lg)
       /\ lg[R.rich.at] = R.rich.of
       /\ ~R.call.shared => R.rich.on = R.call.on

\* What holds of an async call under way.
TaskAt(T, lg, b) ==
  T.phase # "free" =>
    /\ CallAt(T.call, lg, b)
    /\ T.overwritten => T.call.on < b
    /\ T.phase \in {"posted", "copying"} /\ ~T.overwritten => b = T.call.on
    /\ T.phase # "posted" /\ T.payload # T.call.on => T.call.shared /\ T.overwritten
    /\ T.phase = "evaluated" => ActiveWithin(T.of, T.call.at, Len(lg), lg)

\* What holds of the call the JavaScript thread is in: nothing is published
\* while a view is evaluated.
JsAt ==
  /\ js.op = "mask" => CallAt(js.call, log, buffer)
  /\ js.op = "rich" =>
       /\ js.result \in DOMAIN results
       /\ results[js.result].rich = NoView
       /\ js.call.at = Len(log)
       /\ ~results[js.result].call.shared =>
            js.call.on = results[js.result].call.on

ResultsInv ==
  /\ RegisterInv
  /\ \A w \in Workers : TaskAt(task[w], log, buffer)
  /\ JsAt
  /\ \A i \in DOMAIN results : ResultAt(results[i], log, buffer)

-----------------------------------------------------------------------------
\* What a synchronous call does to the register.
LEMMA BeginTyped ==
  ASSUME NEW t \in Threads, NEW call \in Calls, RegisterInv, Begin(t, call)
  PROVE  RegisterInv' /\ log' = log /\ pending' = [pending EXCEPT ![t] = call]
BY DEF RegisterInv, Begin

LEMMA SnapshotTyped ==
  ASSUME NEW t \in Threads, RegisterInv, Snapshot(t)
  PROVE  /\ RegisterInv' /\ log' = log
         /\ pending' = [pending EXCEPT ![t] = "none"]
         /\ answer'[t].of = log[Len(log)]
         /\ log[Len(log)] \in Rulesets
<1>1. log[Len(log)] \in Rulesets
  BY ElementOfSeq DEF RegisterInv
<1>2. QED  BY <1>1 DEF RegisterInv, Snapshot, SnapshotOf, Answer

LEMMA ReplaceTyped ==
  ASSUME RegisterInv, js.op = "replace", ReplaceReturns
  PROVE  /\ RegisterInv'
         /\ pending' = [pending EXCEPT ![Main] = "none"]
         /\ Len(log') >= Len(log)
         /\ \A i \in 1..Len(log) : log'[i] = log[i]
<1> USE ResultsAssumption
<1>1. CASE FailReplace(Main)
  BY <1>1 DEF RegisterInv, FailReplace, Answer
<1>2. ASSUME NEW r \in Rulesets, log' = Append(log, r), Replace(Main)
      PROVE  /\ RegisterInv'
             /\ pending' = [pending EXCEPT ![Main] = "none"]
             /\ Len(log') >= Len(log)
             /\ \A i \in 1..Len(log) : log'[i] = log[i]
  <2>1. /\ log' \in Seq(Rulesets) /\ Len(log') = Len(log) + 1
        /\ \A i \in 1..Len(log) : log'[i] = log[i]
        /\ log'[Len(log) + 1] = r
    BY <1>2, AppendProperties DEF RegisterInv
  <2>2. \A i \in 1..Len(log) : log[i] # r
    BY <1>2, <2>1 DEF Replace
  <2>3. \A i, j \in 1..Len(log') : log'[i] = log'[j] => i = j
    <3> SUFFICES ASSUME NEW i \in 1..Len(log'), NEW j \in 1..Len(log'),
                        log'[i] = log'[j]
                 PROVE  i = j
      OBVIOUS
    <3>1. CASE i \in 1..Len(log) /\ j \in 1..Len(log)
      BY <3>1, <2>1 DEF RegisterInv
    <3>2. CASE i = Len(log) + 1 \/ j = Len(log) + 1
      BY <3>2, <2>1, <2>2 DEF RegisterInv
    <3>3. QED  BY <3>1, <3>2, <2>1 DEF RegisterInv
  <2>4. /\ pending' = [pending EXCEPT ![Main] = "none"]
        /\ DOMAIN answer' = DOMAIN answer
    BY <1>2 DEF Replace, Answer
  <2>5. QED  BY <2>1, <2>3, <2>4 DEF RegisterInv
<1>3. QED  BY <1>1, <1>2 DEF ReplaceReturns

-----------------------------------------------------------------------------
\* What holds of a result or a task under way is not undone by a publication
\* or an overwrite.
LEMMA ResultStable ==
  ASSUME NEW R \in ResultObjects, NEW lg \in Seq(Rulesets), NEW lg2 \in Seq(Rulesets),
         NEW b \in Nat, NEW b2 \in Nat, b <= b2, Len(lg) <= Len(lg2),
         \A i \in 1..Len(lg) : lg2[i] = lg[i],
         ResultAt(R, lg, b)
  PROVE  ResultAt(R, lg2, b2)
<1>1. Len(lg) \in Nat /\ Len(lg2) \in Nat
  BY LenProperties
<1>2. ActiveWithin(R.of, R.call.at, R.settled, lg2)
  BY <1>1 DEF ResultAt, ActiveWithin, ResultObjects, CallsMade
<1>3. CallAt(R.call, lg2, b2)
  BY <1>1 DEF ResultAt, CallAt
<1>4. R.rich # NoView =>
         /\ R.rich.at \in R.settled..Len(lg2)
         /\ lg2[R.rich.at] = R.rich.of
  BY <1>1 DEF ResultAt, ResultObjects, Views
<1>5. R.call.on \in Nat
  BY DEF ResultAt, CallAt
<1>6. R.settled \in 1..Len(lg2)
  BY <1>1 DEF ResultAt
<1>7. QED  BY <1>1, <1>2, <1>3, <1>4, <1>5, <1>6 DEF ResultAt

LEMMA TaskStable ==
  ASSUME NEW T \in Tasks, NEW lg \in Seq(Rulesets), NEW lg2 \in Seq(Rulesets),
         NEW b \in Nat, Len(lg) <= Len(lg2),
         \A i \in 1..Len(lg) : lg2[i] = lg[i],
         TaskAt(T, lg, b)
  PROVE  TaskAt(T, lg2, b)
<1>1. Len(lg) \in Nat /\ Len(lg2) \in Nat
  BY LenProperties
<1>2. ASSUME T.phase # "free"
      PROVE  CallAt(T.call, lg2, b)
  BY <1>1, <1>2 DEF TaskAt, CallAt
<1>3. ASSUME T.phase = "evaluated"
      PROVE  ActiveWithin(T.of, T.call.at, Len(lg2), lg2)
  BY <1>1, <1>3 DEF TaskAt, CallAt, ActiveWithin
<1>4. QED  BY <1>2, <1>3 DEF TaskAt

-----------------------------------------------------------------------------
LEMMA InitEstablishes == ResultsInit => ResultsTypeOK /\ ResultsInv
<1> SUFFICES ASSUME ResultsInit  PROVE ResultsTypeOK /\ ResultsInv
  OBVIOUS
<1> USE ResultsAssumption
<1>1. RegisterInv
  BY DEF ResultsInit, RegisterInv, AtomicInit, Calls
<1>2. Free \in Tasks /\ Call0 \in CallsMade
  BY DEF Free, Tasks, Call0, CallsMade, Contents
<1>3. results \in Seq(ResultObjects) /\ DOMAIN results = {}
  BY EmptySeq DEF ResultsInit
<1>4. \A w \in Workers : pending[w] # "snapshot" /\ task[w].phase = "free"
  BY DEF ResultsInit, AtomicInit, Workers, Free
<1>5. ResultsTypeOK
  BY <1>2, <1>3, <1>4 DEF ResultsInit, ResultsTypeOK, IdleJs
<1>6. JsAt
  BY DEF ResultsInit, IdleJs, JsAt
<1>7. QED  BY <1>1, <1>3, <1>4, <1>5, <1>6 DEF ResultsInv, TaskAt

\* What a call passes to the evaluation has its type.
LEMMA CallsTyped ==
  ASSUME ResultsTypeOK, RegisterInv
  PROVE  /\ \A shared \in BOOLEAN : CallNow(shared) \in CallsMade
         /\ \A call \in CallsMade : ContentNow(call) \in Contents
         /\ Call0 \in CallsMade /\ IdleJs.call \in CallsMade /\ Free \in Tasks
         /\ NoView \in Views
BY ResultsAssumption
DEF ResultsTypeOK, RegisterInv, CallNow, CallsMade, Contents, ContentNow, Call0,
    IdleJs, Free, Tasks, NoView, Views

LEMMA NewResultTyped ==
  ASSUME RegisterInv, ResultsTypeOK, NEW call \in CallsMade, NEW r \in Rulesets,
         NEW payload \in Contents, NEW overwritten \in BOOLEAN
  PROVE  NewResult(call, r, payload, overwritten) \in ResultObjects
BY CallsTyped DEF NewResult, ResultObjects, RegisterInv

\* The steps of the JavaScript thread; the others are of async calls.
JavaScriptStep ==
  \/ \E shared \in BOOLEAN : CallQuery(shared)
  \/ QueryReturns
  \/ \E i \in 1..MaxResults : ReadRich(i)
  \/ RichReturns
  \/ \E i \in 1..MaxResults : ReadGeoJson(i)
  \/ CallReplace
  \/ ReplaceReturns
  \/ Overwrite

\* A step of the JavaScript thread keeps every variable's type.
LEMMA JsTypeStep ==
  ASSUME ResultsTypeOK, ResultsInv, JavaScriptStep
  PROVE  ResultsTypeOK'
<1> USE ResultsAssumption DEF ResultsInv, Workers
<1>1. ASSUME NEW op \in {"mask", "rich", "replace"}, NEW call \in CallsMade,
             NEW i \in Nat, JsCall(op, call, i)
      PROVE  ResultsTypeOK'
  <2>1. pending' = [pending EXCEPT ![Main] =
                      IF op = "replace" THEN "replace" ELSE "snapshot"]
    BY <1>1 DEF JsCall, Begin
  <2>2. QED  BY <1>1, <2>1 DEF JsCall, ResultsTypeOK, RegisterInv
<1>2. ASSUME NEW shared \in BOOLEAN, CallQuery(shared)
      PROVE  ResultsTypeOK'
  BY <1>1, <1>2, CallsTyped DEF CallQuery
<1>3. CASE QueryReturns
  <2>1. /\ pending' = [pending EXCEPT ![Main] = "none"]
        /\ answer'[Main].of \in Rulesets
    BY <1>3, SnapshotTyped DEF QueryReturns
  <2>2. js.call \in CallsMade /\ js.call.on \in Contents
    BY DEF ResultsTypeOK, CallsMade
  <2>3. NewResult(js.call, answer'[Main].of, js.call.on, FALSE) \in ResultObjects
    BY <2>1, <2>2, NewResultTyped
  <2>4. results' \in Seq(ResultObjects)
    BY <1>3, <2>3, AppendProperties DEF QueryReturns, ResultsTypeOK
  <2>5. js' \in [op : {"none", "mask", "rich", "replace"}, call : CallsMade, result : Nat]
    BY <1>3, CallsTyped DEF QueryReturns, IdleJs
  <2>6. QED
    BY <1>3, <2>1, <2>4, <2>5 DEF QueryReturns, ResultsTypeOK, RegisterInv
<1>4. ASSUME NEW i \in 1..MaxResults, ReadRich(i)
      PROVE  ResultsTypeOK'
  <2>1. results[i] \in ResultObjects
    BY <1>4, ElementOfSeq, LenProperties DEF ReadRich, ResultsTypeOK
  <2> DEFINE again == [results[i].call EXCEPT !.on = ContentNow(results[i].call),
                                              !.at = Len(log)]
  <2>2. again \in CallsMade
    BY <2>1, CallsTyped DEF ResultObjects, CallsMade, RegisterInv
  <2>3. JsCall("rich", again, i)
    BY <1>4, Zenon DEF ReadRich
  <2>4. i \in Nat
    BY <1>4
  <2> HIDE DEF again
  <2>5. QED  BY <1>1, <2>2, <2>3, <2>4
<1>5. CASE RichReturns
  <2>1. /\ pending' = [pending EXCEPT ![Main] = "none"]
        /\ answer'[Main].of \in Rulesets
    BY <1>5, SnapshotTyped DEF RichReturns
  <2>2. /\ js.result \in DOMAIN results
        /\ results[js.result] \in ResultObjects
    BY <1>5, ElementOfSeq, LenProperties DEF RichReturns, JsAt, ResultsTypeOK
  <2> DEFINE view == [of |-> answer'[Main].of, on |-> js.call.on, at |-> js.call.at]
  <2>3. view \in Views
    BY <2>1 DEF Views, ResultsTypeOK, CallsMade
  <2>4. [results[js.result] EXCEPT !.rich = view] \in ResultObjects
    BY <2>2, <2>3 DEF ResultObjects
  <2>5. results' = [results EXCEPT ![js.result] =
                      [results[js.result] EXCEPT !.rich = view]]
    BY <1>5 DEF RichReturns
  <2>6. results' \in Seq(ResultObjects)
    BY <2>2, <2>4, <2>5, ExceptSeq, LenProperties DEF ResultsTypeOK
  <2>7. js' \in [op : {"none", "mask", "rich", "replace"}, call : CallsMade, result : Nat]
    BY <1>5, CallsTyped DEF RichReturns, IdleJs
  <2>8. QED
    BY <1>5, <2>1, <2>6, <2>7 DEF RichReturns, ResultsTypeOK, RegisterInv
<1>6. ASSUME NEW i \in 1..MaxResults, ReadGeoJson(i)
      PROVE  ResultsTypeOK'
  <2>1. results[i] \in ResultObjects
    BY <1>6, ElementOfSeq, LenProperties DEF ReadGeoJson, ResultsTypeOK
  <2> DEFINE flag == results[i].mispaired
                       \/ ContentNow(results[i].call) # results[i].on
  <2>2. [results[i] EXCEPT !.mispaired = flag] \in ResultObjects
    BY <2>1 DEF ResultObjects
  <2>3. results' = [results EXCEPT ![i] = [results[i] EXCEPT !.mispaired = flag]]
    BY <1>6 DEF ReadGeoJson, Paired
  <2>4. results' \in Seq(ResultObjects)
    BY <1>6, <2>2, <2>3, ExceptSeq, LenProperties DEF ReadGeoJson, ResultsTypeOK
  <2>5. QED
    BY <1>6, <2>4 DEF ReadGeoJson, Paired, ResultsTypeOK, atomicVars
<1>7. CASE CallReplace
  BY <1>1, <1>7, CallsTyped DEF CallReplace
<1>8. CASE ReplaceReturns
  <2>1. pending' = [pending EXCEPT ![Main] = "none"]
    BY <1>8, ReplaceTyped DEF ReplaceReturns
  <2>2. js' \in [op : {"none", "mask", "rich", "replace"}, call : CallsMade, result : Nat]
    BY <1>8, CallsTyped DEF ReplaceReturns, IdleJs
  <2>3. QED  BY <1>8, <2>1, <2>2 DEF ReplaceReturns, ResultsTypeOK, RegisterInv
<1>9. CASE Overwrite
  <2>1. buffer' \in 0..MaxWrites
    BY <1>9 DEF Overwrite, ResultsTypeOK
  <2>2. \A w \in Workers : [task[w] EXCEPT !.overwritten = TRUE] \in Tasks
    BY DEF ResultsTypeOK, Tasks
  <2>3. /\ task' \in [Workers -> Tasks]
        /\ \A w \in Workers : task'[w].phase = task[w].phase
    BY <1>9, <2>2 DEF Overwrite, ResultsTypeOK, Tasks
  <2>4. QED  BY <1>9, <2>1, <2>3 DEF Overwrite, ResultsTypeOK, atomicVars
<1>10. QED
  BY <1>2, <1>3, <1>4, <1>5, <1>6, <1>7, <1>8, <1>9 DEF JavaScriptStep

\* What an async call does to the register.
LEMMA AsyncRegister ==
  ASSUME NEW w \in Workers, RegisterInv, Async(w)
  PROVE  RegisterInv' /\ log' = log /\ buffer' = buffer
<1> USE DEF Workers
<1>1. ASSUME NEW shared \in BOOLEAN, CallAsync(w, shared)
      PROVE  RegisterInv' /\ log' = log /\ buffer' = buffer
  BY <1>1 DEF CallAsync, atomicVars, RegisterInv
<1>2. CASE CopyStarts(w)  BY <1>2 DEF CopyStarts, atomicVars, RegisterInv
<1>3. CASE CopyEnds(w)  BY <1>3, BeginTyped DEF CopyEnds, Calls
<1>4. CASE ParseRejects(w)  BY <1>4 DEF ParseRejects, atomicVars, RegisterInv
<1>5. CASE Evaluates(w)  BY <1>5, SnapshotTyped DEF Evaluates
<1>6. CASE Settles(w)  BY <1>6 DEF Settles, atomicVars, RegisterInv
<1>7. QED  BY <1>1, <1>2, <1>3, <1>4, <1>5, <1>6 DEF Async

\* A step of an async call keeps every variable's type.
LEMMA AsyncTypeStep ==
  ASSUME ResultsTypeOK, ResultsInv, NEW w \in Workers, Async(w)
  PROVE  ResultsTypeOK'
<1> USE ResultsAssumption DEF ResultsInv, Workers
<1>0. task[w] \in Tasks
  BY DEF ResultsTypeOK
<1>1. ASSUME NEW shared \in BOOLEAN, CallAsync(w, shared)
      PROVE  ResultsTypeOK'
  <2>1. [Free EXCEPT !.phase = "posted", !.call = CallNow(shared)] \in Tasks
    BY CallsTyped DEF Tasks
  <2>2. /\ task' \in [Workers -> Tasks]
        /\ task[w].phase = "free" /\ task'[w].phase = "posted"
        /\ \A v \in Workers : v # w => task'[v] = task[v]
    BY <1>1, <2>1 DEF CallAsync, ResultsTypeOK, Free
  <2>3. QED  BY <1>1, <2>2 DEF CallAsync, ResultsTypeOK, atomicVars
<1>2. CASE CopyStarts(w)
  <2>1. [task[w] EXCEPT !.phase = "copying", !.payload = ContentNow(task[w].call)]
          \in Tasks
    BY <1>0, CallsTyped DEF Tasks
  <2>2. task' = [task EXCEPT ![w] =
          [task[w] EXCEPT !.phase = "copying", !.payload = ContentNow(task[w].call)]]
    BY <1>2 DEF CopyStarts, ResultsTypeOK, Tasks
  <2>3. /\ task' \in [Workers -> Tasks] /\ task'[w].phase = "copying"
        /\ \A v \in Workers : v # w => task'[v] = task[v]
    BY <1>0, <2>1, <2>2 DEF ResultsTypeOK, Tasks
  <2>4. QED  BY <1>2, <2>3 DEF CopyStarts, ResultsTypeOK, atomicVars
<1>3. CASE CopyEnds(w)
  <2> DEFINE copy == IF task[w].payload = ContentNow(task[w].call)
                       THEN task[w].payload ELSE Torn
  <2>1. [task[w] EXCEPT !.phase = "waiting", !.payload = copy] \in Tasks
    BY <1>0 DEF Tasks, Contents
  <2>2. task' = [task EXCEPT ![w] =
          [task[w] EXCEPT !.phase = "waiting", !.payload = copy]]
    BY <1>0, <1>3 DEF CopyEnds, ResultsTypeOK, Tasks
  <2>3. /\ task' \in [Workers -> Tasks] /\ task'[w].phase = "waiting"
        /\ \A v \in Workers : v # w => task'[v] = task[v]
    BY <1>0, <2>1, <2>2 DEF ResultsTypeOK, Tasks
  <2>4. pending' = [pending EXCEPT ![w] = "snapshot"]
    BY <1>3 DEF CopyEnds, Begin
  <2>5. QED  BY <1>3, <2>3, <2>4 DEF CopyEnds, ResultsTypeOK, RegisterInv
<1>4. CASE ParseRejects(w)
  <2>1. /\ task' \in [Workers -> Tasks] /\ task'[w].phase = "free"
        /\ \A v \in Workers : v # w => task'[v] = task[v]
    BY <1>4, CallsTyped DEF ParseRejects, ResultsTypeOK, Free
  <2>2. QED  BY <1>4, <2>1 DEF ParseRejects, ResultsTypeOK, atomicVars
<1>5. CASE Evaluates(w)
  <2>1. /\ pending' = [pending EXCEPT ![w] = "none"]
        /\ answer'[w].of \in Rulesets
    BY <1>5, SnapshotTyped DEF Evaluates
  <2>2. [task[w] EXCEPT !.phase = "evaluated", !.of = answer'[w].of] \in Tasks
    BY <1>0, <2>1 DEF Tasks
  <2>3. task' = [task EXCEPT ![w] =
          [task[w] EXCEPT !.phase = "evaluated", !.of = answer'[w].of]]
    BY <1>5 DEF Evaluates, ResultsTypeOK, Tasks
  <2>4. /\ task' \in [Workers -> Tasks] /\ task'[w].phase = "evaluated"
        /\ \A v \in Workers : v # w => task'[v] = task[v]
    BY <1>0, <2>2, <2>3 DEF ResultsTypeOK, Tasks
  <2>5. QED  BY <1>5, <2>1, <2>4 DEF Evaluates, ResultsTypeOK, RegisterInv
<1>6. CASE Settles(w)
  <2>1. task[w].of \in Rulesets
    <3>1. ActiveWithin(task[w].of, task[w].call.at, Len(log), log)
      BY <1>6 DEF Settles, TaskAt
    <3>2. QED  BY <3>1, ElementOfSeq DEF ActiveWithin, RegisterInv
  <2>2. NewResult(task[w].call, task[w].of, task[w].payload, task[w].overwritten)
          \in ResultObjects
    BY <1>0, <2>1, NewResultTyped DEF Tasks
  <2>3. results' \in Seq(ResultObjects)
    BY <1>6, <2>2, AppendProperties DEF Settles, ResultsTypeOK
  <2>4. /\ task' \in [Workers -> Tasks] /\ task'[w].phase = "free"
        /\ \A v \in Workers : v # w => task'[v] = task[v]
    BY <1>6, CallsTyped DEF Settles, ResultsTypeOK, Free
  <2>5. QED  BY <1>6, <2>3, <2>4 DEF Settles, ResultsTypeOK, atomicVars
<1>7. QED  BY <1>1, <1>2, <1>3, <1>4, <1>5, <1>6 DEF Async

-----------------------------------------------------------------------------
\* A step of the JavaScript thread keeps the invariant.
LEMMA JsInvStep ==
  ASSUME ResultsTypeOK, ResultsTypeOK', ResultsInv, JavaScriptStep
  PROVE  ResultsInv'
<1> USE ResultsAssumption
<1>a. /\ RegisterInv /\ JsAt
      /\ \A w \in Workers : task[w] \in Tasks /\ TaskAt(task[w], log, buffer)
      /\ \A i \in DOMAIN results : ResultAt(results[i], log, buffer)
  BY DEF ResultsInv, ResultsTypeOK
<1>b. /\ Len(log) \in Nat \ {0} /\ log \in Seq(Rulesets)
      /\ buffer \in Nat /\ results \in Seq(ResultObjects)
      /\ DOMAIN results = 1..Len(results) /\ Len(results) \in Nat
      /\ \A i \in DOMAIN results : results[i] \in ResultObjects
  <2>1. results \in Seq(ResultObjects)
    BY DEF ResultsTypeOK
  <2>2. DOMAIN results = 1..Len(results) /\ Len(results) \in Nat
    BY <2>1, LenProperties
  <2>3. QED  BY <1>a, <2>1, <2>2, ElementOfSeq DEF RegisterInv, ResultsTypeOK
<1>1. ASSUME NEW op \in {"mask", "rich", "replace"}, NEW call, NEW i, JsCall(op, call, i)
      PROVE  /\ log' = log /\ buffer' = buffer /\ results' = results /\ RegisterInv'
             /\ js' = [op |-> op, call |-> call, result |-> i]
             /\ \A w \in Workers : TaskAt(task'[w], log', buffer')
             /\ \A k \in DOMAIN results' : ResultAt(results'[k], log', buffer')
  <2>1. RegisterInv' /\ log' = log
    BY <1>1, <1>a, BeginTyped DEF JsCall, Calls
  <2>2. QED  BY <1>1, <1>a, <2>1 DEF JsCall
<1>2. ASSUME NEW shared \in BOOLEAN, CallQuery(shared)
      PROVE  ResultsInv'
  <2>1. JsCall("mask", CallNow(shared), 0)
    BY <1>2 DEF CallQuery
  <2>2. CallAt(CallNow(shared), log, buffer)
    BY <1>b DEF CallAt, CallNow
  <2>3. JsAt'
    BY <1>1, <2>1, <2>2 DEF JsAt
  <2>4. QED  BY <1>1, <2>1, <2>3 DEF ResultsInv
<1>3. CASE QueryReturns
  <2> DEFINE new == NewResult(js.call, answer'[Main].of, js.call.on, FALSE)
  <2>1. /\ RegisterInv' /\ log' = log /\ buffer' = buffer /\ task' = task
        /\ js' = IdleJs /\ results' = Append(results, new)
        /\ answer'[Main].of = log[Len(log)]
    BY <1>3, <1>a, SnapshotTyped DEF QueryReturns
  <2>2. CallAt(js.call, log, buffer)
    BY <1>3, <1>a DEF QueryReturns, JsAt
  <2>3. ResultAt(new, log, buffer)
    BY <1>b, <2>1, <2>2 DEF ResultAt, NewResult, NoView, CallAt, ActiveWithin
  <2>4. \A i \in DOMAIN results' : \/ i \in DOMAIN results /\ results'[i] = results[i]
                                  \/ results'[i] = new
    <3>1. new \in ResultObjects
      <4>1. js.call \in CallsMade /\ js.call.on \in Contents
        BY DEF ResultsTypeOK, CallsMade
      <4>2. answer'[Main].of \in Rulesets
        BY <1>b, <2>1, ElementOfSeq
      <4>3. QED  BY <1>a, <4>1, <4>2, NewResultTyped
    <3> HIDE DEF new
    <3>2. QED  BY <1>b, <2>1, <3>1, AppendProperties, LenProperties
  <2>5. JsAt'
    BY <2>1 DEF JsAt, IdleJs
  <2>6. QED  BY <1>a, <2>1, <2>3, <2>4, <2>5 DEF ResultsInv
<1>4. ASSUME NEW i \in 1..MaxResults, ReadRich(i)
      PROVE  ResultsInv'
  <2> DEFINE again == [results[i].call EXCEPT !.on = ContentNow(results[i].call),
                                              !.at = Len(log)]
  <2>1. JsCall("rich", again, i)
    BY <1>4, Zenon DEF ReadRich
  <2>2. i \in DOMAIN results /\ results[i].rich = NoView
    BY <1>4 DEF ReadRich
  <2>3. again.at = Len(log)
        /\ (~results[i].call.shared => again.on = results[i].call.on)
    BY <1>b, <2>2 DEF ContentNow, ResultObjects, CallsMade
  <2> HIDE DEF again
  <2>4. JsAt'
    BY <1>1, <2>1, <2>2, <2>3 DEF JsAt
  <2>5. QED  BY <1>1, <2>1, <2>4 DEF ResultsInv
<1>5. CASE RichReturns
  <2> DEFINE i == js.result
             view == [of |-> answer'[Main].of, on |-> js.call.on, at |-> js.call.at]
  <2>1. /\ RegisterInv' /\ log' = log /\ buffer' = buffer /\ task' = task
        /\ js' = IdleJs /\ results' = [results EXCEPT ![i].rich = view]
        /\ answer'[Main].of = log[Len(log)]
    BY <1>5, <1>a, SnapshotTyped DEF RichReturns
  <2>2. /\ i \in DOMAIN results /\ js.call.at = Len(log)
        /\ ~results[i].call.shared => js.call.on = results[i].call.on
    BY <1>5, <1>a DEF RichReturns, JsAt
  <2>3. ResultAt([results[i] EXCEPT !.rich = view], log, buffer)
    BY <1>a, <1>b, <2>1, <2>2 DEF ResultAt, ResultObjects, CallsMade
  <2>4. \A k \in DOMAIN results' :
          /\ k \in DOMAIN results
          /\ results'[k] = results[k] \/ results'[k] = [results[i] EXCEPT !.rich = view]
    BY <2>1
  <2>5. JsAt'
    BY <2>1 DEF JsAt, IdleJs
  <2>6. QED  BY <1>a, <2>1, <2>3, <2>4, <2>5 DEF ResultsInv
<1>6. ASSUME NEW i \in 1..MaxResults, ReadGeoJson(i)
      PROVE  ResultsInv'
  <2> DEFINE flag == results[i].mispaired
                       \/ ContentNow(results[i].call) # results[i].on
             marked == [results[i] EXCEPT !.mispaired = flag]
  <2>1. /\ i \in DOMAIN results /\ js = IdleJs
        /\ results' = [results EXCEPT ![i] = marked]
        /\ UNCHANGED <<log, pending, answer, buffer, js, task>>
    BY <1>6 DEF ReadGeoJson, Paired, atomicVars
  <2>2. flag => results[i].call.shared /\ results[i].call.on < buffer
    BY <1>a, <1>b, <2>1 DEF ResultAt, ContentNow, CallAt
  <2>3. ResultAt(marked, log, buffer)
    BY <1>a, <1>b, <2>1, <2>2 DEF ResultAt, ResultObjects
  <2> HIDE DEF marked
  <2>4. \A k \in DOMAIN results' :
          k \in DOMAIN results /\ (results'[k] = results[k] \/ results'[k] = marked)
    BY <2>1
  <2>5. JsAt'
    BY <2>1 DEF JsAt, IdleJs
  <2>6. RegisterInv'
    BY <1>a, <2>1 DEF RegisterInv
  <2>7. QED  BY <1>a, <2>1, <2>3, <2>4, <2>5, <2>6 DEF ResultsInv
<1>7. CASE CallReplace
  <2>1. JsCall("replace", Call0, 0)
    BY <1>7 DEF CallReplace
  <2>2. JsAt'
    BY <1>1, <2>1 DEF JsAt
  <2>3. QED  BY <1>1, <2>1, <2>2 DEF ResultsInv
<1>8. CASE ReplaceReturns
  <2>1. /\ RegisterInv' /\ Len(log') >= Len(log)
        /\ \A i \in 1..Len(log) : log'[i] = log[i]
    BY <1>8, <1>a, ReplaceTyped DEF ReplaceReturns
  <2>2. /\ log' \in Seq(Rulesets) /\ Len(log') \in Nat /\ Len(log) <= Len(log')
        /\ buffer <= buffer
    BY <1>b, <2>1 DEF RegisterInv
  <2>3. buffer' = buffer /\ task' = task /\ results' = results /\ js' = IdleJs
    BY <1>8 DEF ReplaceReturns
  <2>4. \A w \in Workers : TaskAt(task[w], log', buffer)
    BY <1>a, <1>b, <2>1, <2>2, TaskStable
  <2>5. \A i \in DOMAIN results : ResultAt(results[i], log', buffer)
    BY <1>a, <1>b, <2>1, <2>2, ResultStable
  <2>6. JsAt'
    BY <2>3 DEF JsAt, IdleJs
  <2>7. QED  BY <2>1, <2>3, <2>4, <2>5, <2>6 DEF ResultsInv
<1>9. CASE Overwrite
  <2>1. /\ UNCHANGED <<log, pending, answer, js, results>>
        /\ js = IdleJs /\ buffer' = buffer + 1
    BY <1>9 DEF Overwrite, atomicVars
  <2>2. \A i \in DOMAIN results : ResultAt(results[i], log, buffer')
    <3>1. buffer' \in Nat /\ buffer <= buffer' /\ Len(log) <= Len(log)
      BY <1>b, <2>1
    <3>2. QED  BY <1>a, <1>b, <3>1, ResultStable
  <2>3. ASSUME NEW w \in Workers
        PROVE  TaskAt(task'[w], log, buffer')
    <3>1. task'[w] = IF task[w].phase \in {"posted", "copying"}
                       THEN [task[w] EXCEPT !.overwritten = TRUE] ELSE task[w]
      BY <1>9 DEF Overwrite
    <3>2. task[w] \in Tasks /\ TaskAt(task[w], log, buffer)
      BY <1>a
    <3>3. CASE task[w].phase \in {"posted", "copying"}
      BY <1>b, <2>1, <3>1, <3>2, <3>3 DEF TaskAt, CallAt, Tasks, CallsMade
    <3>4. CASE task[w].phase \notin {"posted", "copying"}
      BY <1>b, <2>1, <3>1, <3>2, <3>4 DEF TaskAt, CallAt
    <3>5. QED  BY <3>3, <3>4
  <2>4. JsAt' /\ RegisterInv'
    BY <1>a, <2>1 DEF JsAt, IdleJs, RegisterInv
  <2>5. QED  BY <2>1, <2>2, <2>3, <2>4 DEF ResultsInv
<1>10. QED
  BY <1>2, <1>3, <1>4, <1>5, <1>6, <1>7, <1>8, <1>9 DEF JavaScriptStep

\* A step of an async call keeps the invariant.
LEMMA AsyncInvStep ==
  ASSUME ResultsTypeOK, ResultsTypeOK', ResultsInv, NEW w \in Workers, Async(w)
  PROVE  ResultsInv'
<1> USE ResultsAssumption
<1>a. /\ RegisterInv /\ JsAt /\ task[w] \in Tasks /\ TaskAt(task[w], log, buffer)
      /\ \A v \in Workers : TaskAt(task[v], log, buffer)
      /\ \A i \in DOMAIN results : ResultAt(results[i], log, buffer)
  BY DEF ResultsInv, ResultsTypeOK
<1>b. /\ Len(log) \in Nat \ {0} /\ buffer \in Nat /\ DOMAIN task = Workers
      /\ results \in Seq(ResultObjects)
  BY DEF ResultsInv, RegisterInv, ResultsTypeOK
<1>c. RegisterInv' /\ log' = log /\ buffer' = buffer
  BY <1>a, AsyncRegister
\* Every step but the last leaves the results and the JavaScript thread alone.
<1>1. ASSUME results' = results, js' = js, NEW T,
             task' = [task EXCEPT ![w] = T], TaskAt(T, log, buffer)
      PROVE  ResultsInv'
  <2>1. \A v \in Workers : task'[v] = IF v = w THEN T ELSE task[v]
    BY <1>1, <1>b
  <2>2. JsAt'
    BY <1>1, <1>a, <1>c DEF JsAt
  <2>3. QED  BY <1>1, <1>a, <1>c, <2>1, <2>2 DEF ResultsInv
<1>2. ASSUME NEW shared \in BOOLEAN, CallAsync(w, shared)
      PROVE  ResultsInv'
  <2> DEFINE T == [Free EXCEPT !.phase = "posted", !.call = CallNow(shared)]
  <2>1. /\ T.phase = "posted" /\ T.call = CallNow(shared) /\ T.overwritten = FALSE
    BY DEF Free
  <2>2. task' = [task EXCEPT ![w] = T] /\ results' = results /\ js' = js
    BY <1>2 DEF CallAsync
  <2> HIDE DEF T
  <2>3. TaskAt(T, log, buffer)
    BY <1>b, <2>1 DEF TaskAt, CallAt, CallNow
  <2>4. QED  BY <1>1, <2>2, <2>3
<1>3. CASE CopyStarts(w)
  <2> DEFINE T == [task[w] EXCEPT !.phase = "copying",
                                  !.payload = ContentNow(task[w].call)]
  <2>1. TaskAt(T, log, buffer)
    BY <1>3, <1>a DEF CopyStarts, TaskAt, ContentNow, Tasks
  <2>2. task' = [task EXCEPT ![w] = T] /\ results' = results /\ js' = js
    BY <1>3 DEF CopyStarts
  <2> HIDE DEF T
  <2>3. QED  BY <1>1, <2>1, <2>2
<1>4. CASE CopyEnds(w)
  <2> DEFINE copy == IF task[w].payload = ContentNow(task[w].call)
                       THEN task[w].payload ELSE Torn
             T    == [task[w] EXCEPT !.phase = "waiting", !.payload = copy]
  <2>1. copy # task[w].call.on => task[w].call.shared /\ task[w].overwritten
    BY <1>4, <1>a DEF CopyEnds, TaskAt, ContentNow
  <2>2. TaskAt(T, log, buffer)
    BY <1>4, <1>a, <2>1 DEF CopyEnds, TaskAt, Tasks
  <2>3. task' = [task EXCEPT ![w] = T] /\ results' = results /\ js' = js
    BY <1>4, <1>a DEF CopyEnds, Tasks
  <2> HIDE DEF T
  <2>4. QED  BY <1>1, <2>2, <2>3
<1>5. CASE ParseRejects(w)
  <2>1. task' = [task EXCEPT ![w] = Free] /\ results' = results /\ js' = js
    BY <1>5 DEF ParseRejects
  <2>2. TaskAt(Free, log, buffer)
    BY DEF TaskAt, Free
  <2>3. QED  BY <1>1, <2>1, <2>2
<1>6. CASE Evaluates(w)
  <2> DEFINE T == [task[w] EXCEPT !.phase = "evaluated", !.of = answer'[w].of]
  <2>1. answer'[w].of = log[Len(log)]
    BY <1>6, <1>a, SnapshotTyped DEF Evaluates, Workers
  <2>2. ActiveWithin(answer'[w].of, task[w].call.at, Len(log), log)
    BY <1>6, <1>a, <1>b, <2>1 DEF Evaluates, TaskAt, CallAt, ActiveWithin
  <2>3. TaskAt(T, log, buffer)
    BY <1>6, <1>a, <2>2 DEF Evaluates, TaskAt, Tasks
  <2>4. task' = [task EXCEPT ![w] = T] /\ results' = results /\ js' = js
    BY <1>6 DEF Evaluates
  <2> HIDE DEF T
  <2>5. QED  BY <1>1, <2>3, <2>4
<1>7. CASE Settles(w)
  <2> DEFINE new == NewResult(task[w].call, task[w].of, task[w].payload,
                              task[w].overwritten)
  <2>1. /\ js = IdleJs /\ js' = js /\ results' = Append(results, new)
        /\ task' = [task EXCEPT ![w] = Free] /\ task[w].phase = "evaluated"
    BY <1>7 DEF Settles
  <2>2. ResultAt(new, log, buffer)
    BY <1>a, <1>b, <2>1 DEF TaskAt, ResultAt, NewResult, NoView, CallAt
  <2>3. new \in ResultObjects
    <3>1. task[w].of \in Rulesets
      BY <1>a, <2>1, ElementOfSeq DEF TaskAt, ActiveWithin, RegisterInv
    <3>2. QED  BY <1>a, <3>1, NewResultTyped DEF ResultsInv, Tasks
  <2> HIDE DEF new
  <2>4. \A i \in DOMAIN results' : \/ i \in DOMAIN results /\ results'[i] = results[i]
                                  \/ results'[i] = new
    BY <1>b, <2>1, <2>3, AppendProperties, LenProperties
  <2>5. \A v \in Workers : TaskAt(task'[v], log, buffer)
    <3>1. \A v \in Workers : task'[v] = IF v = w THEN Free ELSE task[v]
      BY <1>b, <2>1
    <3>2. TaskAt(Free, log, buffer)
      BY DEF TaskAt, Free
    <3>3. QED  BY <1>a, <3>1, <3>2
  <2>6. JsAt'
    BY <2>1 DEF JsAt, IdleJs
  <2>7. QED  BY <1>a, <1>c, <2>2, <2>4, <2>5, <2>6 DEF ResultsInv
<1>8. QED  BY <1>2, <1>3, <1>4, <1>5, <1>6, <1>7 DEF Async

-----------------------------------------------------------------------------
LEMMA StepPreserves ==
  ASSUME ResultsTypeOK, ResultsInv, [ResultsNext]_vars
  PROVE  ResultsTypeOK' /\ ResultsInv'
<1>1. CASE JavaScriptStep  BY <1>1, JsTypeStep, JsInvStep
<1>2. ASSUME NEW w \in Workers, Async(w)
      PROVE  ResultsTypeOK' /\ ResultsInv'
  BY <1>2, AsyncTypeStep, AsyncInvStep
<1>3. CASE UNCHANGED vars
  <2>1. ResultsTypeOK'
    BY <1>3 DEF vars, atomicVars, resultVars, ResultsTypeOK
  <2>2. RegisterInv' /\ JsAt'
    BY <1>3 DEF vars, atomicVars, resultVars, ResultsInv, RegisterInv, JsAt
  <2>3. QED  BY <1>3, <2>1, <2>2 DEF vars, atomicVars, resultVars, ResultsInv
<1>4. QED  BY <1>1, <1>2, <1>3 DEF ResultsNext, JavaScriptStep

\* Every variable keeps its type, and a worker waits for the engine exactly
\* while its task does.
THEOREM ResultsTypeCorrect == ResultsSpec => []ResultsTypeOK
<1>1. ResultsTypeOK /\ ResultsInv /\ [ResultsNext]_vars
        => (ResultsTypeOK /\ ResultsInv)'
  BY StepPreserves
<1>2. QED  BY <1>1, InitEstablishes, PTL DEF ResultsSpec

\* ResultsInv is inductive.
THEOREM ResultsInvariant == ResultsSpec => []ResultsInv
<1>1. ResultsTypeOK /\ ResultsInv /\ [ResultsNext]_vars
        => (ResultsTypeOK /\ ResultsInv)'
  BY StepPreserves
<1>2. QED  BY <1>1, InitEstablishes, PTL DEF ResultsSpec

-----------------------------------------------------------------------------
\* A ruleset has one place in the log.
LEMMA PositionIs ==
  ASSUME RegisterInv, NEW p \in 1..Len(log)
  PROVE  Position(log[p]) = p
BY DEF RegisterInv, Position

\* A mask is of a ruleset active between the call and the hand-over of its
\* result, however long the call waited for a worker.
THEOREM MasksAreWithinTheirCalls == ResultsSpec => []MaskWithinCall
<1>1. ResultsTypeOK /\ ResultsInv => MaskWithinCall
  <2> SUFFICES ASSUME ResultsTypeOK, ResultsInv, NEW i \in DOMAIN results
               PROVE  /\ results[i].call.at <= Position(results[i].of)
                      /\ Position(results[i].of) <= results[i].settled
    BY DEF MaskWithinCall
  <2>1. ActiveWithin(results[i].of, results[i].call.at, results[i].settled, log)
    BY DEF ResultsInv, ResultAt
  <2>2. PICK p \in results[i].call.at..results[i].settled :
               p \in 1..Len(log) /\ log[p] = results[i].of
    BY <2>1 DEF ActiveWithin
  <2>3. Position(results[i].of) = p
    BY <2>2, PositionIs DEF ResultsInv
  <2>4. results[i].call.at \in Int /\ results[i].settled \in Int
    BY DEF ResultsInv, ResultAt, CallAt
  <2>5. QED  BY <2>2, <2>3, <2>4
<1>2. QED  BY <1>1, ResultsTypeCorrect, ResultsInvariant, PTL

\* A rich view is never of an older ruleset than the mask of its result.
THEOREM RichViewsAreNotOlder == ResultsSpec => []RichIsNotOlder
<1>1. ResultsInv => RichIsNotOlder
  <2> SUFFICES ASSUME ResultsInv, NEW i \in DOMAIN results, HasRich(i)
               PROVE  Position(results[i].of) <= Position(results[i].rich.of)
    BY DEF RichIsNotOlder
  <2> DEFINE R == results[i]
  <2>1. /\ ActiveWithin(R.of, R.call.at, R.settled, log)
        /\ R.rich.at \in R.settled..Len(log) /\ log[R.rich.at] = R.rich.of
        /\ R.call.at \in 1..Len(log) /\ R.settled \in 1..Len(log)
    BY DEF ResultsInv, ResultAt, CallAt, HasRich
  <2> HIDE DEF R
  <2>2. PICK p \in R.call.at..R.settled : p \in 1..Len(log) /\ log[p] = R.of
    BY <2>1 DEF ActiveWithin
  <2>3. Len(log) \in Nat /\ RegisterInv
    BY DEF ResultsInv, RegisterInv
  <2>4. Position(R.of) = p /\ Position(R.rich.of) = R.rich.at
    BY <2>1, <2>2, <2>3, PositionIs
  <2>5. QED  BY <2>1, <2>2, <2>3, <2>4 DEF R
<1>2. QED  BY <1>1, ResultsInvariant, PTL

\* Over private candidates, mask and view agree unless a ruleset was published
\* between the call and the first read of the view.
THEOREM ViewsOfOneRulesetAgree == ResultsSpec => []ViewsAgree
<1>1. ResultsInv => ViewsAgree
  <2> SUFFICES ASSUME ResultsInv, NEW i \in DOMAIN results, HasRich(i),
                      ~results[i].call.shared
               PROVE  /\ results[i].rich.on = results[i].on
                      /\ results[i].rich.at = results[i].call.at
                           => results[i].rich.of = results[i].of
    BY DEF ViewsAgree
  <2> DEFINE R == results[i]
  <2>1. /\ ActiveWithin(R.of, R.call.at, R.settled, log)
        /\ R.rich.at \in R.settled..Len(log) /\ log[R.rich.at] = R.rich.of
        /\ R.call.at \in 1..Len(log) /\ R.settled \in 1..Len(log)
        /\ R.rich.on = R.call.on /\ R.on = R.call.on
    BY DEF ResultsInv, ResultAt, CallAt, HasRich
  <2> HIDE DEF R
  <2>2. PICK p \in R.call.at..R.settled : p \in 1..Len(log) /\ log[p] = R.of
    BY <2>1 DEF ActiveWithin
  <2>3. R.rich.at = R.call.at => p = R.rich.at
    BY <2>1, <2>2 DEF ResultsInv, RegisterInv
  <2>4. QED  BY <2>1, <2>2, <2>3 DEF R
<1>2. QED  BY <1>1, ResultsInvariant, PTL

\* A mask is of other candidates than those passed only when the caller
\* overwrote its own Buffer before the worker had copied it.
THEOREM MasksAreOfTheCandidatesPassed == ResultsSpec => []MaskOfTheCandidatesPassed
<1>1. ResultsInv => MaskOfTheCandidatesPassed
  BY DEF ResultsInv, ResultAt, MaskOfTheCandidatesPassed
<1>2. QED  BY <1>1, ResultsInvariant, PTL

\* toGeoJson pairs a mask with other features only when the caller overwrote
\* its own Buffer since the call.
THEOREM FeaturesAreOfTheMask == ResultsSpec => []GeoJsonIsOfTheMask
<1>1. ResultsTypeOK /\ ResultsInv => GeoJsonIsOfTheMask
  <2> SUFFICES ASSUME ResultsTypeOK, ResultsInv, NEW i \in DOMAIN results,
                      results[i].mispaired
               PROVE  results[i].call.shared /\ results[i].call.on # buffer
    BY DEF GeoJsonIsOfTheMask
  <2>1. /\ results[i].call.shared /\ results[i].call.on < buffer
        /\ results[i].call.on \in 0..buffer
    BY DEF ResultsInv, ResultAt, CallAt
  <2>2. QED  BY <2>1 DEF ResultsTypeOK
<1>2. QED  BY <1>1, ResultsTypeCorrect, ResultsInvariant, PTL

\* A rich view is evaluated once.
THEOREM RichViewsAreCached == ResultsSpec => RichIsCached
<1> DEFINE Kept == \A i \in DOMAIN results :
                     HasRich(i) => results'[i].rich = results[i].rich
<1>1. ResultsTypeOK /\ ResultsInv /\ [ResultsNext]_vars => [Kept]_vars
  <2> SUFFICES ASSUME ResultsTypeOK, ResultsInv, ResultsNext
               PROVE  Kept
    OBVIOUS
  <2> USE DEF HasRich
  <2>1. ASSUME NEW new, results' = Append(results, new)
        PROVE  Kept
    BY <2>1 DEF ResultsTypeOK
  <2>2. ASSUME results' = results
        PROVE  Kept
    BY <2>2
  <2>3. CASE JavaScriptStep
    <3>1. CASE RichReturns
      BY <3>1 DEF RichReturns, ResultsInv, JsAt
    <3>2. ASSUME NEW i \in 1..MaxResults, ReadGeoJson(i)
          PROVE  Kept
      BY <3>2 DEF ReadGeoJson, Paired
    <3>3. QED
      BY <2>1, <2>2, <2>3, <3>1, <3>2
      DEF JavaScriptStep, CallQuery, JsCall, QueryReturns, ReadRich, CallReplace,
          ReplaceReturns, Overwrite
  <2>4. ASSUME NEW w \in Workers, Async(w)
        PROVE  Kept
    BY <2>1, <2>2, <2>4
    DEF Async, CallAsync, CopyStarts, CopyEnds, ParseRejects, Evaluates, Settles
  <2>5. QED  BY <2>3, <2>4 DEF ResultsNext, JavaScriptStep
<1>2. QED
  BY <1>1, ResultsTypeCorrect, ResultsInvariant, PTL DEF ResultsSpec, RichIsCached

\* The register of the binding is the engine's: a synchronous call, a worker's
\* evaluation and a replacement are its steps, and everything else the binding
\* does (copies, promises, lazy views, overwrites) leaves it alone.
THEOREM ResultsUseTheRegister == ResultsSpec => AtomicSpec
<1>1. ResultsInit => AtomicInit
  BY DEF ResultsInit
<1>2. [ResultsNext]_vars => [AtomicNext]_atomicVars
  <2> SUFFICES ASSUME ResultsNext
               PROVE  AtomicNext \/ UNCHANGED atomicVars
    BY DEF vars
  <2> USE ResultsAssumption DEF Workers
  <2>1. ASSUME NEW t \in Threads, NEW call \in Calls, Begin(t, call)
        PROVE  AtomicNext
    BY <2>1 DEF AtomicNext
  <2>2. ASSUME NEW t \in Threads, Snapshot(t) \/ Replace(t) \/ FailReplace(t)
        PROVE  AtomicNext
    BY <2>2 DEF AtomicNext
  <2>3. ASSUME NEW op, NEW call, NEW i, JsCall(op, call, i)
        PROVE  AtomicNext
    BY <2>1, <2>3 DEF JsCall, Calls
  <2>4. CASE \/ \E shared \in BOOLEAN : CallQuery(shared)
             \/ \E i \in 1..MaxResults : ReadRich(i)
             \/ CallReplace
    BY <2>3, <2>4 DEF CallQuery, ReadRich, CallReplace
  <2>5. CASE QueryReturns \/ RichReturns \/ ReplaceReturns
    BY <2>2, <2>5 DEF QueryReturns, RichReturns, ReplaceReturns
  <2>6. CASE (\E i \in 1..MaxResults : ReadGeoJson(i)) \/ Overwrite
    BY <2>6 DEF ReadGeoJson, Paired, Overwrite
  <2>7. ASSUME NEW w \in Workers, Async(w)
        PROVE  AtomicNext \/ UNCHANGED atomicVars
    BY <2>1, <2>2, <2>7
    DEF Async, CallAsync, CopyStarts, CopyEnds, ParseRejects, Evaluates, Settles, Calls
  <2>8. QED  BY <2>4, <2>5, <2>6, <2>7 DEF ResultsNext
<1>3. QED  BY <1>1, <1>2, PTL DEF ResultsSpec, AtomicSpec
=============================================================================
