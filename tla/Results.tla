------------------------------ MODULE Results ------------------------------
(***************************************************************************)
(* node/index.ts and node/src/lib.rs: the results the Node binding hands   *)
(* to JavaScript.  A result holds the mask evaluated when it was asked for *)
(* and evaluates its rich view (toOutcomesJson, toJson) when that is first *)
(* read, so the two may be of different rulesets; queryAsync and           *)
(* resolveAsync evaluate on a worker while the JavaScript thread goes on,  *)
(* replaces the ruleset, or overwrites the Buffer it passed.               *)
(*                                                                         *)
(* The engine is the atomic register that Engine implements.  Candidates   *)
(* are a version number of the caller's Buffer; "query" stands for query   *)
(* and resolve, which have the same shape here.                            *)
(***************************************************************************)
EXTENDS AtomicEngine

CONSTANTS Main,       \* the JavaScript thread; the other threads are workers
          Torn,       \* what a copy reads while the Buffer is overwritten
          MaxWrites,  \* bound: times the caller overwrites its Buffer
          MaxResults  \* bound: results handed to the caller

ASSUME ResultsAssumption ==
  /\ Main \in Threads
  /\ MaxWrites \in Nat /\ MaxResults \in Nat
  /\ Torn \notin Nat

Workers == Threads \ {Main}

VARIABLES buffer,   \* the content of the caller's Buffer
          js,       \* the native call the JavaScript thread is in
          task,     \* the async call each worker is on
          results   \* the result objects, oldest first

resultVars == <<buffer, js, task, results>>
vars == <<atomicVars, resultVars>>

Contents == 0..MaxWrites \cup {Torn}
NoView   == [of |-> NoRuleset, on |-> 0, at |-> 0]

\* A call that was made: of a shared Buffer or of a private copy (a string or
\* an object is serialized into a Buffer of its own), what the candidates were,
\* and how many rulesets had been published.
CallNow(shared) == [shared |-> shared, on |-> buffer, at |-> Len(log)]
Call0  == [shared |-> FALSE, on |-> 0, at |-> 0]
IdleJs == [op |-> "none", call |-> Call0, result |-> 0]
Free   == [phase |-> "free", call |-> Call0, payload |-> 0, overwritten |-> FALSE,
           of |-> NoRuleset]

\* Mutant: a private copy is read through the caller's Buffer.
ContentOfBuffer(call) == buffer

\* The candidates a call's Buffer holds now.
ContentNow(call) == IF call.shared THEN buffer ELSE call.on

NewResult(call, of, payload, overwritten) ==
  [call |-> call, of |-> of, on |-> payload, overwritten |-> overwritten,
   settled |-> Len(log), rich |-> NoView, mispaired |-> FALSE]

ResultsInit ==
  /\ \E r \in Rulesets : log = <<r>>
  /\ AtomicInit
  /\ buffer = 0
  /\ js = IdleJs
  /\ task = [w \in Workers |-> Free]
  /\ results = <<>>

-----------------------------------------------------------------------------
\* A synchronous call blocks the JavaScript thread from the call to its return.
JsCall(op, call, i) ==
  /\ js = IdleJs
  /\ js' = [op |-> op, call |-> call, result |-> i]
  /\ Begin(Main, IF op = "replace" THEN "replace" ELSE "snapshot")
  /\ UNCHANGED <<buffer, task, results>>

CallQuery(shared) ==
  /\ Len(results) < MaxResults
  /\ JsCall("mask", CallNow(shared), 0)

QueryReturns ==
  /\ js.op = "mask"
  /\ Snapshot(Main)
  /\ results' = Append(results, NewResult(js.call, answer'[Main].of, js.call.on, FALSE))
  /\ js' = IdleJs
  /\ UNCHANGED <<buffer, task>>

CallReplace == JsCall("replace", Call0, 0)

ReplaceReturns ==
  /\ js.op = "replace"
  /\ \/ (\E r \in Rulesets : log' = Append(log, r)) /\ Replace(Main)
     \/ FailReplace(Main)
  /\ js' = IdleJs
  /\ UNCHANGED <<buffer, task, results>>

\* Mutant: the rich view is evaluated on every read.
ReadRichUncached(i) ==
  /\ i \in DOMAIN results
  /\ JsCall("rich", [results[i].call EXCEPT !.on = ContentNow(results[i].call),
                                            !.at = Len(log)], i)

\* toOutcomesJson, toJson: evaluated once, over the candidates as they are now.
\* A call that throws leaves the view unset.
ReadRich(i) ==
  /\ i \in DOMAIN results
  /\ results[i].rich = NoView
  /\ JsCall("rich", [results[i].call EXCEPT !.on = ContentNow(results[i].call),
                                            !.at = Len(log)], i)

\* Mutant: the rich view is evaluated against the ruleset first compiled.
RichReturnsFirst ==
  /\ js.op = "rich"
  /\ Snapshot(Main)
  /\ results' = [results EXCEPT ![js.result].rich =
                   [of |-> log[1], on |-> js.call.on, at |-> js.call.at]]
  /\ js' = IdleJs
  /\ UNCHANGED <<buffer, task>>

RichReturns ==
  /\ js.op = "rich"
  /\ Snapshot(Main)
  /\ results' = [results EXCEPT ![js.result].rich =
                   [of |-> answer'[Main].of, on |-> js.call.on, at |-> js.call.at]]
  /\ js' = IdleJs
  /\ UNCHANGED <<buffer, task>>

\* The features of candidates "on" are paired with the mask of a result.
Paired(i, on) ==
  /\ js = IdleJs
  /\ results' = [results EXCEPT ![i].mispaired = @ \/ on # results[i].on]
  /\ UNCHANGED <<atomicVars, buffer, js, task>>

\* Mutant: the features are taken from the caller's Buffer in every case.
ReadGeoJsonOfBuffer(i) == i \in DOMAIN results /\ Paired(i, buffer)

\* toGeoJson: the candidates are parsed again on every read, without a native
\* call, and the features at the positions of the mask are kept.
ReadGeoJson(i) == i \in DOMAIN results /\ Paired(i, ContentNow(results[i].call))

\* The caller reuses its Buffer between two calls.
Overwrite ==
  /\ js = IdleJs
  /\ buffer < MaxWrites
  /\ buffer' = buffer + 1
  /\ task' = [w \in Workers |->
                IF task[w].phase \in {"posted", "copying"}
                  THEN [task[w] EXCEPT !.overwritten = TRUE] ELSE task[w]]
  /\ UNCHANGED <<atomicVars, js, results>>

-----------------------------------------------------------------------------
\* queryAsync, resolveAsync: the call returns a promise at once.
CallAsync(w, shared) ==
  /\ js = IdleJs
  /\ task[w] = Free
  /\ task' = [task EXCEPT ![w] = [Free EXCEPT !.phase = "posted",
                                              !.call = CallNow(shared)]]
  /\ UNCHANGED <<atomicVars, buffer, js, results>>

\* The worker copies the Buffer when it gets to the task.
CopyStarts(w) ==
  /\ task[w].phase = "posted"
  /\ task' = [task EXCEPT ![w].phase = "copying",
                          ![w].payload = ContentNow(task[w].call)]
  /\ UNCHANGED <<atomicVars, buffer, js, results>>

\* Mutant: the Buffer is not copied at all.
CopyEndsUncopied(w) ==
  /\ task[w].phase = "copying"
  /\ task' = [task EXCEPT ![w].phase = "waiting", ![w].payload = buffer]
  /\ Begin(w, "snapshot")
  /\ UNCHANGED <<buffer, js, results>>

\* Then it parses the copy and asks for a snapshot.
CopyEnds(w) ==
  /\ task[w].phase = "copying"
  /\ task' = [task EXCEPT ![w].phase = "waiting",
                ![w].payload = IF @ = ContentNow(task[w].call) THEN @ ELSE Torn]
  /\ Begin(w, "snapshot")
  /\ UNCHANGED <<buffer, js, results>>

\* The copy does not parse: the promise is rejected.
ParseRejects(w) ==
  /\ task[w].phase = "copying"
  /\ task' = [task EXCEPT ![w] = Free]
  /\ UNCHANGED <<atomicVars, buffer, js, results>>

\* Mutants: the worker evaluates the ruleset of its previous task; the worker
\* forgets that it has its snapshot.
EvaluatesStale(w) ==
  /\ task[w].phase = "waiting"
  /\ Snapshot(w)
  /\ task' = [task EXCEPT ![w].phase = "evaluated",
                ![w].of = IF answer[w].of = NoRuleset THEN answer'[w].of ELSE answer[w].of]
  /\ UNCHANGED <<buffer, js, results>>
EvaluatesTwice(w) ==
  /\ task[w].phase = "waiting"
  /\ Snapshot(w)
  /\ task' = [task EXCEPT ![w].of = answer'[w].of]
  /\ UNCHANGED <<buffer, js, results>>

Evaluates(w) ==
  /\ task[w].phase = "waiting"
  /\ Snapshot(w)
  /\ task' = [task EXCEPT ![w].phase = "evaluated", ![w].of = answer'[w].of]
  /\ UNCHANGED <<buffer, js, results>>

\* The promise settles on the JavaScript thread, between two calls.
Settles(w) ==
  /\ js = IdleJs
  /\ task[w].phase = "evaluated"
  /\ Len(results) < MaxResults
  /\ results' = Append(results, NewResult(task[w].call, task[w].of,
                                          task[w].payload, task[w].overwritten))
  /\ task' = [task EXCEPT ![w] = Free]
  /\ UNCHANGED <<atomicVars, buffer, js>>

Async(w) ==
  \/ \E shared \in BOOLEAN : CallAsync(w, shared)
  \/ CopyStarts(w)
  \/ CopyEnds(w)
  \/ ParseRejects(w)
  \/ Evaluates(w)
  \/ Settles(w)

ResultsNext ==
  \/ \E shared \in BOOLEAN : CallQuery(shared)
  \/ QueryReturns
  \/ \E i \in 1..MaxResults : ReadRich(i)
  \/ RichReturns
  \/ \E i \in 1..MaxResults : ReadGeoJson(i)
  \/ CallReplace
  \/ ReplaceReturns
  \/ Overwrite
  \/ \E w \in Workers : Async(w)

ResultsSpec == ResultsInit /\ [][ResultsNext]_vars

-----------------------------------------------------------------------------
CallsMade == [shared : BOOLEAN, on : Contents, at : Nat]
Views     == [of : Rulesets \cup {NoRuleset}, on : Contents, at : Nat]

Tasks ==
  [phase : {"free", "posted", "copying", "waiting", "evaluated"}, call : CallsMade,
   payload : Contents, overwritten : BOOLEAN, of : Rulesets \cup {NoRuleset}]

ResultObjects ==
  [call : CallsMade, of : Rulesets, on : Contents, overwritten : BOOLEAN,
   settled : Nat, rich : Views, mispaired : BOOLEAN]

ResultsTypeOK ==
  /\ buffer \in 0..MaxWrites
  /\ js \in [op : {"none", "mask", "rich", "replace"}, call : CallsMade, result : Nat]
  /\ task \in [Workers -> Tasks]
  /\ results \in Seq(ResultObjects)
  /\ \A w \in Workers : pending[w] = "snapshot" <=> task[w].phase = "waiting"

\* The position of a ruleset in the order of publication.
Position(r) == CHOOSE i \in 1..Len(log) : log[i] = r

HasRich(i) == results[i].rich # NoView

\* "evaluated against the ruleset current at first call": a rich view is never
\* of an older ruleset than its mask, even when the mask was evaluated by a
\* worker after later calls had begun.
RichIsNotOlder ==
  \A i \in DOMAIN results :
    HasRich(i) => Position(results[i].of) <= Position(results[i].rich.of)

\* Mask and rich view disagree only after a replacement or an overwrite: when
\* nothing was published from the call to the first read, and the candidates
\* are private to the result, both are of the same ruleset and candidates.
ViewsAgree ==
  \A i \in DOMAIN results :
    HasRich(i) /\ ~results[i].call.shared =>
      /\ results[i].rich.on = results[i].on
      /\ results[i].rich.at = results[i].call.at => results[i].rich.of = results[i].of

\* A mask is of a ruleset that was active at some instant of its call: not
\* older than the ruleset active when it was made, even when the call waited
\* for a worker that had evaluated an older one, and not newer than the one
\* active when the result was handed over.
MaskWithinCall ==
  \A i \in DOMAIN results :
    /\ results[i].call.at <= Position(results[i].of)
    /\ Position(results[i].of) <= results[i].settled

\* The mask is of the candidates as they were when the call was made, unless
\* the Buffer was the caller's own and was overwritten before the worker had
\* copied it ("copied once per call").
MaskOfTheCandidatesPassed ==
  \A i \in DOMAIN results :
    results[i].on # results[i].call.on =>
      results[i].call.shared /\ results[i].overwritten

\* The features of toGeoJson are those the mask was evaluated on, synchronously
\* or by a worker and after any replacement, unless the Buffer is the caller's
\* own and was overwritten since the call ("every original property preserved
\* (kept from the original payload ...)").
GeoJsonIsOfTheMask ==
  \A i \in DOMAIN results :
    results[i].mispaired =>
      results[i].call.shared /\ results[i].call.on # buffer

\* A rich view, once evaluated, is the view of that result for good.
RichIsCached ==
  [][\A i \in DOMAIN results :
       HasRich(i) => results'[i].rich = results[i].rich]_vars
=============================================================================
