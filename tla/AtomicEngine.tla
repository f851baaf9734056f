---------------------------- MODULE AtomicEngine ----------------------------
(***************************************************************************)
(* What an Engine promises to the threads that share it (ADR-0007,        *)
(* ADR-0009): the active ruleset and its version are one register.  A      *)
(* snapshot, a read of the report and a replacement each take effect at    *)
(* one instant between the call and its answer; a failed replacement has   *)
(* no effect at all.                                                       *)
(*                                                                         *)
(* The register is the log of every ruleset published so far: the active   *)
(* one is the last, its version is the length.  Module Engine implements   *)
(* this with a read-write lock, a mutex and a build off the lock.          *)
(***************************************************************************)
EXTENDS Naturals, Sequences

CONSTANTS Threads,    \* the threads that call the engine
          Rulesets,   \* the compiled rulesets a build can produce
          NoRuleset   \* the ruleset of an answer that carries none

VARIABLES log,        \* every ruleset published, oldest first
          pending,    \* pending[t]: the call thread t waits for
          answer      \* answer[t]: what t's last answered call returned

atomicVars == <<log, pending, answer>>

Calls == {"snapshot", "current", "replace"}

NoAnswer       == [kind |-> "none",     version |-> 0, of |-> NoRuleset]
Failure        == [kind |-> "error",    version |-> 0, of |-> NoRuleset]
SnapshotOf(r)  == [kind |-> "snapshot", version |-> 0, of |-> r]
Report(n, r)   == [kind |-> "report",   version |-> n, of |-> r]

AtomicInit ==
  /\ Len(log) = 1 /\ log[1] \in Rulesets
  /\ pending = [t \in Threads |-> "none"]
  /\ answer = [t \in Threads |-> NoAnswer]

Begin(t, call) ==
  /\ pending[t] = "none"
  /\ pending' = [pending EXCEPT ![t] = call]
  /\ UNCHANGED <<log, answer>>

Answer(t, call, a) ==
  /\ pending[t] = call
  /\ pending' = [pending EXCEPT ![t] = "none"]
  /\ answer' = [answer EXCEPT ![t] = a]

\* A query's snapshot is the ruleset active at that instant.
Snapshot(t) ==
  /\ Answer(t, "snapshot", SnapshotOf(log[Len(log)]))
  /\ UNCHANGED log

\* The report describes the ruleset active at that instant.
Current(t) ==
  /\ Answer(t, "current", Report(Len(log), log[Len(log)]))
  /\ UNCHANGED log

\* A replacement publishes a ruleset never published before, and answers with
\* the report of that very ruleset.
Replace(t) ==
  LET r == log'[Len(log) + 1] IN
  /\ Len(log') = Len(log) + 1
  /\ log' = Append(log, r)
  /\ r \in Rulesets
  /\ \A i \in 1..Len(log) : log[i] # r
  /\ Answer(t, "replace", Report(Len(log'), r))

FailReplace(t) ==
  /\ Answer(t, "replace", Failure)
  /\ UNCHANGED log

AtomicNext ==
  \E t \in Threads :
    \/ \E call \in Calls : Begin(t, call)
    \/ Snapshot(t)
    \/ Current(t)
    \/ Replace(t)
    \/ FailReplace(t)

AtomicSpec == AtomicInit /\ [][AtomicNext]_atomicVars
=============================================================================
