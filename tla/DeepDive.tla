------------------------------ MODULE DeepDive ------------------------------
(***************************************************************************)
(* Stage S4 (pipeline/stages/s4_deepdive.py), parallel branch: every chunk *)
(* of the manifest is analysed by RunsOf[chunk] independent model calls,   *)
(* and the stage reports one outcome per chunk.                            *)
(*                                                                         *)
(* A task is a chunk, numbered by risk rank.  _deepdive_chunk catches what *)
(* a run raises and goes on with the next run, unless the backends were    *)
(* aborted; it raises RuntimeError when no run succeeded.  The main thread *)
(* turns the future of a chunk into its outcome.                           *)
(*                                                                         *)
(* An answer that carries no JSON makes the run fail just as a failed call *)
(* does; both are the child's "error" here.                                *)
(***************************************************************************)
EXTENDS StagePool

CONSTANTS
  RunsOf   \* runs of each chunk, after _effective_runs and specialist_runs

ASSUME DeepDiveAssumption == RunsOf \in [Task -> Nat \ {0}]

VARIABLES
  run,       \* runs each worker has started for the chunk in hand
  runsOk,    \* runs_ok: those that returned findings
  outcomes,  \* what the main thread recorded for each chunk
  seen       \* history: how the runs of each chunk ended

deepVars == <<run, runsOk, outcomes, seen>>
vars == <<callVars, poolVars, deepVars>>

Outcomes == {"completed", "error", "guardrail"}

TypeOK ==
  /\ CallTypeOK
  /\ PoolTypeOK({"findings"})
  /\ run \in [Worker -> Nat]
  /\ runsOk \in [Worker -> Nat]
  /\ outcomes \in [Task -> Outcomes \cup {"none"}]
  /\ seen \in [Task -> SUBSET CallEnds]

Init ==
  /\ CallInit
  /\ PoolInit
  /\ run = [w \in Worker |-> 0]
  /\ runsOk = [w \in Worker |-> 0]
  /\ outcomes = [t \in Task |-> "none"]
  /\ seen = [t \in Task |-> {}]

-----------------------------------------------------------------------------
(* _deepdive_chunk in a worker thread.                                     *)

StartChunk(w) == Dequeue(w) /\ UNCHANGED <<callVars, deepVars>>

Busy(w) == job[w] # NoTask

(* The chunk's future gets its result and the function's locals go.        *)
ReturnChunk(w, result) ==
  /\ Deliver(w, result)
  /\ run' = [run EXCEPT ![w] = 0]
  /\ runsOk' = [runsOk EXCEPT ![w] = 0]

(* The loop over runs looks at llm.aborted() before each of them.          *)
StartRun(w) ==
  /\ Busy(w) /\ pc[w] = "idle"
  /\ run[w] < RunsOf[job[w]]
  /\ ~Aborted
  /\ Goto(w, "entering")
  /\ run' = [run EXCEPT ![w] = @ + 1]
  /\ UNCHANGED <<via, flags, live, child, budget, late, poolVars, runsOk,
                 outcomes, seen>>

SkipRun(w) ==
  /\ Busy(w) /\ pc[w] = "idle"
  /\ run[w] < RunsOf[job[w]]
  /\ Aborted
  /\ ReturnChunk(w, "RuntimeError")
  /\ UNCHANGED <<callVars, outcomes, seen>>

(* What _single_run raises, by the way its call ended.                     *)
ExceptionOf(end) == IF end = "guardrail" THEN "GuardrailBlocked" ELSE "RuntimeError"

(* A run is over.  A run that raised is logged and counts as an empty vote *)
(* set; once the backends are aborted its exception ends the chunk.        *)
EndRun(w) ==
  /\ Busy(w) /\ pc[w] \in CallEnds
  /\ Goto(w, "idle")
  /\ seen' = [seen EXCEPT ![job[w]] = @ \cup {pc[w]}]
  /\ IF pc[w] # "ok" /\ Aborted
     THEN ReturnChunk(w, ExceptionOf(pc[w]))
     ELSE /\ runsOk' = [runsOk EXCEPT ![w] = IF pc[w] = "ok" THEN @ + 1 ELSE @]
          /\ UNCHANGED <<poolVars, run>>
  /\ UNCHANGED <<via, flags, live, child, budget, late, outcomes>>

(* A bug that could be: a chunk whose runs all failed is an empty success. *)
BugEndChunkAlwaysOk(w) ==
  /\ Busy(w) /\ pc[w] = "idle"
  /\ run[w] = RunsOf[job[w]]
  /\ ReturnChunk(w, "findings")
  /\ UNCHANGED <<callVars, outcomes, seen>>

(* After the last run: the survivors of the vote, or, when every run       *)
(* failed, an exception.                                                   *)
EndChunk(w) ==
  /\ Busy(w) /\ pc[w] = "idle"
  /\ run[w] = RunsOf[job[w]]
  /\ ReturnChunk(w, IF runsOk[w] = 0 THEN "RuntimeError" ELSE "findings")
  /\ UNCHANGED <<callVars, outcomes, seen>>

JobStep(w) == StartChunk(w) \/ StartRun(w) \/ SkipRun(w) \/ EndRun(w) \/ EndChunk(w)

-----------------------------------------------------------------------------
(* The as_completed loop of run().                                         *)

OutcomeOf(f) ==
  CASE f = "findings"         -> "completed"
    [] f = "GuardrailBlocked" -> "guardrail"
    [] f = "RuntimeError"     -> "error"

Recorded(o) == {t \in Task : outcomes[t] = o}

(* Enough refusals and not one success: the run is not worth finishing.    *)
FailFast(t) ==
  /\ fut[t] = "GuardrailBlocked"
  /\ Cardinality(Recorded("guardrail")) + 1 >= GuardrailGate
  /\ Recorded("completed") = {}

Collect(t) ==
  /\ main = "collecting"
  /\ fut[t] \in {"findings"} \cup Raises
  /\ outcomes[t] = "none"
  /\ outcomes' = [outcomes EXCEPT ![t] = OutcomeOf(fut[t])]
  /\ main' = IF FailFast(t) THEN "abort_cli"
             ELSE IF Recorded("none") = {t} THEN "joining" ELSE main
  /\ UNCHANGED <<callVars, fut, job, run, runsOk, seen>>

-----------------------------------------------------------------------------
WorkerStep(w) ==
  \/ JobStep(w)
  \/ (CallStep(w) \/ FeedPrompt(w) \/ TimesOut(w)) /\ UNCHANGED <<poolVars, deepVars>>

Main == MainStep /\ UNCHANGED deepVars
Interrupt == (InterruptSubmit \/ InterruptCollect) /\ UNCHANGED deepVars
Exits(w) == ChildExits(w) /\ UNCHANGED <<poolVars, deepVars>>

(* Every thread has ended; the stage may rest.                             *)
Done == Left /\ Finished /\ \A w \in Worker : ~Busy(w)
Rest == Done /\ UNCHANGED vars

Next ==
  \/ \E w \in Worker : WorkerStep(w) \/ Exits(w)
  \/ \E t \in Task : Collect(t)
  \/ Main
  \/ Interrupt
  \/ Rest

Spec == Init /\ [][Next]_vars

(***************************************************************************)
(* Threads are scheduled, so every step the harness takes on its own is    *)
(* weakly fair.  A child need never answer and nobody need press Ctrl-C.   *)
(* A timeout is fair only until the abort: after it, waiting 30 minutes    *)
(* for a child is what the abort exists to avoid.  stdin.write into a      *)
(* child that neither reads nor dies never returns.                        *)
(***************************************************************************)
Fairness ==
  /\ \A w \in Worker :
       /\ WF_vars(JobStep(w))
       /\ WF_vars(CallStep(w) /\ UNCHANGED <<poolVars, deepVars>>)
       /\ WF_vars(FeedPrompt(w) /\ ~Running(w) /\ UNCHANGED <<poolVars, deepVars>>)
       /\ WF_vars(TimesOut(w) /\ ~Aborted /\ UNCHANGED <<poolVars, deepVars>>)
  /\ WF_vars(\E t \in Task : Collect(t))
  /\ WF_vars(Main)

FairSpec == Spec /\ Fairness

-----------------------------------------------------------------------------
(* Properties                                                              *)

(* The stage leaves no thread and no child behind when it returns or       *)
(* raises from its pool: the next repository of a batch clears the abort   *)
(* flag (reset_abort) and must not revive a worker of this one.            *)
QuietOnExit ==
  main \in {"returned", "raised"} =>
    /\ live = {}
    /\ \A w \in Worker : ~Busy(w) /\ pc[w] = "idle" /\ ~Running(w)

(* "Stop queued work and kill all in-flight codex exec children" (the      *)
(* docstring of codex_cli.abort): the same for the codex backend.          *)
CodexAbortReachesAll ==
  via = "codex" /\ Swept("codex") =>
    \A w \in Worker : pc[w] = "waiting" => ~Running(w)

(* However the three layers that look at the flag interleave with it, a    *)
(* thread starts at most one more child after _ABORT is set.               *)
AtMostOneLateChild == \A w \in Worker : late[w] <= 1

(* The outcome the report discloses is the truth about the chunk: it is    *)
(* completed exactly if some run answered, and no chunk whose calls were   *)
(* cut off by an abort is ever counted.                                    *)
OutcomesTruthful ==
  \A t \in Task :
    /\ outcomes[t] = "completed" <=> outcomes[t] # "none" /\ "ok" \in seen[t]
    /\ outcomes[t] # "none" => "aborted" \notin seen[t]

(* The abstract specification: chunks are begun in the order of their rank,*)
(* the recorded outcome is how the chunk's future ended and is recorded    *)
(* once, and a stage that is out of its pool has nothing going on.         *)
Contract == INSTANCE StageContract WITH
  EntryOf <- [f \in {"findings"} \cup Raises |-> OutcomeOf(f)],
  Success <- "completed", Refusal <- "guardrail", Gate <- GuardrailGate,
  standing <- Standing, ledger <- outcomes, stage <- StageState

ImplementsContract == Contract!Spec

(* "The pool callers therefore call abort() on Ctrl-C" (claude_cli's       *)
(* comment on cancellation): a Ctrl-C never leaves the stage without it.   *)
InterruptAborts == main = "escaped" => Aborted

(* outcomes maps each chunk to "completed" / "error" / "guardrail" (the    *)
(* docstring of run): a chunk of which every run was refused by the        *)
(* content guardrail is not reported as a mere error.                      *)
GuardrailDisclosed ==
  \A t \in Task : outcomes[t] = "error" => seen[t] # {"guardrail"}

(* Every pool of claude calls ends, aborted or not, although children may  *)
(* hang for ever; and an aborted one ends without any timeout running out. *)
PoolEnds == via = "cli" => <>Done

(* Ctrl-C while the stage waits for its chunks ends the stage: the aborted *)
(* pool never goes back to collecting and its main thread always raises.   *)
AbortEnds == (via = "cli" /\ main = "abort_cli") ~> main = "raised"
=============================================================================
