------------------------------ MODULE StagePool ------------------------------
(***************************************************************************)
(* The thread pool in which s4_deepdive.run and s6_verify.run process their*)
(* tasks (chunks, findings), and the stage's main thread around it.  The   *)
(* main thread submits every task, consumes the finished ones in           *)
(* completion order, and leaves either with a result or with an exception. *)
(* It leaves by one of four ways:                                          *)
(*   - every task is consumed: shutdown(wait=True), return;                *)
(*   - Ctrl-C while consuming: abort(), cancel the queue, shutdown, raise; *)
(*   - too many guardrail refusals (the stage decides): the same;          *)
(*   - Ctrl-C while still submitting: the submit loop stands before the    *)
(*     `try`, so the exception leaves at once and nothing is shut down.    *)
(* What a task does with its model calls, and what the main thread makes   *)
(* of its result, belong to the stage: DeepDive and Verify.                *)
(***************************************************************************)
EXTENDS AgentCalls

CONSTANTS
  NumTasks,       \* tasks are submitted, and start, in the order 1..NumTasks
  GuardrailFloor  \* the 3 of guardrail_gate = max(3, parallel)

ASSUME PoolAssumption ==
  /\ NumTasks \in Nat \ {0}
  /\ IsFiniteSet(Worker)
  /\ GuardrailFloor \in Nat \ {0}

Task == 1..NumTasks
NoTask == 0

VARIABLES
  fut,    \* the future of each task
  job,    \* the task each worker has in hand, NoTask when it is idle
  main    \* where the stage's main thread stands

poolVars == <<fut, job, main>>

(* What a task's future delivers: a value of the stage, or an exception.   *)
Raises == {"RuntimeError", "GuardrailBlocked"}

FutState(values) ==
  {"unsubmitted", "pending", "running", "cancelled"} \cup values \cup Raises

MainPC == {"submitting", "collecting",
           "abort_cli", "kill_cli", "abort_codex", "kill_codex", "cancelling",
           "joining", "unwinding",
           "returned", "raised", "escaped"}

PoolTypeOK(values) ==
  /\ fut \in [Task -> FutState(values)]
  /\ job \in [Worker -> Task \cup {NoTask}]
  /\ main \in MainPC

PoolInit ==
  /\ fut = [t \in Task |-> "unsubmitted"]
  /\ job = [w \in Worker |-> NoTask]
  /\ main = "submitting"

Tasks(s) == {t \in Task : fut[t] = s}
Oldest(t, s) == \A u \in Tasks(s) : t <= u

(* Every submitted task has been delivered or cancelled.                   *)
Finished == Tasks("pending") \cup Tasks("running") = {}

(* The refusals after which a stage without a success gives up.            *)
GuardrailGate ==
  IF Cardinality(Worker) > GuardrailFloor THEN Cardinality(Worker) ELSE GuardrailFloor

(* The main thread is out of the stage.                                    *)
Left == main \in {"returned", "raised", "escaped"}

-----------------------------------------------------------------------------
(* The executor (concurrent.futures.ThreadPoolExecutor).                   *)

(* An idle thread takes the oldest work item.                              *)
Dequeue(w) ==
  /\ job[w] = NoTask
  /\ \E t \in Tasks("pending") :
       /\ Oldest(t, "pending")
       /\ job' = [job EXCEPT ![w] = t]
       /\ fut' = [fut EXCEPT ![t] = "running"]
  /\ UNCHANGED main

(* The task's function ends: its future holds a value or an exception.     *)
Deliver(w, result) ==
  /\ fut' = [fut EXCEPT ![job[w]] = result]
  /\ job' = [job EXCEPT ![w] = NoTask]
  /\ UNCHANGED main

-----------------------------------------------------------------------------
(* The stage's main thread.                                                *)

MainGoto(from, to) == main = from /\ main' = to

(* ex.submit, one task after the other.                                    *)
Submit ==
  /\ main = "submitting"
  /\ \E t \in Tasks("unsubmitted") :
       /\ Oldest(t, "unsubmitted")
       /\ fut' = [fut EXCEPT ![t] = "pending"]
       /\ main' = IF Tasks("unsubmitted") = {t} THEN "collecting" ELSE main
  /\ UNCHANGED <<job, callVars>>

(* Ctrl-C before the try: no abort, no shutdown.                           *)
InterruptSubmit ==
  /\ MainGoto("submitting", "escaped")
  /\ UNCHANGED <<fut, job, callVars>>

(* Ctrl-C in the as_completed loop.                                        *)
InterruptCollect ==
  /\ MainGoto("collecting", "abort_cli")
  /\ UNCHANGED <<fut, job, callVars>>

(* A bug that could be: abort() kills but forgets _ABORT.set().            *)
BugAbortCliNoFlag == MainGoto("abort_cli", "kill_cli") /\ UNCHANGED <<fut, job, callVars>>

(* llm.abort(): claude_cli.abort(), then codex_cli.abort().                *)
AbortCli   == MainGoto("abort_cli", "kill_cli") /\ SetAbort("cli")
              /\ UNCHANGED <<fut, job>>
KillCli    == MainGoto("kill_cli", "abort_codex") /\ KillLive("cli")
              /\ UNCHANGED <<fut, job>>
AbortCodex == MainGoto("abort_codex", "kill_codex") /\ SetAbort("codex")
              /\ UNCHANGED <<fut, job>>
KillCodex  == MainGoto("kill_codex", "cancelling") /\ KillLive("codex")
              /\ UNCHANGED <<fut, job>>

(* A bug that could be: the handler does not raise again.                  *)
BugCancelQueueReturns ==
  /\ MainGoto("cancelling", "joining")
  /\ fut' = [t \in Task |-> IF fut[t] = "pending" THEN "cancelled" ELSE fut[t]]
  /\ UNCHANGED <<job, callVars>>

(* shutdown(wait=False, cancel_futures=True) empties the queue.            *)
CancelQueue ==
  /\ MainGoto("cancelling", "unwinding")
  /\ fut' = [t \in Task |-> IF fut[t] = "pending" THEN "cancelled" ELSE fut[t]]
  /\ UNCHANGED <<job, callVars>>

(* A bug that could be: shutdown(wait=False) on the way out.               *)
BugJoinNoWait ==
  /\ \/ MainGoto("joining", "returned")
     \/ MainGoto("unwinding", "raised")
  /\ UNCHANGED <<fut, job, callVars>>

(* finally: ex.shutdown(wait=True) joins the threads; then the stage       *)
(* returns, or the exception goes on.                                      *)
Join ==
  /\ Finished
  /\ \A w \in Worker : job[w] = NoTask
  /\ \/ MainGoto("joining", "returned")
     \/ MainGoto("unwinding", "raised")
  /\ UNCHANGED <<fut, job, callVars>>

-----------------------------------------------------------------------------
(* What a caller sees of the tasks and of the stage (see StageContract).   *)
Standing ==
  [t \in Task |->
     IF fut[t] \in {"unsubmitted", "pending"} THEN "waiting"
     ELSE IF fut[t] = "running" THEN "working"
     ELSE IF fut[t] = "cancelled" THEN "withdrawn"
     ELSE fut[t]]

StageState ==
  IF Left THEN main
  ELSE IF main \in {"submitting", "collecting", "joining"} THEN "open"
  ELSE "stopping"

-----------------------------------------------------------------------------
AbortSteps == AbortCli \/ KillCli \/ AbortCodex \/ KillCodex \/ CancelQueue

MainStep == Submit \/ AbortSteps \/ Join

-----------------------------------------------------------------------------
(* A property of every stage's pool.                                       *)

(* abort() of backend b has returned.                                      *)
Swept(b) ==
  \/ main \in {"cancelling", "unwinding", "raised"}
  \/ b = "cli" /\ main \in {"abort_codex", "kill_codex"}

(* Once abort() is through, no claude child is waited for: whatever thread *)
(* was past its first look at _ABORT either had its child killed or looks  *)
(* again before it waits (claude_cli._run).                                *)
CliAbortReachesAll ==
  via = "cli" /\ Swept("cli") =>
    \A w \in Worker : pc[w] = "waiting" => ~Running(w)
=============================================================================
