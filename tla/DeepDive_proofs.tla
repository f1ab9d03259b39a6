--------------------------- MODULE DeepDive_proofs ---------------------------
(***************************************************************************)
(* Theorems about the S4 pool, for any number of workers, chunks, runs and *)
(* retries, and for both subprocess backends.                              *)
(*                                                                         *)
(* The argument has three parts.  CallShape ties each thread's program     *)
(* counter to its child process and to the _LIVE registry; with it the     *)
(* kill in KillCli is seen to hit every child that a thread waits for.     *)
(* FlagShape says how far the main thread's program counter tells that     *)
(* the abort flag is up, so that Recheck cannot let a thread through once  *)
(* the kill is done.  ExitShape says nothing is left to start when the     *)
(* main thread has joined the pool.                                        *)
(*                                                                         *)
(* Then follow what is needed to know that the reported outcomes are true; *)
(* that the stage implements StageContract, for which QueueShape says how  *)
(* far the queue is and what the refusals amount to; and a rank of the     *)
(* main thread, of each chunk and of each thread at work that every step   *)
(* lowers, which is why a pool ends unless a child keeps it waiting.       *)
(***************************************************************************)
EXTENDS DeepDive, FiniteSetTheorems, WellFoundedInduction, TLAPS

(* Which steps of a call have a child, and which have it registered.       *)
CallShape ==
  \A w \in Worker :
    /\ child[w] # "none" => pc[w] \in {"spawned", "registered", "feeding", "waiting"}
    /\ w \in live <=> pc[w] \in {"registered", "feeding", "waiting"}
    /\ pc[w] = "registered" => via = "cli"
    /\ pc[w] = "feeding" => via = "codex"
    /\ job[w] = NoTask => pc[w] = "idle"
    /\ child[w] \in Answers => child[w] \in AnswersOf(via)

(* The claude flag is up from the first step of abort() on.                *)
FlagShape ==
  main \in {"kill_cli", "abort_codex", "kill_codex", "cancelling", "unwinding", "raised"}
    => "cli" \in flags

(* A joined pool has no thread at work and nothing queued.                 *)
ExitShape ==
  main \in {"returned", "raised"} => Finished /\ \A w \in Worker : job[w] = NoTask

(* After its one late child a thread is on its way out of the call, and    *)
(* llm.aborted() keeps it from entering another.                           *)
LateShape ==
  \A w \in Worker : late[w] # 0 =>
    /\ late[w] = 1
    /\ via \in flags
    /\ pc[w] \in {"spawned", "registered", "feeding", "waiting", "idle"} \cup CallEnds
    /\ pc[w] = "waiting" => via = "codex"

IInv ==
  /\ TypeOK
  /\ CallShape
  /\ FlagShape
  /\ ExitShape
  /\ LateShape
  /\ CliAbortReachesAll

-----------------------------------------------------------------------------
(* Lemmas                                                                  *)

(* A call starts with no retry used.                                       *)
LEMMA FreshBudget == Fresh \in Budgets
  BY CallAssumption DEF Fresh, Budgets

(* The initial state satisfies the inductive invariant.                    *)
LEMMA InitIInv == Init => IInv
  <1>1. SUFFICES ASSUME Init PROVE IInv
    OBVIOUS
  <1> USE DEF Init, CallInit, PoolInit
  <1>2. TypeOK
    BY FreshBudget, CallAssumption, PoolAssumption, DeepDiveAssumption, <1>1
       DEF TypeOK, CallTypeOK, PoolTypeOK, Backends, CallPC, CallEnds,
           ChildState, FutState, MainPC, Outcomes, Task, NoTask
  <1>3. CallShape /\ FlagShape /\ ExitShape /\ LateShape
    BY <1>1 DEF CallShape, FlagShape, ExitShape, LateShape, Answers
  <1>4. CliAbortReachesAll
    BY <1>1 DEF CliAbortReachesAll, Swept
  <1> QED BY <1>2, <1>3, <1>4 DEF IInv

(* Where a thread stands without a child of its own.                       *)
Childless == {"launching", "backoff"} \cup CallEnds

(* Seven actions leave a child behind with EndAttempt.  It preserves the   *)
(* invariant whatever the next attempt is, provided a thread that already  *)
(* started a child after the abort does not get another attempt.           *)
LEMMA EndAttemptIInv ==
  ASSUME IInv, NEW w \in Worker, NEW l \in Childless, NEW b \in Budgets,
         job[w] # NoTask,
         late[w] # 0 => l \in CallEnds,
         EndAttempt(w, l, b), UNCHANGED <<poolVars, deepVars>>
  PROVE  IInv'
  <1> USE DEF IInv, TypeOK, CallTypeOK, EndAttempt, Goto, poolVars, deepVars
  <1>1. TypeOK'
    BY DEF Childless, CallPC, ChildState, PoolTypeOK
  <1>2. CallShape'
    BY DEF CallShape, Childless, CallEnds, Answers, AnswersOf
  <1>3. FlagShape' /\ ExitShape'
    BY DEF FlagShape, ExitShape, Finished, Tasks
  <1>4. LateShape'
    BY DEF LateShape, Childless, CallEnds
  <1>5. CliAbortReachesAll'
    BY DEF CliAbortReachesAll, Swept, Running, Childless, CallEnds
  <1> QED BY <1>1, <1>2, <1>3, <1>4, <1>5

(* The steps of _deepdive_chunk touch neither flags nor children.          *)
LEMMA JobStepIInv == ASSUME IInv, NEW w \in Worker, JobStep(w) PROVE IInv'
  <1> USE DEF IInv, TypeOK, CallTypeOK, PoolTypeOK, Busy, NoTask
  <1>1. CASE StartChunk(w)
    <2> USE <1>1 DEF StartChunk, Dequeue, Tasks, callVars, deepVars
    <2>1. TypeOK' BY DEF FutState, Task
    <2>2. CallShape' BY DEF CallShape, Task
    <2>3. FlagShape' /\ LateShape' BY DEF FlagShape, LateShape
    <2>4. ExitShape' BY DEF ExitShape, Finished
    <2>5. CliAbortReachesAll' BY DEF CliAbortReachesAll, Swept, Running
    <2> QED BY <2>1, <2>2, <2>3, <2>4, <2>5
  <1>2. CASE StartRun(w)
    <2> USE <1>2 DEF StartRun, Goto, poolVars
    <2>1. TypeOK'
      <3>1. run' \in [Worker -> Nat] OBVIOUS
      <3>2. pc' \in [Worker -> CallPC] BY DEF CallPC
      <3> QED BY <3>1, <3>2
    <2>2. CallShape' BY DEF CallShape
    <2>3. FlagShape' BY DEF FlagShape
    <2>4. LateShape' BY DEF LateShape, Aborted
    <2>5. ExitShape' BY DEF ExitShape, Finished, Tasks
    <2>6. CliAbortReachesAll' BY DEF CliAbortReachesAll, Swept, Running
    <2> QED BY <2>1, <2>2, <2>3, <2>4, <2>5, <2>6
  <1>3. CASE SkipRun(w)
    <2> USE <1>3 DEF SkipRun, ReturnChunk, Deliver, callVars
    <2>1. TypeOK' BY DEF FutState, Raises
    <2>2. CallShape' BY DEF CallShape
    <2>3. FlagShape' /\ LateShape' BY DEF FlagShape, LateShape
    <2>4. ExitShape' BY DEF ExitShape
    <2>5. CliAbortReachesAll' BY DEF CliAbortReachesAll, Swept, Running
    <2> QED BY <2>1, <2>2, <2>3, <2>4, <2>5
  <1>4. CASE EndRun(w)
    <2> USE <1>4 DEF EndRun, ReturnChunk, Deliver, Goto, poolVars
    <2>1. TypeOK'
      <3>1. pc' \in [Worker -> CallPC] BY DEF CallPC
      <3>2. seen' \in [Task -> SUBSET CallEnds]
        <4>1. pc[w] \in CallEnds /\ job[w] \in Task OBVIOUS
        <4> QED BY <4>1
      <3>3. CASE pc[w] # "ok" /\ Aborted
        BY <3>1, <3>2, <3>3 DEF FutState, Raises, ExceptionOf
      <3>4. CASE ~(pc[w] # "ok" /\ Aborted)
        <4>1. runsOk' \in [Worker -> Nat] BY <3>4
        <4> QED BY <3>1, <3>2, <3>4, <4>1
      <3> QED BY <3>3, <3>4
    <2>2. CallShape'
      <3>1. child[w] = "none" /\ w \notin live
        BY DEF CallShape, CallEnds, ChildState
      <3>2. CASE pc[w] # "ok" /\ Aborted BY <3>1, <3>2 DEF CallShape
      <3>3. CASE ~(pc[w] # "ok" /\ Aborted) BY <3>1, <3>3 DEF CallShape
      <3> QED BY <3>2, <3>3
    <2>3. FlagShape' BY DEF FlagShape
    <2>4. LateShape' BY DEF LateShape
    <2>5. ExitShape' BY DEF ExitShape, Finished, Tasks
    <2>6. CliAbortReachesAll' BY DEF CliAbortReachesAll, Swept, Running
    <2> QED BY <2>1, <2>2, <2>3, <2>4, <2>5, <2>6
  <1>5. CASE EndChunk(w)
    <2> USE <1>5 DEF EndChunk, ReturnChunk, Deliver, callVars
    <2>1. TypeOK' BY DEF FutState, Raises
    <2>2. CallShape' BY DEF CallShape
    <2>3. FlagShape' /\ LateShape' BY DEF FlagShape, LateShape
    <2>4. ExitShape' BY DEF ExitShape
    <2>5. CliAbortReachesAll' BY DEF CliAbortReachesAll, Swept, Running
    <2> QED BY <2>1, <2>2, <2>3, <2>4, <2>5
  <1> QED BY <1>1, <1>2, <1>3, <1>4, <1>5 DEF JobStep

(* The steps of a call, and its child's exit.  A thread with a child, or   *)
(* with a call at all, has a chunk in hand (CallShape).                    *)
LEMMA CallStepIInv ==
  ASSUME IInv, NEW w \in Worker, UNCHANGED <<poolVars, deepVars>>,
         CallStep(w) \/ FeedPrompt(w) \/ TimesOut(w) \/ ChildExits(w)
  PROVE  IInv'
  <1> USE DEF IInv
  <1>job. pc[w] # "idle" => job[w] # NoTask
    BY DEF CallShape
  <1>fresh. Fresh \in Budgets
    BY FreshBudget
  <1>budget. budget[w] \in Budgets
    BY DEF TypeOK, CallTypeOK
  (* What EndAttemptIInv asks for, at the places a call ends.              *)
  <1>end. ASSUME NEW l \in CallEnds, EndCall(w, l), pc[w] # "idle" PROVE IInv'
    BY <1>end, <1>job, <1>fresh, EndAttemptIInv DEF EndCall, Childless
  <1>1. CASE EnterCall(w)
    <2> USE <1>1 DEF EnterCall, Goto, poolVars, deepVars, CallTypeOK
    <2>1. TypeOK' BY DEF TypeOK, PoolTypeOK, CallPC, CallEnds
    <2>2. CallShape' BY DEF TypeOK, CallShape
    <2>3. FlagShape' /\ ExitShape' BY DEF FlagShape, ExitShape, Finished, Tasks
    <2>4. LateShape' BY DEF LateShape, CallEnds
    <2>5. CliAbortReachesAll' BY DEF TypeOK, CliAbortReachesAll, Swept, Running
    <2> QED BY <2>1, <2>2, <2>3, <2>4, <2>5
  <1>2. CASE Spawn(w)
    <2> USE <1>2 DEF Spawn, Goto, poolVars, deepVars, CallTypeOK
    <2>1. TypeOK' BY DEF TypeOK, PoolTypeOK, CallPC, ChildState
    <2>2. CallShape' BY DEF TypeOK, CallShape, Answers, AnswersOf
    <2>3. FlagShape' /\ ExitShape' BY DEF FlagShape, ExitShape, Finished, Tasks
    <2>4. LateShape' BY DEF TypeOK, LateShape, CallEnds
    <2>5. CliAbortReachesAll' BY DEF TypeOK, CliAbortReachesAll, Swept, Running
    <2> QED BY <2>1, <2>2, <2>3, <2>4, <2>5
  <1>3. CASE Register(w)
    <2> USE <1>3 DEF Register, Goto, poolVars, deepVars, CallTypeOK
    <2>1. TypeOK' BY DEF TypeOK, PoolTypeOK, CallPC
    <2>2. CallShape' BY CallAssumption DEF TypeOK, CallShape, Backends
    <2>3. FlagShape' /\ ExitShape' BY DEF FlagShape, ExitShape, Finished, Tasks
    <2>4. LateShape' BY DEF TypeOK, LateShape
    <2>5. CliAbortReachesAll' BY DEF TypeOK, CliAbortReachesAll, Swept, Running
    <2> QED BY <2>1, <2>2, <2>3, <2>4, <2>5
  <1>4. CASE Recheck(w)
    <2>1. CASE via \in flags
      BY <1>4, <2>1, <1>end DEF Recheck, CallEnds
    <2>2. CASE via \notin flags
      <3> USE <1>4, <2>2 DEF Recheck, Goto, poolVars, deepVars, CallTypeOK
      <3>1. TypeOK' BY DEF TypeOK, PoolTypeOK, CallPC
      <3>2. CallShape' BY DEF TypeOK, CallShape
      <3>3. FlagShape' /\ ExitShape' BY DEF FlagShape, ExitShape, Finished, Tasks
      <3>4. LateShape' BY DEF TypeOK, LateShape
      (* No sweep is over: FlagShape would have the flag up.               *)
      <3>5. CliAbortReachesAll' BY DEF FlagShape, CliAbortReachesAll, Swept
      <3> QED BY <3>1, <3>2, <3>3, <3>4, <3>5
    <2> QED BY <2>1, <2>2
  <1>5. CASE Heartbeat(w)
    BY <1>5, <1>end DEF Heartbeat, CallEnds
  <1>6. CASE ReapAnswer(w)
    BY <1>6, <1>end DEF ReapAnswer, Reap, CallEnds
  <1>7. CASE ReapTransient(w)
    (* A late child is a codex child, which has no transient answer.       *)
    <2>1. late[w] = 0
      BY <1>7 DEF ReapTransient, Reap, LateShape, CallShape, Answers, AnswersOf
    <2>2. CASE budget[w].tries < RLMaxRetries
      <3>1. [budget[w] EXCEPT !.tries = @ + 1] \in Budgets
        BY <2>2, <1>budget, CallAssumption DEF Budgets
      <3> QED BY <1>7, <2>1, <2>2, <3>1, <1>job, EndAttemptIInv
              DEF ReapTransient, Reap, Childless
    <2>3. CASE ~(budget[w].tries < RLMaxRetries)
      BY <1>7, <2>3, <1>end DEF ReapTransient, Reap, CallEnds
    <2> QED BY <2>2, <2>3
  <1>8. CASE ReapPending(w)
    <2>1. late[w] = 0
      BY <1>8 DEF ReapPending, Reap, LateShape, CallShape, Answers, AnswersOf
    <2>2. CASE budget[w].pendings < PendingMaxRetries
      <3>1. [Fresh EXCEPT !.pendings = budget[w].pendings + 1] \in Budgets
        BY <2>2, <1>budget, CallAssumption DEF Budgets, Fresh
      <3> QED BY <1>8, <2>1, <2>2, <3>1, <1>job, EndAttemptIInv
              DEF ReapPending, Reap, Childless
    <2>3. CASE ~(budget[w].pendings < PendingMaxRetries)
      BY <1>8, <2>3, <1>end DEF ReapPending, Reap, CallEnds
    <2> QED BY <2>2, <2>3
  <1>9. CASE BackoffCheck(w)
    <2>1. CASE via \in flags
      BY <1>9, <2>1, <1>end DEF BackoffCheck, CallEnds
    <2>2. CASE via \notin flags
      <3> USE <1>9, <2>2 DEF BackoffCheck, Goto, poolVars, deepVars, CallTypeOK
      <3>1. TypeOK' BY DEF TypeOK, PoolTypeOK, CallPC
      <3>2. CallShape' BY DEF TypeOK, CallShape
      <3>3. FlagShape' /\ ExitShape' BY DEF FlagShape, ExitShape, Finished, Tasks
      <3>4. LateShape' BY DEF TypeOK, LateShape
      <3>5. CliAbortReachesAll' BY DEF TypeOK, CliAbortReachesAll, Swept, Running
      <3> QED BY <3>1, <3>2, <3>3, <3>4, <3>5
    <2> QED BY <2>1, <2>2
  <1>10. CASE BackoffOver(w) \/ FeedPrompt(w)
    <2> USE <1>10 DEF BackoffOver, FeedPrompt, Goto, poolVars, deepVars, CallTypeOK
    <2>1. TypeOK' BY DEF TypeOK, PoolTypeOK, CallPC
    <2>2. CallShape' BY DEF TypeOK, CallShape
    <2>3. FlagShape' /\ ExitShape' BY DEF FlagShape, ExitShape, Finished, Tasks
    <2>4. LateShape' BY DEF TypeOK, LateShape, CallShape, CallEnds
    <2>5. CliAbortReachesAll'
      BY DEF TypeOK, CallShape, CliAbortReachesAll, Swept, Running
    <2> QED BY <2>1, <2>2, <2>3, <2>4, <2>5
  <1>11. CASE TimesOut(w)
    <2>1. CASE via = "cli" /\ budget[w].timeouts < TimeoutMaxRetries
      <3>1. [budget[w] EXCEPT !.timeouts = @ + 1] \in Budgets
        BY <2>1, <1>budget, CallAssumption DEF Budgets
      <3>2. late[w] = 0
        BY <1>11, <2>1 DEF TimesOut, LateShape
      <3> QED BY <1>11, <2>1, <3>1, <3>2, <1>job, EndAttemptIInv
              DEF TimesOut, Childless
    <2>2. CASE ~(via = "cli" /\ budget[w].timeouts < TimeoutMaxRetries)
      BY <1>11, <2>2, <1>end DEF TimesOut, CallEnds
    <2> QED BY <2>1, <2>2
  <1>12. CASE ChildExits(w)
    <2> USE <1>12 DEF ChildExits, poolVars, deepVars, CallTypeOK, Running
    <2>1. TypeOK' BY DEF TypeOK, PoolTypeOK, ChildState, AnswersOf, Answers
    <2>2. CallShape' BY DEF TypeOK, CallShape, AnswersOf, Answers
    <2>3. FlagShape' /\ ExitShape' BY DEF FlagShape, ExitShape, Finished, Tasks
    <2>4. LateShape' BY DEF LateShape
    <2>5. CliAbortReachesAll'
      BY DEF TypeOK, CliAbortReachesAll, Swept, AnswersOf, Answers
    <2> QED BY <2>1, <2>2, <2>3, <2>4, <2>5
  <1> QED BY <1>1, <1>2, <1>3, <1>4, <1>5, <1>6, <1>7, <1>8, <1>9, <1>10,
             <1>11, <1>12 DEF CallStep

(* The steps of the main thread.                                           *)
LEMMA MainIInv ==
  ASSUME IInv, MainStep \/ InterruptSubmit \/ InterruptCollect,
         UNCHANGED deepVars
  PROVE  IInv'
  <1> USE DEF IInv, deepVars, MainGoto
  <1>1. CASE Submit
    <2> USE <1>1 DEF Submit, callVars, TypeOK, CallTypeOK, PoolTypeOK
    <2>1. TypeOK' BY DEF MainPC, FutState, Tasks, Task
    <2>2. CallShape' BY DEF CallShape
    <2>3. FlagShape' /\ ExitShape' /\ LateShape'
      BY DEF FlagShape, ExitShape, LateShape
    <2>4. CliAbortReachesAll' BY DEF CliAbortReachesAll, Swept, Running
    <2> QED BY <2>1, <2>2, <2>3, <2>4
  <1>2. CASE AbortCli \/ AbortCodex
    <2> USE <1>2 DEF AbortCli, AbortCodex, SetAbort
    <2>1. TypeOK' BY DEF TypeOK, CallTypeOK, PoolTypeOK, MainPC, Backends
    <2>2. CallShape' BY DEF CallShape
    <2>3. FlagShape' /\ ExitShape' BY DEF FlagShape, ExitShape
    <2>4. LateShape' BY DEF LateShape
    <2>5. CliAbortReachesAll' BY DEF CliAbortReachesAll, Swept, Running
    <2> QED BY <2>1, <2>2, <2>3, <2>4, <2>5
  <1>3. CASE KillCli
    <2> USE <1>3 DEF KillCli, KillLive, Running, CallTypeOK
    <2>1. TypeOK' BY DEF TypeOK, PoolTypeOK, MainPC, ChildState
    <2>2. CallShape' BY DEF TypeOK, CallShape, Answers
    <2>3. FlagShape' /\ ExitShape' /\ LateShape'
      BY DEF FlagShape, ExitShape, LateShape
    (* Whoever waits is registered, so the kill reaches its child.         *)
    <2>4. CliAbortReachesAll' BY DEF TypeOK, CallShape, CliAbortReachesAll
    <2> QED BY <2>1, <2>2, <2>3, <2>4
  <1>4. CASE KillCodex
    <2> USE <1>4 DEF KillCodex, KillLive, Running, CallTypeOK
    <2>1. TypeOK' BY DEF TypeOK, PoolTypeOK, MainPC, ChildState
    <2>2. CallShape' BY DEF TypeOK, CallShape, Answers
    <2>3. FlagShape' /\ ExitShape' /\ LateShape'
      BY DEF FlagShape, ExitShape, LateShape
    <2>4. CliAbortReachesAll' BY DEF CliAbortReachesAll, Swept
    <2> QED BY <2>1, <2>2, <2>3, <2>4
  <1>5. CASE CancelQueue
    <2> USE <1>5 DEF CancelQueue, callVars
    <2>1. TypeOK' BY DEF TypeOK, CallTypeOK, PoolTypeOK, MainPC, FutState
    <2>2. CallShape' BY DEF CallShape
    <2>3. FlagShape' /\ ExitShape' /\ LateShape'
      BY DEF FlagShape, ExitShape, LateShape
    <2>4. CliAbortReachesAll' BY DEF CliAbortReachesAll, Swept, Running
    <2> QED BY <2>1, <2>2, <2>3, <2>4
  <1>6. CASE Join \/ InterruptSubmit \/ InterruptCollect
    <2> USE <1>6 DEF Join, InterruptSubmit, InterruptCollect, callVars
    <2>1. TypeOK' BY DEF TypeOK, CallTypeOK, PoolTypeOK, MainPC
    <2>2. CallShape' BY DEF CallShape
    <2>3. FlagShape' /\ LateShape' BY DEF FlagShape, LateShape
    <2>4. ExitShape' BY DEF ExitShape, Finished, Tasks
    <2>5. CliAbortReachesAll' BY DEF CliAbortReachesAll, Swept, Running
    <2> QED BY <2>1, <2>2, <2>3, <2>4, <2>5
  <1> QED BY <1>1, <1>2, <1>3, <1>4, <1>5, <1>6 DEF MainStep, AbortSteps

(* The collecting loop of run, and its guardrail and error handlers, keep  *)
(* the invariant.                                                          *)
LEMMA CollectIInv == ASSUME IInv, NEW t \in Task, Collect(t) PROVE IInv'
  <1> USE DEF IInv, Collect, callVars
  <1>1. TypeOK'
    <2>1. OutcomeOf(fut[t]) \in Outcomes
      BY DEF OutcomeOf, Outcomes, Raises
    <2>2. main' \in MainPC
      BY DEF TypeOK, PoolTypeOK, MainPC
    <2> QED BY <2>1, <2>2 DEF TypeOK, CallTypeOK, PoolTypeOK
  <1>2. CallShape' BY DEF CallShape
  <1>3. FlagShape' /\ ExitShape' /\ LateShape'
    BY DEF FlagShape, ExitShape, LateShape
  <1>4. CliAbortReachesAll' BY DEF CliAbortReachesAll, Swept, Running
  <1> QED BY <1>1, <1>2, <1>3, <1>4

(* The invariant is inductive.                                             *)
LEMMA NextIInv == IInv /\ [Next]_vars => IInv'
  <1>1. SUFFICES ASSUME IInv, [Next]_vars PROVE IInv'
    OBVIOUS
  <1>2. ASSUME NEW w \in Worker, WorkerStep(w) \/ Exits(w) PROVE IInv'
    BY <1>1, <1>2, JobStepIInv, CallStepIInv DEF WorkerStep, Exits
  <1>3. ASSUME NEW t \in Task, Collect(t) PROVE IInv'
    BY <1>1, <1>3, CollectIInv
  <1>4. CASE Main \/ Interrupt
    BY <1>1, <1>4, MainIInv DEF Main, Interrupt
  <1>5. CASE UNCHANGED vars
    BY <1>1, <1>5
       DEF vars, callVars, poolVars, deepVars, IInv, TypeOK, CallTypeOK,
           PoolTypeOK, CallShape, FlagShape, ExitShape, LateShape, Finished,
           Tasks, CliAbortReachesAll, Swept, Running
  <1> QED BY <1>1, <1>2, <1>3, <1>4, <1>5 DEF Next, Rest

-----------------------------------------------------------------------------
(* Theorems                                                                *)

(* The inductive invariant holds of every behaviour of the S4 pool.        *)
THEOREM Invariance == Spec => []IInv
  <1> QED BY InitIInv, NextIInv, PTL DEF Spec

(* Every variable keeps its type; in particular no retry counter of        *)
(* claude_cli._run_with_retry and agentic ever passes its bound.           *)
THEOREM TypeCorrect == Spec => []TypeOK
  <1>1. IInv => TypeOK BY DEF IInv
  <1> QED BY <1>1, Invariance, PTL

(* When claude_cli.abort() has returned, no thread waits for a running     *)
(* claude child (the re-check after registration in claude_cli._run).      *)
THEOREM CliAbortIsComplete == Spec => []CliAbortReachesAll
  <1>1. IInv => CliAbortReachesAll BY DEF IInv
  <1> QED BY <1>1, Invariance, PTL

(* The stage returns or raises from its pool only with every thread idle,  *)
(* every child gone and the _LIVE registry empty (s4_deepdive.run's        *)
(* shutdown), so that the next repository may clear the abort flag.        *)
THEOREM ExitIsQuiet == Spec => []QuietOnExit
  <1>1. IInv => QuietOnExit
    BY DEF IInv, TypeOK, CallTypeOK, CallShape, ExitShape, QuietOnExit, Busy,
           Running
  <1> QED BY <1>1, Invariance, PTL

(* A thread starts at most one child after _ABORT is set: the flag is not  *)
(* looked at between the last slice of a back-off, or the entry of the     *)
(* call, and Popen.                                                        *)
THEOREM OneLateChild == Spec => []AtMostOneLateChild
  <1>1. IInv => AtMostOneLateChild
    BY DEF IInv, TypeOK, CallTypeOK, LateShape, AtMostOneLateChild
  <1> QED BY <1>1, Invariance, PTL

-----------------------------------------------------------------------------
(***************************************************************************)
(* What s4_deepdive.run reports about each chunk is true.                  *)
(*                                                                         *)
(* The main thread decides on nothing but the chunk's future.  OwnerShape  *)
(* says a running chunk has one owner, so what a worker's locals count is  *)
(* what happened to its chunk; FutureShape says what a delivered future    *)
(* tells about the chunk's calls as long as the backends are not aborted;  *)
(* CleanShape says that as long as the main thread still collects, they    *)
(* are not.                                                                *)
(***************************************************************************)

(* A chunk is in the hands of one thread at most, whose runs_ok counts the *)
(* runs that answered.                                                     *)
OwnerShape ==
  \A w \in Worker :
    IF Busy(w)
    THEN /\ fut[job[w]] = "running"
         /\ \A v \in Worker : job[v] = job[w] => v = w
         /\ runsOk[w] = 0 <=> "ok" \notin seen[job[w]]
    ELSE runsOk[w] = 0

(* What the future of a chunk says about its calls.                        *)
FutureShape ==
  \A t \in Task :
    /\ fut[t] \in {"unsubmitted", "pending", "cancelled"} => seen[t] = {}
    /\ fut[t] = "findings" => "ok" \in seen[t]
    /\ fut[t] \in Raises /\ "ok" \in seen[t] => Aborted
    /\ fut[t] = "GuardrailBlocked" => Aborted
    /\ "aborted" \in seen[t] => Aborted

(* No flag is up before abort() has begun, and no call is cut off without  *)
(* one.                                                                    *)
CleanShape ==
  /\ main \in {"submitting", "collecting", "abort_cli", "joining", "returned",
               "escaped"} => ~Aborted
  /\ \A w \in Worker : pc[w] = "aborted" => Aborted

(* The recorded outcome is that of the chunk's future.                     *)
RecordShape ==
  \A t \in Task : outcomes[t] # "none" =>
    /\ fut[t] \in {"findings"} \cup Raises
    /\ outcomes[t] = "completed" <=> fut[t] = "findings"
    /\ outcomes[t] # "guardrail"

OInv ==
  /\ IInv
  /\ OwnerShape
  /\ FutureShape
  /\ CleanShape
  /\ RecordShape
  /\ OutcomesTruthful

-----------------------------------------------------------------------------
(* The invariant holds initially.                                          *)
LEMMA InitOInv == Init => OInv
  <1>1. SUFFICES ASSUME Init PROVE OInv
    OBVIOUS
  <1>2. IInv
    BY <1>1, InitIInv
  <1> QED
    BY <1>1, <1>2
       DEF Init, CallInit, PoolInit, OInv, OwnerShape, FutureShape, CleanShape,
           RecordShape, OutcomesTruthful, Busy, Raises, Aborted

(* A call never moves its own chunk; it ends as "aborted" only when it has *)
(* seen the flag of its backend.                                           *)
LEMMA CallStepOInv ==
  ASSUME OInv, NEW w \in Worker, UNCHANGED <<poolVars, deepVars>>,
         CallStep(w) \/ FeedPrompt(w) \/ TimesOut(w) \/ ChildExits(w)
  PROVE  OInv'
  <1> USE DEF OInv
  <1>1. IInv'
    BY CallStepIInv
  <1>2. UNCHANGED flags
    BY DEF CallStep, EnterCall, Spawn, Register, Recheck, Heartbeat, FeedPrompt,
           TimesOut, ReapAnswer, ReapTransient, ReapPending, BackoffCheck,
           BackoffOver, ChildExits, EndCall, EndAttempt
  <1>3. ASSUME NEW v \in Worker, pc'[v] = "aborted", pc[v] # "aborted" PROVE Aborted
    BY <1>3
       DEF IInv, TypeOK, CallTypeOK, CallStep, EnterCall, Spawn, Register, Recheck,
           Heartbeat, FeedPrompt, TimesOut, ReapAnswer, ReapTransient,
           ReapPending, BackoffCheck, BackoffOver, ChildExits, EndCall,
           EndAttempt, Goto, Aborted
  <1>4. OwnerShape' /\ RecordShape' /\ OutcomesTruthful'
    BY DEF OwnerShape, RecordShape, OutcomesTruthful, Busy, poolVars, deepVars
  <1>5. FutureShape' /\ CleanShape'
    BY <1>2, <1>3 DEF FutureShape, CleanShape, Aborted, poolVars, deepVars
  <1> QED BY <1>1, <1>4, <1>5

(* The steps of _deepdive_chunk keep it.                                   *)
LEMMA JobStepOInv == ASSUME OInv, NEW w \in Worker, JobStep(w) PROVE OInv'
  <1> USE DEF OInv, IInv, TypeOK, CallTypeOK, PoolTypeOK, Busy, NoTask
  <1>1. IInv'
    BY JobStepIInv
  <1>2. CASE StartChunk(w)
    <2> USE <1>2 DEF StartChunk, Dequeue, Tasks, callVars, deepVars
    <2>1. OwnerShape' BY DEF OwnerShape, FutureShape, Task
    <2>2. FutureShape' /\ CleanShape'
      BY DEF FutureShape, CleanShape, Aborted, Raises
    <2>3. RecordShape' BY DEF RecordShape, Raises
    <2>4. OutcomesTruthful' BY DEF OutcomesTruthful
    <2> QED BY <1>1, <2>1, <2>2, <2>3, <2>4
  <1>3. CASE StartRun(w)
    <2> USE <1>3 DEF StartRun, Goto, poolVars
    <2>1. OwnerShape' BY DEF OwnerShape
    <2>2. FutureShape' /\ CleanShape' BY DEF FutureShape, CleanShape, Aborted
    <2>3. RecordShape' BY DEF RecordShape
    <2>4. OutcomesTruthful' BY DEF OutcomesTruthful
    <2> QED BY <1>1, <2>1, <2>2, <2>3, <2>4
  <1>4. CASE SkipRun(w) \/ EndChunk(w)
    <2> USE <1>4 DEF SkipRun, EndChunk, ReturnChunk, Deliver, callVars
    <2>1. OwnerShape' BY DEF OwnerShape
    (* With no flag up, RuntimeError means runs_ok = 0.                    *)
    <2>2. FutureShape' BY DEF OwnerShape, FutureShape, Aborted, Raises
    <2>3. CleanShape' BY DEF CleanShape, Aborted
    <2>4. RecordShape' BY DEF OwnerShape, RecordShape, Raises
    <2>5. OutcomesTruthful' BY DEF OutcomesTruthful
    <2> QED BY <1>1, <2>1, <2>2, <2>3, <2>4, <2>5
  <1>5. CASE EndRun(w)
    <2> USE <1>5 DEF EndRun, Goto, poolVars
    <2>1. job[w] \in Task /\ outcomes[job[w]] = "none"
      BY DEF OwnerShape, RecordShape, Raises
    <2>2. CASE pc[w] # "ok" /\ Aborted
      <3> USE <2>2 DEF ReturnChunk, Deliver, ExceptionOf
      <3>1. OwnerShape' BY DEF OwnerShape
      <3>2. FutureShape' BY <2>1 DEF OwnerShape, FutureShape, Aborted, Raises
      <3>3. CleanShape' BY DEF CleanShape, Aborted
      <3>4. RecordShape' BY <2>1 DEF RecordShape, Raises
      <3>5. OutcomesTruthful' BY <2>1 DEF OutcomesTruthful
      <3> QED BY <1>1, <3>1, <3>2, <3>3, <3>4, <3>5
    <2>3. CASE ~(pc[w] # "ok" /\ Aborted)
      <3> USE <2>3
      <3>1. OwnerShape' BY <2>1 DEF OwnerShape
      <3>2. FutureShape'
        BY <2>1 DEF OwnerShape, FutureShape, CleanShape, Aborted, Raises
      <3>3. CleanShape' BY DEF CleanShape, Aborted
      <3>4. RecordShape' BY DEF RecordShape
      <3>5. OutcomesTruthful' BY <2>1 DEF OutcomesTruthful
      <3> QED BY <1>1, <3>1, <3>2, <3>3, <3>4, <3>5
    <2> QED BY <2>2, <2>3
  <1> QED BY <1>2, <1>3, <1>4, <1>5 DEF JobStep

(* So do the other steps of the main thread, the interrupts included.      *)
LEMMA MainOInv ==
  ASSUME OInv, MainStep \/ InterruptSubmit \/ InterruptCollect,
         UNCHANGED deepVars
  PROVE  OInv'
  <1> USE DEF OInv, IInv, TypeOK, CallTypeOK, PoolTypeOK, deepVars, MainGoto
  <1>1. IInv'
    BY MainIInv
  <1>2. CASE Submit
    <2> USE <1>2 DEF Submit, callVars, Tasks
    <2>1. OwnerShape' BY DEF OwnerShape, Busy, NoTask
    <2>2. FutureShape' BY DEF FutureShape, Aborted, Raises
    <2>3. CleanShape' BY DEF CleanShape, Aborted
    <2>4. RecordShape' BY DEF RecordShape, Raises
    <2>5. OutcomesTruthful' BY DEF OutcomesTruthful
    <2> QED BY <1>1, <2>1, <2>2, <2>3, <2>4, <2>5
  <1>3. CASE AbortSteps
    <2> USE <1>3 DEF AbortSteps, AbortCli, KillCli, AbortCodex, KillCodex,
                     CancelQueue, SetAbort, KillLive, callVars
    <2>1. OwnerShape' BY DEF OwnerShape, Busy, NoTask
    <2>2. FutureShape' BY DEF FutureShape, Aborted, Raises
    <2>3. CleanShape' BY DEF CleanShape, Aborted
    <2>4. RecordShape' BY DEF RecordShape, Raises
    <2>5. OutcomesTruthful' BY DEF OutcomesTruthful
    <2> QED BY <1>1, <2>1, <2>2, <2>3, <2>4, <2>5
  <1>4. CASE Join \/ InterruptSubmit \/ InterruptCollect
    <2> USE <1>4 DEF Join, InterruptSubmit, InterruptCollect, callVars
    <2>1. OwnerShape' BY DEF OwnerShape, Busy
    <2>2. FutureShape' BY DEF FutureShape, Aborted
    <2>3. CleanShape' BY DEF CleanShape, Aborted
    <2>4. RecordShape' BY DEF RecordShape
    <2>5. OutcomesTruthful' BY DEF OutcomesTruthful
    <2> QED BY <1>1, <2>1, <2>2, <2>3, <2>4, <2>5
  <1> QED BY <1>2, <1>3, <1>4 DEF MainStep

(* Recording the outcome of a finished future keeps it: the outcome        *)
(* recorded is the one its future and its agents had.                      *)
LEMMA CollectOInv == ASSUME OInv, NEW t \in Task, Collect(t) PROVE OInv'
  <1> USE DEF OInv, Collect, callVars
  <1>1. IInv'
    BY CollectIInv
  <1>2. ~Aborted
    BY DEF CleanShape
  <1>3. OwnerShape' BY DEF OwnerShape, Busy
  <1>4. FutureShape' BY DEF FutureShape, Aborted
  <1>5. CleanShape' BY <1>2 DEF CleanShape, Aborted
  (* A refused chunk is not collected: its exception reaches the future    *)
  (* only once the backends are aborted.                                   *)
  <1>6. fut[t] # "GuardrailBlocked"
    BY <1>2 DEF FutureShape
  <1>7. RecordShape'
    BY <1>6 DEF IInv, TypeOK, RecordShape, OutcomeOf, Raises
  <1>8. OutcomesTruthful'
    BY <1>2, <1>6
       DEF IInv, TypeOK, FutureShape, OutcomesTruthful, OutcomeOf, Raises
  <1> QED BY <1>1, <1>3, <1>4, <1>5, <1>7, <1>8

(* Every step keeps it.                                                    *)
LEMMA NextOInv == OInv /\ [Next]_vars => OInv'
  <1>1. SUFFICES ASSUME OInv, [Next]_vars PROVE OInv'
    OBVIOUS
  <1>2. ASSUME NEW w \in Worker, WorkerStep(w) \/ Exits(w) PROVE OInv'
    BY <1>1, <1>2, JobStepOInv, CallStepOInv DEF WorkerStep, Exits
  <1>3. ASSUME NEW t \in Task, Collect(t) PROVE OInv'
    BY <1>1, <1>3, CollectOInv
  <1>4. CASE Main \/ Interrupt
    BY <1>1, <1>4, MainOInv DEF Main, Interrupt
  <1>5. CASE UNCHANGED vars
    <2>1. IInv'
      BY <1>1, <1>5, NextIInv DEF OInv
    <2> QED
      BY <1>1, <1>5, <2>1
         DEF vars, callVars, poolVars, deepVars, OInv, OwnerShape, FutureShape,
             CleanShape, RecordShape, OutcomesTruthful, Busy, Aborted
  <1> QED BY <1>1, <1>2, <1>3, <1>4, <1>5 DEF Next, Rest

-----------------------------------------------------------------------------
(* Theorems                                                                *)

(* Every reachable state satisfies the inductive invariant.                *)
THEOREM OutcomeInvariance == Spec => []OInv
  <1> QED BY InitOInv, NextOInv, PTL DEF Spec

(* A chunk is reported completed exactly when one of its runs answered,    *)
(* and no chunk whose calls an abort cut off is reported at all            *)
(* (s4_deepdive.run and _deepdive_chunk).                                  *)
THEOREM OutcomesAreTruthful == Spec => []OutcomesTruthful
  <1>1. OInv => OutcomesTruthful BY DEF OInv
  <1> QED BY <1>1, OutcomeInvariance, PTL

(* The "guardrail" outcome of s4_deepdive.run is never recorded, so its    *)
(* fail-fast never fires: _deepdive_chunk swallows every refusal unless    *)
(* the backends are aborted, and then nothing is collected any more.       *)
THEOREM NoGuardrailOutcome == Spec => [](Recorded("guardrail") = {})
  <1>1. OInv => Recorded("guardrail") = {}
    BY DEF OInv, RecordShape, Recorded
  <1> QED BY <1>1, OutcomeInvariance, PTL
-----------------------------------------------------------------------------
(* S4 implements StageContract.                                            *)

(* Chunks are submitted in their order, all of them before the first is    *)
(* collected; as long as the main thread collects, the refusals are not    *)
(* enough to give up; it returns only with everything recorded.            *)
QueueShape ==
  /\ \A t, u \in Task : t <= u /\ fut[t] = "unsubmitted" => fut[u] = "unsubmitted"
  /\ main \notin {"submitting", "escaped"} => Tasks("unsubmitted") = {}
  /\ main = "submitting" => Recorded("none") = Task
  /\ main \in {"submitting", "collecting"} => ~Contract!Hopeless(outcomes)
  /\ main \in {"joining", "returned"} => Recorded("none") = {}

(* How a chunk can end.                                                    *)
LEMMA ContractEnds ==
  /\ Contract!Task = Task
  /\ Contract!Ends = {"findings", "RuntimeError", "GuardrailBlocked"}
  BY DEF Contract!Task, Contract!Ends, Task, Raises

(* The contract counts as the stage does.                                  *)
LEMMA SameCount == ASSUME NEW S PROVE Contract!Cardinality(S) = Cardinality(S)
  BY DEF Contract!Cardinality, Cardinality

(* The refusals are enough exactly when the main thread fails fast.        *)
LEMMA GivingUp ==
  ASSUME IInv, QueueShape, NEW t \in Task, Collect(t)
  PROVE  FailFast(t) <=> Contract!Hopeless(outcomes')
<1> USE DEF IInv, TypeOK, Collect
<1>1. /\ outcomes' = [outcomes EXCEPT ![t] = OutcomeOf(fut[t])]
      /\ fut[t] \in {"findings", "RuntimeError", "GuardrailBlocked"} /\ outcomes[t] = "none"
  BY DEF Raises
<1>2. CASE fut[t] = "findings"
  <2>1. outcomes'[t] = "completed"
    BY <1>1, <1>2 DEF OutcomeOf
  <2> QED BY <1>2, <2>1, ContractEnds DEF FailFast, Contract!Hopeless
<1>3. CASE fut[t] = "RuntimeError"
  <2>1. outcomes'[t] = "error" /\ \A u \in Task \ {t} : outcomes'[u] = outcomes[u]
    BY <1>1, <1>3 DEF OutcomeOf
  <2>2. {u \in Task : outcomes'[u] = "guardrail"} = {u \in Task : outcomes[u] = "guardrail"}
    BY <1>1, <2>1
  <2>3. (\A u \in Task : outcomes'[u] # "completed") => \A u \in Task : outcomes[u] # "completed"
    BY <1>1, <2>1
  <2> QED BY <1>3, <2>2, <2>3, ContractEnds DEF FailFast, Contract!Hopeless, QueueShape
<1>4. CASE fut[t] = "GuardrailBlocked"
  <2>1. outcomes'[t] = "guardrail" /\ \A u \in Task \ {t} : outcomes'[u] = outcomes[u]
    BY <1>1, <1>4 DEF OutcomeOf
  <2>2. {u \in Task : outcomes'[u] = "guardrail"} = Recorded("guardrail") \cup {t}
    BY <2>1 DEF Recorded
  <2>3. Cardinality(Recorded("guardrail") \cup {t}) = Cardinality(Recorded("guardrail")) + 1
    <3>1. IsFiniteSet(Task)
      BY FS_Interval, PoolAssumption DEF Task
    <3>2. IsFiniteSet(Recorded("guardrail")) /\ t \notin Recorded("guardrail")
      BY <1>1, <3>1, FS_Subset DEF Recorded
    <3> QED BY <3>2, FS_AddElement
  <2>4. (\A u \in Task : outcomes'[u] # "completed") <=> Recorded("completed") = {}
    BY <1>1, <2>1 DEF Recorded
  <2> QED BY <1>4, <2>2, <2>3, <2>4, ContractEnds, SameCount DEF FailFast, Contract!Hopeless
<1> QED BY <1>1, <1>2, <1>3, <1>4

(* The gate is at least one refusal, so nothing is hopeless at first.      *)
LEMMA NotHopelessAtFirst ==
  ASSUME NEW l, \A t \in Task : l[t] = "none"
  PROVE  ~Contract!Hopeless(l)
<1>1. {t \in Task : l[t] = "guardrail"} = {}
  OBVIOUS
<1>2. Cardinality({}) = 0
  BY FS_EmptySet
<1>3. GuardrailGate \in Nat \ {0}
  BY PoolAssumption, FS_CardinalityType DEF GuardrailGate
<1> QED BY <1>1, <1>2, <1>3, ContractEnds, SameCount DEF Contract!Hopeless

(* Every step keeps the order of the queue and the account of refusals.    *)
LEMMA QueueStep ==
  ASSUME OInv, QueueShape, [Next]_vars
  PROVE  QueueShape'
<1> USE DEF OInv, IInv, TypeOK, PoolTypeOK, Tasks, Recorded
<1>1. ASSUME NEW w \in Worker, StartChunk(w) PROVE QueueShape'
  BY <1>1 DEF StartChunk, Dequeue, QueueShape, deepVars, Contract!Hopeless
<1>2. ASSUME NEW w \in Worker, SkipRun(w) \/ EndRun(w) \/ EndChunk(w)
      PROVE  QueueShape'
  <2>1. /\ UNCHANGED <<main, outcomes>>
        /\ fut' = fut \/ \E r : r # "unsubmitted" /\ fut' = [fut EXCEPT ![job[w]] = r]
    BY <1>2 DEF SkipRun, EndRun, EndChunk, ReturnChunk, Deliver, ExceptionOf, poolVars
  <2>2. job[w] \in Task /\ fut[job[w]] = "running"
    BY <1>2 DEF SkipRun, EndRun, EndChunk, OwnerShape, Busy
  <2> QED BY <2>1, <2>2 DEF QueueShape, Contract!Hopeless
<1>3. ASSUME NEW t \in Task, Collect(t) PROVE QueueShape'
  <2>1. UNCHANGED fut /\ main = "collecting" /\ Contract!Task = Task
    BY <1>3, ContractEnds DEF Collect
  <2>2. main' \in {"submitting", "collecting"} => ~Contract!Hopeless(outcomes')
    BY <1>3, <2>1, GivingUp DEF Collect
  <2>3. main' = "joining" => Recorded("none") = {t}
    BY <1>3, <2>1 DEF Collect
  <2>4. outcomes' = [outcomes EXCEPT ![t] = OutcomeOf(fut[t])] /\ OutcomeOf(fut[t]) # "none"
    BY <1>3 DEF Collect, OutcomeOf, Raises
  <2>5. main' \in {"abort_cli", "joining", "collecting"}
    BY <1>3 DEF Collect
  <2> QED BY <2>1, <2>2, <2>3, <2>4, <2>5 DEF QueueShape
<1>4. CASE Submit /\ UNCHANGED deepVars
  BY <1>4 DEF Submit, Oldest, QueueShape, deepVars, Task, Contract!Hopeless
<1>5. CASE CancelQueue /\ UNCHANGED deepVars
  BY <1>5 DEF CancelQueue, MainGoto, QueueShape, deepVars, Contract!Hopeless
<1>6. CASE /\ AbortCli \/ KillCli \/ AbortCodex \/ KillCodex \/ Join
              \/ InterruptSubmit \/ InterruptCollect
           /\ UNCHANGED deepVars
  BY <1>6
  DEF AbortCli, KillCli, AbortCodex, KillCodex, Join, InterruptSubmit, InterruptCollect,
      MainGoto, QueueShape, deepVars, Contract!Hopeless
<1>7. CASE UNCHANGED <<fut, main, outcomes>>
  BY <1>7 DEF QueueShape, Contract!Hopeless
<1>8. ASSUME NEW w \in Worker, StartRun(w) \/ Exits(w) \/
               ((CallStep(w) \/ FeedPrompt(w) \/ TimesOut(w)) /\ UNCHANGED <<poolVars, deepVars>>)
      PROVE  UNCHANGED <<fut, main, outcomes>>
  BY <1>8 DEF StartRun, Exits, poolVars, deepVars
<1> QED
  BY <1>1, <1>2, <1>3, <1>4, <1>5, <1>6, <1>7, <1>8
  DEF Next, WorkerStep, JobStep, Main, MainStep, AbortSteps, Interrupt, Rest, vars, poolVars,
      deepVars

(* The contract's view moves with the future.                              *)
LEMMA StandingMoves ==
  ASSUME fut \in [Task -> FutState({"findings"})], NEW t \in Task,
         NEW s \in {"running", "findings"} \cup Raises, fut' = [fut EXCEPT ![t] = s]
  PROVE  Standing' = [Standing EXCEPT ![t] = IF s = "running" THEN "working" ELSE s]
  BY DEF Standing, Raises

(* An idle thread takes up the first chunk that waits.                     *)
LEMMA BeginStep ==
  ASSUME OInv, QueueShape, NEW w \in Worker, StartChunk(w)
  PROVE  \E t \in Task : Contract!Begin(t)
<1> USE DEF OInv, IInv, TypeOK, PoolTypeOK, StartChunk, Dequeue
<1>1. PICK t \in Tasks("pending") :
        Oldest(t, "pending") /\ fut' = [fut EXCEPT ![t] = "running"]
  OBVIOUS
<1>2. t \in Task /\ fut[t] = "pending"
  BY <1>1 DEF Tasks
<1>3. ~Contract!Over
  BY <1>2 DEF ExitShape, Finished, Tasks, Contract!Over, StageState, Left
<1>4. Standing[t] = "waiting"
  BY <1>2 DEF Standing
<1>5. ASSUME NEW u \in Task, Standing[u] = "waiting" PROVE t <= u
  <2>1. fut[u] \in {"unsubmitted", "pending"}
    BY <1>5 DEF Standing, FutState, Raises
  <2>2. CASE fut[u] = "pending"
    BY <1>1, <2>2 DEF Oldest, Tasks
  <2>3. CASE fut[u] = "unsubmitted"
    <3>1. ~(u <= t)
      BY <1>2, <2>3 DEF QueueShape
    <3> QED BY <1>2, <3>1 DEF Task
  <2> QED BY <2>1, <2>2, <2>3
<1>6. Standing' = [Standing EXCEPT ![t] = "working"]
  BY <1>1, <1>2, StandingMoves
<1>7. UNCHANGED <<outcomes, StageState>>
  BY DEF deepVars, StageState, Left
<1>8. Contract!Begin(t)
  BY <1>3, <1>4, <1>5, <1>6, <1>7, ContractEnds DEF Contract!Begin
<1> QED BY <1>2, <1>8

(* A chunk whose function ends has ended for the contract.                 *)
LEMMA EndStep ==
  ASSUME OInv, NEW w \in Worker, Busy(w), NEW r \in {"findings"} \cup Raises,
         ReturnChunk(w, r), UNCHANGED outcomes
  PROVE  \E t \in Task : Contract!End(t)
<1> USE DEF OInv, IInv, TypeOK, PoolTypeOK, ReturnChunk, Deliver
<1> DEFINE t == job[w]
<1>1. t \in Task /\ fut[t] = "running"
  BY DEF OwnerShape, Busy
<1>2. ~Contract!Over
  BY DEF ExitShape, Busy, Contract!Over, StageState, Left
<1>3. Standing[t] = "working"
  BY <1>1 DEF Standing
<1>4. Standing' = [Standing EXCEPT ![t] = r] /\ r \in Contract!Ends
  BY <1>1, StandingMoves, ContractEnds DEF Raises
<1>5. UNCHANGED <<outcomes, StageState>>
  BY DEF StageState, Left
<1>6. Contract!End(t)
  BY <1>2, <1>3, <1>4, <1>5 DEF Contract!End
<1> QED BY <1>1, <1>6

(* Collecting a chunk records how it ended.                                *)
LEMMA RecordStep ==
  ASSUME OInv, QueueShape, NEW t \in Task, Collect(t)
  PROVE  Contract!Record(t)
<1> USE DEF OInv, Collect
<1>1. fut[t] \in Contract!Ends /\ Standing[t] = fut[t]
  BY ContractEnds DEF Standing, Raises
<1>2. outcomes' = [outcomes EXCEPT ![t] =
                     [f \in {"findings"} \cup Raises |-> OutcomeOf(f)][Standing[t]]]
  BY <1>1
<1>3. StageState = "open" /\ outcomes[t] = "none"
  BY DEF StageState, Left
<1>4. StageState' = IF Contract!Hopeless(outcomes') THEN "stopping" ELSE "open"
  BY GivingUp DEF StageState, Left
<1>5. UNCHANGED Standing
  BY DEF Standing
<1> QED BY <1>1, <1>2, <1>3, <1>4, <1>5 DEF Contract!Record

(* Emptying the queue withdraws what waits, since nothing is unsubmitted.  *)
LEMMA WithdrawStep ==
  ASSUME OInv, QueueShape, CancelQueue, UNCHANGED deepVars
  PROVE  Contract!Withdraw
<1> USE DEF OInv, IInv, TypeOK, PoolTypeOK, CancelQueue, MainGoto
<1>1. \A t \in Task : fut[t] # "unsubmitted"
  BY DEF QueueShape, Tasks
<1>2. Standing' = [t \in Task |-> IF Standing[t] = "waiting" THEN "withdrawn" ELSE Standing[t]]
  BY <1>1 DEF Standing, FutState, Raises
<1>3. StageState = "stopping" /\ StageState' = "stopping" /\ UNCHANGED outcomes
  BY DEF StageState, Left, deepVars
<1> QED BY <1>2, <1>3, ContractEnds DEF Contract!Withdraw

(* The main thread leaves a joined pool with everything recorded, or with  *)
(* every chunk ended or withdrawn.                                         *)
LEMMA LeaveStep ==
  ASSUME OInv, QueueShape, Join, UNCHANGED deepVars
  PROVE  Contract!Return \/ Contract!Raise
<1> USE DEF OInv, IInv, TypeOK, PoolTypeOK, Join, MainGoto
<1>1. UNCHANGED <<Standing, outcomes>>
  BY DEF Standing, deepVars
<1>2. CASE main = "joining" /\ main' = "returned"
  <2>1. \A t \in Task : outcomes[t] # "none"
    BY <1>2 DEF QueueShape, Recorded
  <2>2. StageState = "open" /\ StageState' = "returned"
    BY <1>2 DEF StageState, Left
  <2> QED BY <1>1, <2>1, <2>2, ContractEnds DEF Contract!Return
<1>3. CASE main = "unwinding" /\ main' = "raised"
  <2>1. ASSUME NEW t \in Task PROVE Standing[t] \in Contract!Ends \cup {"withdrawn"}
    <3>1. fut[t] \notin {"unsubmitted", "pending", "running"}
      BY <1>3 DEF QueueShape, Finished, Tasks
    <3> QED BY <3>1, ContractEnds DEF Standing, FutState, Raises
  <2>2. StageState = "stopping" /\ StageState' = "raised"
    BY <1>3 DEF StageState, Left
  <2> QED BY <1>1, <2>1, <2>2, ContractEnds DEF Contract!Raise
<1> QED BY <1>2, <1>3

(* S4 keeps StageContract: every step of threads, children and the main    *)
(* thread is a step of the contract or none of its business.               *)
THEOREM DeepDiveKeepsContract == Spec => ImplementsContract
<1>1. Init => Contract!Init
  BY ContractEnds DEF Init, PoolInit, Contract!Init, Standing, StageState, Left
<1>2. Init => QueueShape
  BY NotHopelessAtFirst DEF Init, PoolInit, QueueShape, Tasks, Recorded
<1>3. OInv /\ QueueShape /\ [Next]_vars => QueueShape'
  BY QueueStep
<1>4. OInv /\ QueueShape /\ [Next]_vars => [Contract!Next]_<<Standing, outcomes, StageState>>
  <2> SUFFICES ASSUME OInv, QueueShape, [Next]_vars
               PROVE  Contract!Next \/ UNCHANGED <<Standing, outcomes, StageState>>
    OBVIOUS
  <2>1. ASSUME NEW w \in Worker, StartChunk(w) PROVE Contract!Next
    BY <2>1, BeginStep, ContractEnds DEF Contract!Next
  <2>2. ASSUME NEW w \in Worker, SkipRun(w) \/ EndRun(w) \/ EndChunk(w)
        PROVE  Contract!Next \/ UNCHANGED <<fut, main, outcomes>>
    <3>1. \/ \E r \in {"findings"} \cup Raises :
               ReturnChunk(w, r) /\ Busy(w) /\ UNCHANGED outcomes
          \/ UNCHANGED <<fut, main, outcomes>>
      BY <2>2 DEF SkipRun, EndRun, EndChunk, ExceptionOf, Raises, poolVars
    <3> QED BY <3>1, EndStep, ContractEnds DEF Contract!Next
  <2>3. ASSUME NEW t \in Task, Collect(t) PROVE Contract!Next
    BY <2>3, RecordStep, ContractEnds DEF Contract!Next
  <2>4. CASE CancelQueue /\ UNCHANGED deepVars
    BY <2>4, WithdrawStep DEF Contract!Next
  <2>5. CASE Join /\ UNCHANGED deepVars
    BY <2>5, LeaveStep DEF Contract!Next
  <2>6. CASE InterruptCollect /\ UNCHANGED deepVars
    BY <2>6
    DEF InterruptCollect, MainGoto, StageState, Left, Standing, deepVars, Contract!Next,
        Contract!Stop
  <2>7. CASE InterruptSubmit /\ UNCHANGED deepVars
    BY <2>7, ContractEnds
    DEF InterruptSubmit, MainGoto, StageState, Left, Standing, deepVars, QueueShape, Recorded,
        Contract!Next, Contract!Escape
  <2>8. CASE Submit /\ UNCHANGED deepVars
    <3>1. UNCHANGED Standing
      BY <2>8 DEF Submit, Tasks, Standing, OInv, IInv, TypeOK, PoolTypeOK
    <3> QED BY <2>8, <3>1 DEF Submit, StageState, Left, deepVars
  <2>9. CASE (AbortCli \/ KillCli \/ AbortCodex \/ KillCodex) /\ UNCHANGED deepVars
    BY <2>9
    DEF AbortCli, KillCli, AbortCodex, KillCodex, MainGoto, StageState, Left, Standing,
        deepVars
  <2>10. CASE UNCHANGED <<fut, main, outcomes>>
    BY <2>10 DEF Standing, StageState, Left
  <2>11. ASSUME NEW w \in Worker, StartRun(w) \/ Exits(w) \/
                  ((CallStep(w) \/ FeedPrompt(w) \/ TimesOut(w)) /\ UNCHANGED <<poolVars, deepVars>>)
         PROVE  UNCHANGED <<fut, main, outcomes>>
    BY <2>11 DEF StartRun, Exits, poolVars, deepVars
  <2> QED
    BY <2>1, <2>2, <2>3, <2>4, <2>5, <2>6, <2>7, <2>8, <2>9, <2>10, <2>11
    DEF Next, WorkerStep, JobStep, Main, MainStep, AbortSteps, Interrupt, Rest, vars, poolVars,
        deepVars
<1> QED
  BY <1>1, <1>2, <1>3, <1>4, OutcomeInvariance, PTL
  DEF Spec, ImplementsContract, Contract!Spec
-----------------------------------------------------------------------------
(* Why the pool ends.                                                      *)

(* A set of numbers has a least one: the intervals up to them are          *)
(* well-founded under inclusion.                                           *)
LEMMA LeastNumber ==
  ASSUME NEW S \in SUBSET Nat, S # {}
  PROVE  \E i \in S : \A k \in S : i <= k
<1> DEFINE T == {1..n : n \in S}
<1>1. T \subseteq FiniteSubsetsOf(Nat) /\ T # {}
  <2>1. \A n \in S : 1..n \in SUBSET Nat /\ IsFiniteSet(1..n)
    BY FS_Interval
  <2> QED BY <2>1 DEF FiniteSubsetsOf
<1>2. PICK x \in T : \A y \in T : <<y, x>> \notin StrictSubsetOrdering(Nat)
  BY <1>1, FS_StrictSubsetOrderingWellFounded, WFMin
<1>3. PICK i \in S : x = 1..i
  OBVIOUS
<1>4. ASSUME NEW k \in S, k < i PROVE FALSE
  <2>1. <<1..k, 1..i>> \in StrictSubsetOrdering(Nat)
    BY <1>4 DEF StrictSubsetOrdering
  <2> QED BY <2>1, <1>2, <1>3
<1> QED BY <1>4

(* How far the main thread and a chunk are from their end.                 *)
MainRank ==
  IF main = "submitting" THEN 9 ELSE IF main = "collecting" THEN 8
  ELSE IF main = "abort_cli" THEN 7 ELSE IF main = "kill_cli" THEN 6
  ELSE IF main = "abort_codex" THEN 5 ELSE IF main = "kill_codex" THEN 4
  ELSE IF main = "cancelling" THEN 3 ELSE IF main \in {"joining", "unwinding"} THEN 2
  ELSE 1

ChunkRank(t) ==
  IF fut[t] = "unsubmitted" THEN 4 ELSE IF fut[t] = "pending" THEN 3
  ELSE IF fut[t] = "running" THEN 2 ELSE IF outcomes[t] = "none" THEN 1 ELSE 0

(* How far a thread is from the end of its chunk: the runs it has still to *)
(* make, whether it is in one, the restarts and retries it may still take, *)
(* and the place in the attempt, the child's life included.                *)
RunsLeft(w) == IF Busy(w) /\ run[w] < RunsOf[job[w]] THEN RunsOf[job[w]] - run[w] ELSE 0
Inside(w) == IF pc[w] = "idle" THEN 0 ELSE IF pc[w] \in CallEnds THEN 1 ELSE 2
RestartsLeft(w) == PendingMaxRetries - budget[w].pendings
RetriesLeft(w) ==
  (TimeoutMaxRetries - budget[w].timeouts) + (RLMaxRetries - budget[w].tries)
Place(w) ==
  LET at == pc[w] IN
  (IF at = "entering" THEN 12 ELSE IF at = "backoff" THEN 12 ELSE IF at = "waking" THEN 10
   ELSE IF at = "launching" THEN 8 ELSE IF at = "spawned" THEN 6
   ELSE IF at \in {"registered", "feeding"} THEN 4 ELSE IF at = "waiting" THEN 2 ELSE 0)
  + (IF Running(w) THEN 1 ELSE 0)

WorkRank(w) ==
  [i \in 1..5 |-> IF i = 1 THEN RunsLeft(w)
                  ELSE IF i = 2 THEN Inside(w)
                  ELSE IF i = 3 THEN RestartsLeft(w)
                  ELSE IF i = 4 THEN RetriesLeft(w)
                  ELSE Place(w)]

Less == {p \in Nat \X Nat : p[1] < p[2]}
Ranks == [1..5 -> Nat]
Lower == LexProductOrdering(Less, Nat, 5)

(* No thread can lower its rank for ever.                                  *)
THEOREM WorkRanksEnd == IsWellFoundedOn(Lower, Ranks)
<1>1. ASSUME NEW S \in SUBSET Nat, S # {}
      PROVE  \E i \in S : \A k \in S : <<k, i>> \notin Less
  <2>1. PICK i \in S : \A k \in S : i <= k
    BY <1>1, LeastNumber
  <2> QED BY <2>1 DEF Less
<1>2. IsWellFoundedOn(Less, Nat)
  BY <1>1, MinWF
<1> QED BY <1>2, WFLexProductOrdering DEF Lower, Ranks

Counted ==
  \A w \in Worker :
    /\ RunsLeft(w) \in Nat /\ Inside(w) \in Nat /\ RestartsLeft(w) \in Nat
    /\ RetriesLeft(w) \in Nat /\ Place(w) \in Nat

(* The parts of a rank are numbers.                                        *)
LEMMA RankParts == IInv => Counted
<1> SUFFICES ASSUME IInv, NEW w \in Worker
             PROVE  /\ RunsLeft(w) \in Nat /\ Inside(w) \in Nat /\ RestartsLeft(w) \in Nat
                    /\ RetriesLeft(w) \in Nat /\ Place(w) \in Nat
  BY DEF Counted
<1> USE DEF IInv, TypeOK, CallTypeOK, PoolTypeOK
<1>1. RunsLeft(w) \in Nat
  <2>1. CASE Busy(w)
    <3>1. job[w] \in Task
      BY <2>1 DEF Busy
    <3>2. RunsOf[job[w]] \in Nat /\ run[w] \in Nat
      BY <3>1, DeepDiveAssumption
    <3> QED BY <3>2 DEF RunsLeft
  <2>2. CASE ~Busy(w)
    BY <2>2 DEF RunsLeft
  <2> QED BY <2>1, <2>2
<1>2. RestartsLeft(w) \in Nat /\ RetriesLeft(w) \in Nat
  <2>1. budget[w] \in Budgets
    OBVIOUS
  <2> QED BY <2>1, CallAssumption DEF RestartsLeft, RetriesLeft, Budgets
<1>3. Inside(w) \in Nat /\ Place(w) \in Nat
  BY DEF Inside, Place
<1> QED BY <1>1, <1>2, <1>3

(* What it takes to lower a thread's rank.                                 *)
Falls(w) ==
  \/ RunsLeft(w)' < RunsLeft(w)
  \/ /\ RunsLeft(w)' = RunsLeft(w)
     /\ \/ Inside(w)' < Inside(w)
        \/ /\ Inside(w)' = Inside(w)
           /\ \/ RestartsLeft(w)' < RestartsLeft(w)
              \/ /\ RestartsLeft(w)' = RestartsLeft(w)
                 /\ \/ RetriesLeft(w)' < RetriesLeft(w)
                    \/ RetriesLeft(w)' = RetriesLeft(w) /\ Place(w)' < Place(w)

LEMMA RankFalls ==
  ASSUME IInv, IInv', NEW w \in Worker, Falls(w)
  PROVE  <<WorkRank(w)', WorkRank(w)>> \in Lower
<1>1. Counted /\ Counted'
  BY RankParts, PTL
<1>2. WorkRank(w) \in Ranks /\ WorkRank(w)' \in Ranks
  BY <1>1 DEF Counted, WorkRank, Ranks
<1>3. SUFFICES \E j \in 1..5 : /\ \A i \in 1..(j - 1) : WorkRank(w)'[i] = WorkRank(w)[i]
                               /\ WorkRank(w)'[j] < WorkRank(w)[j]
  BY <1>2 DEF Lower, LexProductOrdering, Less, Ranks
<1>4. /\ WorkRank(w)[1] = RunsLeft(w) /\ WorkRank(w)'[1] = RunsLeft(w)'
      /\ WorkRank(w)[2] = Inside(w) /\ WorkRank(w)'[2] = Inside(w)'
      /\ WorkRank(w)[3] = RestartsLeft(w) /\ WorkRank(w)'[3] = RestartsLeft(w)'
      /\ WorkRank(w)[4] = RetriesLeft(w) /\ WorkRank(w)'[4] = RetriesLeft(w)'
      /\ WorkRank(w)[5] = Place(w) /\ WorkRank(w)'[5] = Place(w)'
  BY DEF WorkRank
<1> QED BY <1>4 DEF Falls

-----------------------------------------------------------------------------
(* The steps of a thread inside its chunk lower its rank.                  *)
LEMMA AttemptFalls ==
  ASSUME IInv, NEW w \in Worker, Busy(w), Inside(w) = 2,
         NEW l \in {"launching", "backoff"} \cup CallEnds, NEW b \in Budgets,
         EndAttempt(w, l, b), UNCHANGED <<poolVars, deepVars>>,
         \/ l \in CallEnds
         \/ b.pendings > budget[w].pendings
         \/ /\ b.pendings = budget[w].pendings
            /\ \/ b.tries > budget[w].tries /\ b.timeouts = budget[w].timeouts
               \/ b.timeouts > budget[w].timeouts /\ b.tries = budget[w].tries
  PROVE  Falls(w)
<1> USE DEF IInv, TypeOK, CallTypeOK, PoolTypeOK
<1>1. pc'[w] = l /\ budget'[w] = b /\ UNCHANGED <<job, run>>
  BY DEF EndAttempt, Goto, poolVars, deepVars
<1>2. RunsLeft(w)' = RunsLeft(w)
  BY <1>1 DEF RunsLeft, Busy
<1>3. budget[w] \in Budgets
  OBVIOUS
<1>4. CASE l \in CallEnds
  BY <1>1, <1>2, <1>4 DEF Inside, Falls, CallEnds
<1>5. CASE l \notin CallEnds
  <2>1. Inside(w)' = 2
    BY <1>1, <1>5 DEF Inside
  <2> QED BY <1>1, <1>2, <1>3, <1>5, <2>1, CallAssumption
          DEF Falls, RestartsLeft, RetriesLeft, Budgets
<1> QED BY <1>4, <1>5

LEMMA MoveFalls ==
  ASSUME IInv, NEW w \in Worker, Inside(w) = 2, UNCHANGED <<poolVars, deepVars, budget>>,
         Inside(w)' = 1 \/ (Inside(w)' = 2 /\ Place(w)' < Place(w))
  PROVE  Falls(w)
BY DEF Falls, RunsLeft, Busy, RestartsLeft, RetriesLeft, poolVars, deepVars

LEMMA CallFalls ==
  ASSUME IInv, NEW w \in Worker, CallStep(w) \/ FeedPrompt(w) \/ TimesOut(w),
         UNCHANGED <<poolVars, deepVars>>
  PROVE  Falls(w)
<1> USE DEF IInv, TypeOK, CallTypeOK, PoolTypeOK
<1>1. pc[w] \in {"entering", "launching", "spawned", "registered", "feeding", "waiting",
                 "backoff", "waking"}
  BY DEF CallStep, EnterCall, Spawn, Register, Recheck, Heartbeat, ReapAnswer, ReapTransient,
         ReapPending, Reap, BackoffCheck, BackoffOver, FeedPrompt, TimesOut
<1>2. Busy(w) /\ Inside(w) = 2
  BY <1>1 DEF CallShape, Busy, Inside, CallEnds
<1>3. budget[w] \in Budgets /\ Fresh \in Budgets
  BY FreshBudget
<1>4. ASSUME NEW end \in CallEnds, EndCall(w, end) PROVE Falls(w)
  BY <1>2, <1>3, <1>4, AttemptFalls DEF EndCall
<1>5. CASE EnterCall(w)
  BY <1>2, <1>5, MoveFalls DEF EnterCall, Goto, Inside, Place, Running, CallEnds
<1>6. CASE Spawn(w)
  BY <1>2, <1>6, MoveFalls DEF Spawn, Goto, Inside, Place, Running, CallEnds
<1>7. CASE Register(w)
  BY <1>2, <1>7, MoveFalls DEF Register, Goto, Inside, Place, Running, CallEnds
<1>8. CASE Recheck(w)
  <2>1. CASE via \in flags
    BY <1>4, <1>8, <2>1 DEF Recheck, CallEnds
  <2>2. CASE via \notin flags
    BY <1>2, <1>8, <2>2, MoveFalls DEF Recheck, Goto, Inside, Place, Running, CallEnds
  <2> QED BY <2>1, <2>2
<1>9. CASE Heartbeat(w)
  BY <1>4, <1>9 DEF Heartbeat, CallEnds
<1>10. CASE FeedPrompt(w)
  BY <1>2, <1>10, MoveFalls DEF FeedPrompt, Goto, Inside, Place, Running, CallEnds
<1>11. CASE TimesOut(w)
  <2>1. CASE via = "cli" /\ budget[w].timeouts < TimeoutMaxRetries
    <3> DEFINE b == [budget[w] EXCEPT !.timeouts = @ + 1]
    <3>1. /\ b \in Budgets /\ b.timeouts > budget[w].timeouts
          /\ b.tries = budget[w].tries /\ b.pendings = budget[w].pendings
      BY <1>3, <2>1, CallAssumption DEF Budgets
    <3>2. EndAttempt(w, "launching", b)
      BY <1>11, <2>1 DEF TimesOut
    <3> HIDE DEF b
    <3> QED BY <1>2, <3>1, <3>2, AttemptFalls
  <2>2. CASE ~(via = "cli" /\ budget[w].timeouts < TimeoutMaxRetries)
    BY <1>4, <1>11, <2>2 DEF TimesOut, CallEnds
  <2> QED BY <2>1, <2>2
<1>12. CASE ReapAnswer(w)
  <2>1. \E end \in CallEnds : EndCall(w, end)
    BY <1>12 DEF ReapAnswer, CallEnds
  <2> QED BY <1>4, <2>1
<1>13. CASE ReapTransient(w)
  <2>1. CASE budget[w].tries < RLMaxRetries
    <3> DEFINE b == [budget[w] EXCEPT !.tries = @ + 1]
    <3>1. /\ b \in Budgets /\ b.tries > budget[w].tries
          /\ b.timeouts = budget[w].timeouts /\ b.pendings = budget[w].pendings
      BY <1>3, <2>1, CallAssumption DEF Budgets
    <3>2. EndAttempt(w, "backoff", b)
      BY <1>13, <2>1 DEF ReapTransient
    <3> HIDE DEF b
    <3> QED BY <1>2, <3>1, <3>2, AttemptFalls
  <2>2. CASE ~(budget[w].tries < RLMaxRetries)
    BY <1>4, <1>13, <2>2 DEF ReapTransient, CallEnds
  <2> QED BY <2>1, <2>2
<1>14. CASE ReapPending(w)
  <2>1. CASE budget[w].pendings < PendingMaxRetries
    <3> DEFINE b == [Fresh EXCEPT !.pendings = budget[w].pendings + 1]
    <3>1. b \in Budgets /\ b.pendings > budget[w].pendings
      BY <1>3, <2>1, CallAssumption DEF Budgets, Fresh
    <3>2. EndAttempt(w, "backoff", b)
      BY <1>14, <2>1 DEF ReapPending
    <3> HIDE DEF b
    <3> QED BY <1>2, <3>1, <3>2, AttemptFalls
  <2>2. CASE ~(budget[w].pendings < PendingMaxRetries)
    BY <1>4, <1>14, <2>2 DEF ReapPending, CallEnds
  <2> QED BY <2>1, <2>2
<1>15. CASE BackoffCheck(w)
  <2>1. CASE via \in flags
    BY <1>4, <1>15, <2>1 DEF BackoffCheck, CallEnds
  <2>2. CASE via \notin flags
    BY <1>2, <1>15, <2>2, MoveFalls DEF BackoffCheck, Goto, Inside, Place, Running, CallEnds
  <2> QED BY <2>1, <2>2
<1>16. CASE BackoffOver(w)
  BY <1>2, <1>16, MoveFalls DEF BackoffOver, Goto, Inside, Place, Running, CallEnds
<1> QED BY <1>5, <1>6, <1>7, <1>8, <1>9, <1>10, <1>11, <1>12, <1>13, <1>14, <1>15, <1>16
        DEF CallStep

(* A child that ends is one thing less to wait for.                        *)
LEMMA ExitFalls ==
  ASSUME IInv, NEW w \in Worker, Exits(w) PROVE Falls(w)
<1> USE DEF IInv, TypeOK, CallTypeOK
<1>1. Running(w) /\ ~Running(w)' /\ UNCHANGED <<pc, budget, poolVars, deepVars>>
  <2>1. "running" \notin AnswersOf(via)
    BY DEF AnswersOf, Answers
  <2> QED BY <2>1 DEF Exits, ChildExits, Running
<1>2. Inside(w) = 2
  BY <1>1 DEF CallShape, Inside, Running, CallEnds
<1>3. Place(w)' < Place(w) /\ Inside(w)' = 2
  BY <1>1, <1>2 DEF Place, Inside
<1> QED BY <1>1, <1>2, <1>3, MoveFalls

(* A step settles when it brings the main thread or a chunk forward, and   *)
(* none of them back.                                                      *)
Settles ==
  /\ MainRank' <= MainRank /\ \A t \in Task : ChunkRank(t)' <= ChunkRank(t)
  /\ (MainRank' < MainRank) \/ \E t \in Task : ChunkRank(t)' < ChunkRank(t)

(* A step works when it brings one thread forward and touches nothing else.*)
Works(w) ==
  /\ <<WorkRank(w)', WorkRank(w)>> \in Lower
  /\ \A v \in Worker \ {w} : WorkRank(v)' = WorkRank(v)
  /\ MainRank' = MainRank /\ \A t \in Task : ChunkRank(t)' = ChunkRank(t)

LEMMA OneWorks ==
  ASSUME IInv, IInv', NEW w \in Worker, Falls(w), UNCHANGED <<fut, main, outcomes, job>>,
         \A v \in Worker \ {w} : /\ pc'[v] = pc[v] /\ child'[v] = child[v]
                                 /\ budget'[v] = budget[v] /\ run'[v] = run[v]
  PROVE  Works(w)
<1>1. ASSUME NEW v \in Worker \ {w} PROVE WorkRank(v)' = WorkRank(v)
  BY <1>1 DEF WorkRank, RunsLeft, Inside, RestartsLeft, RetriesLeft, Place, Running, Busy
<1>2. MainRank' = MainRank /\ \A t \in Task : ChunkRank(t)' = ChunkRank(t)
  BY DEF MainRank, ChunkRank
<1> QED BY <1>1, <1>2, RankFalls DEF Works

LEMMA DeliverSettles ==
  ASSUME OInv, NEW w \in Worker, Busy(w), NEW r \in {"findings"} \cup Raises,
         Deliver(w, r), UNCHANGED outcomes
  PROVE  Settles
<1> USE DEF OInv, IInv, TypeOK, PoolTypeOK
<1>1. job[w] \in Task /\ fut[job[w]] = "running"
  BY DEF OwnerShape, Busy
<1>2. fut' = [fut EXCEPT ![job[w]] = r] /\ main' = main
  BY DEF Deliver
<1>3. ChunkRank(job[w]) = 2
  BY <1>1 DEF ChunkRank
<1>4. \A t \in Task : t # job[w] => ChunkRank(t)' = ChunkRank(t)
  BY <1>2 DEF ChunkRank
<1>5. (fut')[job[w]] = r
  BY <1>1, <1>2
<1>6. ASSUME NEW t \in Task, t = job[w] PROVE ChunkRank(t)' < ChunkRank(t)
  BY <1>3, <1>5, <1>6 DEF ChunkRank, Raises
<1>7. \A t \in Task : ChunkRank(t) \in Nat /\ ChunkRank(t)' \in Nat
  BY DEF ChunkRank
<1>8. MainRank' = MainRank /\ MainRank \in Nat
  BY <1>2 DEF MainRank
<1> QED BY <1>1, <1>4, <1>6, <1>7, <1>8 DEF Settles

LEMMA JobProgress ==
  ASSUME OInv, IInv', NEW w \in Worker, JobStep(w)
  PROVE  Settles \/ Works(w)
<1> USE DEF OInv, IInv, TypeOK, PoolTypeOK, CallTypeOK
<1>1. CASE StartChunk(w)
  <2>1. PICK t \in Task : /\ fut[t] = "pending" /\ fut' = [fut EXCEPT ![t] = "running"]
                          /\ UNCHANGED <<main, outcomes>>
    BY <1>1 DEF StartChunk, Dequeue, Tasks, deepVars
  <2>2. ChunkRank(t) = 3 /\ ChunkRank(t)' = 2
    BY <2>1 DEF ChunkRank
  <2>3. \A u \in Task : u # t => ChunkRank(u)' = ChunkRank(u)
    BY <2>1 DEF ChunkRank
  <2>4. \A u \in Task : ChunkRank(u) \in Nat
    BY DEF ChunkRank
  <2>5. MainRank' = MainRank /\ MainRank \in Nat
    BY <2>1 DEF MainRank
  <2> QED BY <2>2, <2>3, <2>4, <2>5 DEF Settles
<1>2. CASE StartRun(w)
  <2>1. job[w] \in Task /\ RunsOf[job[w]] \in Nat /\ run[w] \in Nat
    BY <1>2, DeepDiveAssumption DEF StartRun, Busy
  <2>2. RunsLeft(w)' < RunsLeft(w)
    BY <1>2, <2>1 DEF StartRun, RunsLeft, Busy, poolVars
  <2> QED BY <1>2, <2>2, OneWorks DEF StartRun, Falls, Goto, poolVars
<1>3. CASE SkipRun(w)
  BY <1>3, DeliverSettles DEF SkipRun, ReturnChunk, Raises
<1>4. CASE EndRun(w)
  <2>1. CASE pc[w] # "ok" /\ Aborted
    BY <1>4, <2>1, DeliverSettles DEF EndRun, ReturnChunk, Raises, ExceptionOf
  <2>2. CASE ~(pc[w] # "ok" /\ Aborted)
    <3>1. RunsLeft(w)' = RunsLeft(w)
      BY <1>4, <2>2 DEF EndRun, RunsLeft, Busy, poolVars
    <3>2. Inside(w)' < Inside(w)
      BY <1>4, <2>2 DEF EndRun, Inside, Goto, CallEnds
    <3> QED BY <1>4, <2>2, <3>1, <3>2, OneWorks DEF EndRun, Falls, Goto, poolVars
  <2> QED BY <2>1, <2>2
<1>5. CASE EndChunk(w)
  BY <1>5, DeliverSettles DEF EndChunk, ReturnChunk, Raises
<1> QED BY <1>1, <1>2, <1>3, <1>4, <1>5 DEF JobStep

LEMMA CallProgress ==
  ASSUME IInv, IInv', NEW w \in Worker,
         \/ (CallStep(w) \/ FeedPrompt(w) \/ TimesOut(w)) /\ UNCHANGED <<poolVars, deepVars>>
         \/ Exits(w)
  PROVE  Works(w)
<1>1. Falls(w)
  BY CallFalls, ExitFalls
<1>2. UNCHANGED <<fut, main, outcomes, job, run>>
  BY DEF Exits, poolVars, deepVars
<1>3. \A v \in Worker \ {w} : /\ pc'[v] = pc[v] /\ child'[v] = child[v]
                              /\ budget'[v] = budget[v]
  BY DEF IInv, TypeOK, CallTypeOK, CallStep, EnterCall, Spawn, Register, Recheck, Heartbeat,
         ReapAnswer, ReapTransient, ReapPending, BackoffCheck, BackoffOver, FeedPrompt,
         TimesOut, Exits, ChildExits, EndCall, EndAttempt, Goto
<1> QED BY <1>1, <1>2, <1>3, OneWorks

LEMMA MainProgress ==
  ASSUME OInv, Main \/ Interrupt \/ \E t \in Task : Collect(t)
  PROVE  Settles
<1> USE DEF OInv, IInv, TypeOK, PoolTypeOK
<1>1. \A t \in Task : ChunkRank(t) \in Nat
  BY DEF ChunkRank
<1>2. CASE \E t \in Task : Collect(t)
  <2>1. PICK t \in Task : Collect(t)
    BY <1>2
  <2>2. ChunkRank(t) = 1 /\ ChunkRank(t)' = 0
    BY <2>1 DEF Collect, ChunkRank, Raises, OutcomeOf
  <2>3. \A u \in Task : u # t => ChunkRank(u)' = ChunkRank(u)
    BY <2>1 DEF Collect, ChunkRank
  <2>4. MainRank' <= MainRank
    BY <2>1 DEF Collect, MainRank
  <2> QED BY <1>1, <2>2, <2>3, <2>4 DEF Settles
<1>3. CASE Submit /\ UNCHANGED deepVars
  <2>1. PICK t \in Task : /\ fut[t] = "unsubmitted" /\ fut' = [fut EXCEPT ![t] = "pending"]
                          /\ main = "submitting" /\ main' \in {"collecting", "submitting"}
                          /\ UNCHANGED outcomes
    BY <1>3 DEF Submit, Tasks, deepVars
  <2>2. ChunkRank(t) = 4 /\ ChunkRank(t)' = 3
    BY <2>1 DEF ChunkRank
  <2>3. \A u \in Task : u # t => ChunkRank(u)' = ChunkRank(u)
    BY <2>1 DEF ChunkRank
  <2>4. MainRank' <= MainRank
    BY <2>1 DEF MainRank
  <2> QED BY <1>1, <2>2, <2>3, <2>4 DEF Settles
<1>4. CASE ((AbortSteps \/ Join) /\ UNCHANGED deepVars) \/ Interrupt
  <2>1. MainRank' < MainRank
    <3>1. \/ MainGoto("abort_cli", "kill_cli") \/ MainGoto("kill_cli", "abort_codex")
          \/ MainGoto("abort_codex", "kill_codex") \/ MainGoto("kill_codex", "cancelling")
          \/ MainGoto("cancelling", "unwinding")
          \/ MainGoto("joining", "returned") \/ MainGoto("unwinding", "raised")
          \/ MainGoto("submitting", "escaped") \/ MainGoto("collecting", "abort_cli")
      BY <1>4, Zenon
      DEF AbortSteps, AbortCli, KillCli, AbortCodex, KillCodex, CancelQueue, Join, Interrupt,
          InterruptSubmit, InterruptCollect
    <3> QED BY <3>1 DEF MainGoto, MainRank
  <2>2. \A t \in Task : fut'[t] = fut[t] \/ (fut[t] = "pending" /\ fut'[t] = "cancelled")
    BY <1>4
    DEF AbortSteps, AbortCli, KillCli, AbortCodex, KillCodex, CancelQueue, Join, Interrupt,
        InterruptSubmit, InterruptCollect
  <2>3. UNCHANGED outcomes
    BY <1>4 DEF Interrupt, deepVars
  <2>4. \A t \in Task : ChunkRank(t)' <= ChunkRank(t)
    BY <2>2, <2>3 DEF ChunkRank
  <2> QED BY <2>1, <2>4 DEF Settles, MainRank
<1> QED BY <1>2, <1>3, <1>4 DEF Main, MainStep

(* Every step of the stage brings the main thread or a chunk forward, or,  *)
(* with these as they are, one thread within its chunk: whatever children  *)
(* answer and whenever Ctrl-C comes, a pool has only finitely many steps   *)
(* to take, so that it can only fail to end by waiting for a child.  The   *)
(* three nested retry loops of claude_cli._run_with_retry and agentic, the *)
(* runs of a chunk and the main thread's hand-over never restart one       *)
(* another for ever (claude_cli.py:793-839, 980-1032; s4_deepdive.py:317,  *)
(* 377-466).                                                               *)
THEOREM PoolProgress == Spec => [][Settles \/ \E w \in Worker : Works(w)]_vars
<1>1. OInv /\ [Next]_vars => [Settles \/ \E w \in Worker : Works(w)]_vars
  <2> SUFFICES ASSUME OInv, [Next]_vars, ~UNCHANGED vars
               PROVE  Settles \/ \E w \in Worker : Works(w)
    OBVIOUS
  <2>1. IInv /\ IInv'
    BY NextOInv DEF OInv
  <2>2. ASSUME NEW w \in Worker, WorkerStep(w) \/ Exits(w) PROVE Settles \/ Works(w)
    BY <2>1, <2>2, JobProgress, CallProgress DEF WorkerStep
  <2>3. CASE Main \/ Interrupt \/ \E t \in Task : Collect(t)
    BY <2>3, MainProgress
  <2> QED BY <2>2, <2>3 DEF Next, Rest
<1> QED BY <1>1, OutcomeInvariance, PTL DEF Spec
=============================================================================
