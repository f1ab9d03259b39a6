---------------------------- MODULE Verify_proofs ----------------------------
(***************************************************************************)
(* Theorems about the S6 pool and the step from one repository of a batch  *)
(* to the next, for any number of workers, findings and retries, and for   *)
(* both subprocess backends.                                               *)
(*                                                                         *)
(* The main thread decides on nothing but a finding's future.  OwnerShape  *)
(* says that a running finding is in one thread's hands and not yet        *)
(* answered for; FutureShape says what a delivered future tells about the  *)
(* finding's model call; CleanShape says that no abort has begun while the *)
(* main thread is still on its way to a regular return, so no call was cut *)
(* off; RecordShape says that what is recorded is what the future holds.   *)
(* ExitShape and CallShape, as for S4, say that a pool that was joined has *)
(* neither a thread nor a child at work, which is what makes clearing the  *)
(* abort flags safe.                                                       *)
(***************************************************************************)
EXTENDS Verify, FiniteSetTheorems, TLAPS

TypeOK ==
  /\ CallTypeOK
  /\ PoolTypeOK(Verdicts)
  /\ verified \subseteq Task
  /\ dropped \in [Task -> Reasons \cup {"none"}]
  /\ asked \in [Task -> CallEnds \cup {"none"}]

(* Which steps of a call have a child, and which have it registered; a     *)
(* thread in a call has a finding in hand.                                 *)
CallShape ==
  \A w \in Worker :
    /\ child[w] # "none" => pc[w] \in {"spawned", "registered", "feeding", "waiting"}
    /\ w \in live <=> pc[w] \in {"registered", "feeding", "waiting"}
    /\ job[w] = NoTask => pc[w] = "idle"

(* A joined pool has no thread at work and nothing queued.                 *)
ExitShape ==
  main \in {"returned", "raised"} => Finished /\ \A w \in Worker : job[w] = NoTask

(* A finding is in the hands of one thread at most, until its call ends.   *)
OwnerShape ==
  \A w \in Worker : Busy(w) =>
    /\ fut[job[w]] = "running"
    /\ \A v \in Worker : job[v] = job[w] => v = w

(* Where the main thread stands before any call of abort(), or on its way  *)
(* to a regular return.                                                    *)
Clean == main \in {"submitting", "collecting", "abort_cli", "joining", "returned", "escaped"}

(* No flag is up before abort() has begun, and no call is cut off without  *)
(* one.                                                                    *)
CleanShape ==
  /\ Clean => ~Aborted
  /\ \A w \in Worker : pc[w] = "aborted" => Aborted

(* What the future of a finding says about its call.                       *)
FutureShape ==
  \A t \in Task :
    /\ fut[t] \in {"unsubmitted", "pending", "running", "cancelled"} => asked[t] = "none"
    /\ fut[t] \in Verdicts => asked[t] = "ok"
    /\ fut[t] = "GuardrailBlocked" => asked[t] = "guardrail"
    /\ fut[t] = "RuntimeError" => asked[t] \in {"failed", "aborted", "none"}
    /\ fut[t] = "RuntimeError" /\ Clean => asked[t] = "failed"

(* What is recorded of a finding is what its future holds, and the main    *)
(* thread goes on to a regular return only when all are recorded.          *)
RecordShape ==
  /\ \A t \in Task :
       /\ t \in verified => fut[t] = "tp_confident" /\ dropped[t] = "none"
       /\ dropped[t] # "none" =>
            /\ fut[t] \in (Verdicts \ {"tp_confident"}) \cup Raises
            /\ dropped[t] = ReasonOf(fut[t])
  /\ main \in {"joining", "returned"} => Collected = Task

IInv ==
  /\ TypeOK
  /\ CallShape
  /\ ExitShape
  /\ OwnerShape
  /\ CleanShape
  /\ FutureShape
  /\ RecordShape

-----------------------------------------------------------------------------
(* Lemmas                                                                  *)

(* The initial state satisfies the inductive invariant.                    *)
LEMMA InitIInv == Init => IInv
  <1> SUFFICES ASSUME Init PROVE IInv
    OBVIOUS
  <1> USE DEF Init, CallInit, PoolInit
  <1>1. TypeOK
    BY CallAssumption, PoolAssumption
       DEF TypeOK, CallTypeOK, PoolTypeOK, Backends, CallPC, CallEnds, ChildState,
           FutState, MainPC, Task, NoTask, Fresh, Budgets
  <1>2. CallShape /\ ExitShape /\ OwnerShape /\ CleanShape /\ FutureShape /\ RecordShape
    BY DEF CallShape, ExitShape, OwnerShape, CleanShape, FutureShape, RecordShape,
           Clean, Aborted, Busy, Verdicts
  <1> QED BY <1>1, <1>2 DEF IInv

(* Where a thread stands without a child of its own.                       *)
Childless == {"launching", "backoff"} \cup CallEnds

(* A step of a thread's call, or of its child, keeps the types of the call *)
(* variables and the tie between program counter, child and registry.      *)
LEMMA EndAttemptShape ==
  ASSUME CallTypeOK, CallShape, NEW w \in Worker, NEW l \in Childless, NEW b \in Budgets,
         job[w] # NoTask, EndAttempt(w, l, b), UNCHANGED poolVars
  PROVE  CallTypeOK' /\ CallShape'
  <1> USE DEF CallTypeOK, EndAttempt, Goto, poolVars
  <1>1. CallTypeOK'
    BY DEF Childless, CallPC, ChildState
  <1>2. CallShape'
    BY DEF CallShape, Childless, CallEnds
  <1> QED BY <1>1, <1>2

(* The same for every step of a call.  It leaves the flags alone, and ends *)
(* a call as "aborted" only with a flag up.                                *)
LEMMA CallStepShape ==
  ASSUME CallTypeOK, CallShape, NEW w \in Worker, UNCHANGED poolVars,
         CallStep(w) \/ FeedPrompt(w) \/ TimesOut(w) \/ ChildExits(w)
  PROVE  /\ CallTypeOK' /\ CallShape' /\ UNCHANGED flags
         /\ \A v \in Worker : pc'[v] = "aborted" /\ pc[v] # "aborted" => Aborted
  <1>job. pc[w] # "idle" => job[w] # NoTask
    BY DEF CallShape
  <1>budget. budget[w] \in Budgets /\ Fresh \in Budgets
    BY CallAssumption DEF CallTypeOK, Budgets, Fresh
  <1>end. ASSUME NEW l \in CallEnds, EndCall(w, l), pc[w] # "idle"
          PROVE  CallTypeOK' /\ CallShape'
    BY <1>end, <1>job, <1>budget, EndAttemptShape DEF EndCall, Childless
  <1>again. ASSUME NEW l \in {"launching", "backoff"}, NEW b \in Budgets,
                   EndAttempt(w, l, b), pc[w] # "idle"
            PROVE  CallTypeOK' /\ CallShape'
    BY <1>again, <1>job, EndAttemptShape DEF Childless
  <1>1. UNCHANGED flags
    BY DEF CallStep, EnterCall, Spawn, Register, Recheck, Heartbeat, FeedPrompt,
           TimesOut, ReapAnswer, ReapTransient, ReapPending, BackoffCheck,
           BackoffOver, ChildExits, EndCall, EndAttempt
  <1>2. ASSUME NEW v \in Worker, pc'[v] = "aborted", pc[v] # "aborted" PROVE Aborted
    BY <1>2
       DEF CallTypeOK, CallStep, EnterCall, Spawn, Register, Recheck, Heartbeat,
           FeedPrompt, TimesOut, ReapAnswer, ReapTransient, ReapPending,
           BackoffCheck, BackoffOver, ChildExits, EndCall, EndAttempt, Goto, Aborted
  <1>3. CallTypeOK' /\ CallShape'
    <2>1. CASE EnterCall(w) \/ Register(w) \/ BackoffOver(w) \/ FeedPrompt(w)
      <3> USE <2>1 DEF EnterCall, Register, BackoffOver, FeedPrompt, Goto, CallTypeOK
      <3>1. CallTypeOK' BY DEF CallPC, CallEnds
      <3>2. CallShape' BY DEF CallShape, poolVars
      <3> QED BY <3>1, <3>2
    <2>2. CASE Spawn(w)
      <3> USE <2>2 DEF Spawn, Goto, CallTypeOK
      <3>1. CallTypeOK'
        <4>1. late' \in [Worker -> 0..2] OBVIOUS
        <4>2. pc' \in [Worker -> CallPC] /\ child' \in [Worker -> ChildState]
          BY DEF CallPC, ChildState
        <4> QED BY <4>1, <4>2
      <3>2. CallShape' BY DEF CallShape, poolVars
      <3> QED BY <3>1, <3>2
    <2>3. CASE Recheck(w) \/ BackoffCheck(w)
      <3>1. CASE via \in flags
        BY <2>3, <3>1, <1>end DEF Recheck, BackoffCheck, CallEnds
      <3>2. CASE via \notin flags
        <4> USE <2>3, <3>2 DEF Recheck, BackoffCheck, Goto, CallTypeOK
        <4>1. CallTypeOK' BY DEF CallPC
        <4>2. CallShape' BY DEF CallShape, poolVars
        <4> QED BY <4>1, <4>2
      <3> QED BY <3>1, <3>2
    <2>4. CASE Heartbeat(w) \/ ReapAnswer(w)
      BY <2>4, <1>end DEF Heartbeat, ReapAnswer, Reap, CallEnds
    <2>5. CASE ReapTransient(w)
      <3>1. CASE budget[w].tries < RLMaxRetries
        <4>1. [budget[w] EXCEPT !.tries = @ + 1] \in Budgets
          BY <3>1, <1>budget, CallAssumption DEF Budgets
        <4> QED BY <2>5, <3>1, <4>1, <1>again DEF ReapTransient, Reap
      <3>2. CASE ~(budget[w].tries < RLMaxRetries)
        BY <2>5, <3>2, <1>end DEF ReapTransient, Reap, CallEnds
      <3> QED BY <3>1, <3>2
    <2>6. CASE ReapPending(w)
      <3>1. CASE budget[w].pendings < PendingMaxRetries
        <4>1. [Fresh EXCEPT !.pendings = budget[w].pendings + 1] \in Budgets
          BY <3>1, <1>budget, CallAssumption DEF Budgets, Fresh
        <4> QED BY <2>6, <3>1, <4>1, <1>again DEF ReapPending, Reap
      <3>2. CASE ~(budget[w].pendings < PendingMaxRetries)
        BY <2>6, <3>2, <1>end DEF ReapPending, Reap, CallEnds
      <3> QED BY <3>1, <3>2
    <2>7. CASE TimesOut(w)
      <3>1. CASE via = "cli" /\ budget[w].timeouts < TimeoutMaxRetries
        <4>1. [budget[w] EXCEPT !.timeouts = @ + 1] \in Budgets
          BY <3>1, <1>budget, CallAssumption DEF Budgets
        <4> QED BY <2>7, <3>1, <4>1, <1>again DEF TimesOut
      <3>2. CASE ~(via = "cli" /\ budget[w].timeouts < TimeoutMaxRetries)
        BY <2>7, <3>2, <1>end DEF TimesOut, CallEnds
      <3> QED BY <3>1, <3>2
    <2>8. CASE ChildExits(w)
      <3> USE <2>8 DEF ChildExits, Running, CallTypeOK
      <3>1. CallTypeOK' BY DEF ChildState, AnswersOf, Answers
      <3>2. CallShape' BY DEF CallShape, poolVars
      <3> QED BY <3>1, <3>2
    <2> QED BY <2>1, <2>2, <2>3, <2>4, <2>5, <2>6, <2>7, <2>8 DEF CallStep
  <1> QED BY <1>1, <1>2, <1>3

(* A call never moves its own finding, so only its thread's counter and    *)
(* child change in the invariant.                                          *)
LEMMA CallStepIInv ==
  ASSUME IInv, NEW w \in Worker, UNCHANGED <<poolVars, verifyVars>>,
         CallStep(w) \/ FeedPrompt(w) \/ TimesOut(w) \/ ChildExits(w)
  PROVE  IInv'
  <1>1. /\ CallTypeOK' /\ CallShape' /\ UNCHANGED flags
        /\ \A v \in Worker : pc'[v] = "aborted" /\ pc[v] # "aborted" => Aborted
    BY CallStepShape DEF IInv, TypeOK
  <1> USE DEF IInv, poolVars, verifyVars
  <1>2. TypeOK'
    BY <1>1 DEF TypeOK, PoolTypeOK
  <1>3. ExitShape' /\ OwnerShape'
    BY DEF ExitShape, OwnerShape, Finished, Tasks, Busy
  <1>4. CleanShape' /\ FutureShape'
    BY <1>1 DEF CleanShape, FutureShape, Clean, Aborted
  <1>5. RecordShape'
    BY DEF RecordShape, Collected
  <1> QED BY <1>1, <1>2, <1>3, <1>4, <1>5

(* The steps of _verify_one keep it: a future is delivered together with   *)
(* the end of its call, or without any call once a flag is up.             *)
LEMMA JobStepIInv == ASSUME IInv, NEW w \in Worker, JobStep(w) PROVE IInv'
  <1> USE DEF IInv, TypeOK, CallTypeOK, PoolTypeOK, Busy, NoTask
  <1>1. CASE StartFinding(w)
    <2> USE <1>1 DEF StartFinding, Dequeue, Tasks, callVars, verifyVars
    <2>1. TypeOK' BY DEF FutState, Task
    <2>2. CallShape' BY DEF CallShape, Task
    <2>3. ExitShape' BY DEF ExitShape, Finished
    <2>4. OwnerShape' BY DEF OwnerShape, Task
    <2>5. CleanShape' BY DEF CleanShape, Clean, Aborted
    <2>6. FutureShape' BY DEF FutureShape, Clean, Verdicts
    <2>7. RecordShape' BY DEF RecordShape, Collected, Verdicts, Raises
    <2> QED BY <2>1, <2>2, <2>3, <2>4, <2>5, <2>6, <2>7
  <1>2. CASE AskVerifier(w) /\ ~Aborted
    <2> USE <1>2 DEF AskVerifier, Goto, poolVars, verifyVars
    <2>1. TypeOK' BY DEF CallPC
    <2>2. CallShape' BY DEF CallShape
    <2>3. ExitShape' /\ OwnerShape' BY DEF ExitShape, OwnerShape, Finished, Tasks
    <2>4. CleanShape' /\ FutureShape' BY DEF CleanShape, FutureShape, Clean, Aborted
    <2>5. RecordShape' BY DEF RecordShape, Collected
    <2> QED BY <2>1, <2>2, <2>3, <2>4, <2>5
  <1>3. CASE AskVerifier(w) /\ Aborted
    <2> USE <1>3 DEF AskVerifier, Deliver, verifyVars
    <2>1. TypeOK' BY DEF FutState, Raises
    <2>2. CallShape' BY DEF CallShape
    <2>3. ExitShape' BY DEF ExitShape
    <2>4. OwnerShape' BY DEF OwnerShape
    <2>5. CleanShape' BY DEF CleanShape, Clean, Aborted
    <2>6. FutureShape' BY DEF FutureShape, OwnerShape, CleanShape, Clean, Verdicts
    <2>7. RecordShape' BY DEF RecordShape, OwnerShape, Collected, Verdicts, Raises
    <2> QED BY <2>1, <2>2, <2>3, <2>4, <2>5, <2>6, <2>7
  <1>4. CASE EndFinding(w)
    <2> USE <1>4 DEF EndFinding, Goto
    <2>1. PICK v \in Verdicts \cup Raises :
            /\ Deliver(w, v)
            /\ v \in Verdicts => pc[w] = "ok"
            /\ v = "GuardrailBlocked" => pc[w] = "guardrail"
            /\ v = "RuntimeError" => pc[w] \in {"failed", "aborted"}
      BY DEF Verdicts, Raises
    <2> USE <2>1 DEF Deliver
    <2>2. job[w] \in Task /\ fut[job[w]] = "running"
      BY DEF OwnerShape
    <2>3. TypeOK'
      <3>1. pc' \in [Worker -> CallPC] BY DEF CallPC
      <3>2. asked' \in [Task -> CallEnds \cup {"none"}] BY <2>2
      <3>3. fut' \in [Task -> FutState(Verdicts)] BY <2>2 DEF FutState
      <3> QED BY <3>1, <3>2, <3>3
    <2>4. CallShape'
      <3>1. child[w] = "none" /\ w \notin live
        BY DEF CallShape, CallEnds
      <3> QED BY <3>1 DEF CallShape
    <2>5. ExitShape' BY DEF ExitShape
    <2>6. OwnerShape' BY <2>2 DEF OwnerShape
    <2>7. CleanShape' BY DEF CleanShape, Clean, Aborted
    <2>8. FutureShape'
      <3>1. Clean => pc[w] # "aborted"
        BY DEF CleanShape
      <3> QED BY <2>2, <3>1 DEF FutureShape, Clean, Verdicts, Raises
    <2>9. RecordShape'
      BY <2>2 DEF RecordShape, Collected, Verdicts, Raises
    <2> QED BY <2>3, <2>4, <2>5, <2>6, <2>7, <2>8, <2>9
  <1> QED BY <1>1, <1>2, <1>3, <1>4 DEF JobStep

(* The steps of the main thread, the interrupts included.                  *)
LEMMA MainIInv ==
  ASSUME IInv, MainStep \/ InterruptSubmit \/ InterruptCollect, UNCHANGED verifyVars
  PROVE  IInv'
  <1> USE DEF IInv, TypeOK, CallTypeOK, PoolTypeOK, verifyVars, MainGoto
  <1>1. CASE Submit
    <2> USE <1>1 DEF Submit, callVars, Tasks
    <2>1. TypeOK' BY DEF MainPC, FutState
    <2>2. CallShape' /\ ExitShape' BY DEF CallShape, ExitShape
    <2>3. OwnerShape' BY DEF OwnerShape, Busy, NoTask
    <2>4. CleanShape' BY DEF CleanShape, Clean, Aborted
    <2>5. FutureShape' BY DEF FutureShape, Clean, Verdicts
    <2>6. RecordShape' BY DEF RecordShape, Collected, Verdicts, Raises
    <2> QED BY <2>1, <2>2, <2>3, <2>4, <2>5, <2>6
  <1>2. CASE AbortSteps
    <2> USE <1>2 DEF AbortSteps, AbortCli, KillCli, AbortCodex, KillCodex, CancelQueue,
                     SetAbort, KillLive, callVars
    <2>1. TypeOK' BY DEF MainPC, FutState, Backends, ChildState
    <2>2. CallShape' BY DEF CallShape, Running
    <2>3. ExitShape' BY DEF ExitShape
    <2>4. OwnerShape' BY DEF OwnerShape, Busy, NoTask
    <2>5. CleanShape' BY DEF CleanShape, Clean, Aborted
    <2>6. FutureShape' BY DEF FutureShape, Clean, Verdicts
    <2>7. RecordShape' BY DEF RecordShape, Collected, Verdicts, Raises
    <2> QED BY <2>1, <2>2, <2>3, <2>4, <2>5, <2>6, <2>7
  <1>3. CASE Join \/ InterruptSubmit \/ InterruptCollect
    <2> USE <1>3 DEF Join, InterruptSubmit, InterruptCollect, callVars
    <2>1. TypeOK' BY DEF MainPC
    <2>2. CallShape' BY DEF CallShape
    <2>3. ExitShape' BY DEF ExitShape, Finished, Tasks
    <2>4. OwnerShape' BY DEF OwnerShape, Busy
    <2>5. CleanShape' BY DEF CleanShape, Clean, Aborted
    <2>6. FutureShape' BY DEF FutureShape, Clean
    <2>7. RecordShape' BY DEF RecordShape, Collected
    <2> QED BY <2>1, <2>2, <2>3, <2>4, <2>5, <2>6, <2>7
  <1> QED BY <1>1, <1>2, <1>3 DEF MainStep

(* Recording a delivered future keeps it; the pool is joined only with the *)
(* last one recorded.                                                      *)
LEMMA CollectIInv == ASSUME IInv, NEW t \in Task, Collect(t) PROVE IInv'
  <1> USE DEF IInv, TypeOK, CallTypeOK, PoolTypeOK, Collect, callVars
  <1>1. TypeOK'
    <2>1. main' \in MainPC
      BY DEF MainPC
    <2>2. fut[t] # "tp_confident" => ReasonOf(fut[t]) \in Reasons
      BY DEF ReasonOf, Reasons, Verdicts, Raises
    <2> QED BY <2>1, <2>2
  <1>2. CallShape' BY DEF CallShape
  <1>3. ExitShape' BY DEF ExitShape
  <1>4. OwnerShape' BY DEF OwnerShape, Busy
  <1>5. CleanShape' BY DEF CleanShape, Clean, Aborted
  <1>6. FutureShape' BY DEF FutureShape, Clean
  <1>7. RecordShape'
    <2>1. dropped[t] = "none" /\ t \notin verified
      BY DEF Collected
    <2>2. fut[t] # "tp_confident" => ReasonOf(fut[t]) # "none"
      BY DEF ReasonOf, Verdicts, Raises
    <2>3. ASSUME NEW u \in Task
          PROVE  /\ u \in verified' => fut'[u] = "tp_confident" /\ dropped'[u] = "none"
                 /\ dropped'[u] # "none" =>
                      /\ fut'[u] \in (Verdicts \ {"tp_confident"}) \cup Raises
                      /\ dropped'[u] = ReasonOf(fut'[u])
      BY <2>1 DEF RecordShape
    <2>4. Collected' = Collected \cup {t}
      BY <2>1, <2>2 DEF Collected
    <2>5. main' \in {"joining", "returned"} => Task \ Collected = {t}
      OBVIOUS
    <2>6. Collected \subseteq Task
      BY DEF Collected
    <2> QED BY <2>3, <2>4, <2>5, <2>6 DEF RecordShape
  <1> QED BY <1>1, <1>2, <1>3, <1>4, <1>5, <1>6, <1>7

(* reset_abort() between two repositories finds no thread in a call.       *)
LEMMA NextRepoIInv == ASSUME IInv, NextRepo PROVE IInv'
  <1> USE DEF IInv, NextRepo, poolVars, verifyVars
  <1>1. TypeOK' BY DEF TypeOK, CallTypeOK, PoolTypeOK
  <1>2. CallShape' BY DEF CallShape
  <1>3. ExitShape' /\ OwnerShape' BY DEF ExitShape, OwnerShape, Finished, Tasks, Busy
  <1>4. CleanShape' BY DEF CallShape, ExitShape, CleanShape, Clean, Aborted
  <1>5. FutureShape' BY DEF FutureShape, Clean
  <1>6. RecordShape' BY DEF RecordShape, Collected
  <1> QED BY <1>1, <1>2, <1>3, <1>4, <1>5, <1>6

(* Every step keeps the invariant.                                         *)
LEMMA NextIInv == IInv /\ [Next]_vars => IInv'
  <1> SUFFICES ASSUME IInv, [Next]_vars PROVE IInv'
    OBVIOUS
  <1>1. ASSUME NEW w \in Worker, WorkerStep(w) \/ Exits(w) PROVE IInv'
    BY <1>1, JobStepIInv, CallStepIInv DEF WorkerStep, Exits
  <1>2. ASSUME NEW t \in Task, Collect(t) PROVE IInv'
    BY <1>2, CollectIInv
  <1>3. CASE Main \/ Interrupt
    BY <1>3, MainIInv DEF Main, Interrupt
  <1>4. CASE NextRepo
    BY <1>4, NextRepoIInv
  <1>5. CASE UNCHANGED vars
    BY <1>5
       DEF vars, callVars, poolVars, verifyVars, IInv, TypeOK, CallTypeOK, PoolTypeOK,
           CallShape, ExitShape, OwnerShape, CleanShape, FutureShape, RecordShape,
           Clean, Aborted, Finished, Tasks, Busy, Collected
  <1> QED BY <1>1, <1>2, <1>3, <1>4, <1>5 DEF Next, Rest

-----------------------------------------------------------------------------
(* Theorems                                                                *)

(* The inductive invariant holds of every behaviour of the S6 pool and of  *)
(* the batch driver behind it.                                             *)
THEOREM Invariance == Spec => []IInv
  <1> QED BY InitIInv, NextIInv, PTL DEF Spec

(* Every variable keeps its type; in particular no retry counter of a      *)
(* verification call ever passes its bound.                                *)
THEOREM VerifyTypeCorrect == Spec => []TypeOK
  <1>1. IInv => TypeOK BY DEF IInv
  <1> QED BY <1>1, Invariance, PTL

(* What S6 reports of a finding is what its model call said: kept and      *)
(* judged findings were answered, a refusal of the guardrail is disclosed  *)
(* as such, and a stage that returns has placed every finding              *)
(* (s6_verify.run, _verify_one).                                           *)
THEOREM VerdictsAreTruthful == Spec => []VerdictsTruthful
  <1>1. IInv => VerdictsTruthful
    <2> SUFFICES ASSUME IInv, NEW t \in Task
                 PROVE  /\ t \in verified => dropped[t] = "none" /\ asked[t] = "ok"
                        /\ dropped[t] \in {"UNCONFIRMED", "FALSE_POSITIVE"} => asked[t] = "ok"
                        /\ dropped[t] # "none" /\ asked[t] = "guardrail" =>
                             dropped[t] = "GUARDRAIL_BLOCKED"
                        /\ main = "returned" => t \in Collected
      BY DEF VerdictsTruthful
    <2> USE DEF IInv, RecordShape, FutureShape
    <2>1. t \in verified => dropped[t] = "none" /\ asked[t] = "ok"
      BY DEF Verdicts
    <2>2. dropped[t] \in {"UNCONFIRMED", "FALSE_POSITIVE"} => asked[t] = "ok"
      BY DEF ReasonOf, Verdicts, Raises
    <2>3. dropped[t] # "none" /\ asked[t] = "guardrail" => dropped[t] = "GUARDRAIL_BLOCKED"
      BY DEF ReasonOf, Verdicts, Raises
    <2>4. main = "returned" => t \in Collected
      OBVIOUS
    <2> QED BY <2>1, <2>2, <2>3, <2>4
  <1> QED BY <1>1, Invariance, PTL

(* A stage that returns was never aborted, and each of its findings had a  *)
(* model call that ran to its own end: no VERIFY_ERROR of a finished       *)
(* report stands for a call the stage itself cut off.                      *)
THEOREM ReportsHideNoAbort == Spec => []NoAbortInReport
  <1>1. IInv => NoAbortInReport
    <2> SUFFICES ASSUME IInv, main = "returned"
                 PROVE  flags = {} /\ \A t \in Task : asked[t] \notin {"aborted", "none"}
      BY DEF NoAbortInReport
    <2>1. Clean /\ flags = {}
      BY DEF IInv, CleanShape, Clean, Aborted
    <2>2. ASSUME NEW t \in Task PROVE fut[t] \in Verdicts \cup Raises
      BY DEF IInv, RecordShape, Collected, Verdicts
    <2> QED BY <2>1, <2>2 DEF IInv, FutureShape, Raises
  <1> QED BY <1>1, Invariance, PTL

(* Clearing the abort flags for the next repository (reset_abort in        *)
(* orchestrator/batch.py) revives nobody: no thread of the stage that was  *)
(* given up has a finding in hand and no child of it runs.                 *)
THEOREM ResetIsSafe == Spec => ResetRevivesNobody
  <1>1. IInv /\ [Next]_vars =>
          (flags # {} /\ flags' = {} => \A w \in Worker : ~Busy(w) /\ ~Running(w))
    <2> SUFFICES ASSUME IInv, [Next]_vars, flags # {}, flags' = {}, NEW w \in Worker
                 PROVE  ~Busy(w) /\ ~Running(w)
      OBVIOUS
    <2>1. NextRepo
      <3>1. ASSUME NEW v \in Worker, WorkerStep(v) \/ Exits(v) PROVE flags' = flags
        BY <3>1, CallStepShape
           DEF IInv, TypeOK, WorkerStep, Exits, JobStep, StartFinding, AskVerifier,
               EndFinding, callVars
      <3>2. ASSUME NEW t \in Task, Collect(t) PROVE flags' = flags
        BY <3>2 DEF Collect, callVars
      <3>3. CASE Main \/ Interrupt
        BY <3>3
           DEF Main, Interrupt, MainStep, Submit, AbortSteps, AbortCli, KillCli,
               AbortCodex, KillCodex, CancelQueue, Join, InterruptSubmit,
               InterruptCollect, SetAbort, KillLive, callVars
      <3> QED BY <3>1, <3>2, <3>3 DEF Next, Rest, vars, callVars
    <2>2. job[w] = NoTask /\ pc[w] = "idle" /\ child[w] = "none"
      BY <2>1 DEF NextRepo, IInv, ExitShape, CallShape
    <2> QED BY <2>2 DEF Busy, Running
  <1>2. IInv /\ [Next]_vars =>
          [flags # {} /\ flags' = {} => \A w \in Worker : ~Busy(w) /\ ~Running(w)]_vars
    BY <1>1
  <1> QED BY <1>2, Invariance, PTL DEF Spec, ResetRevivesNobody

(* The stage returns or raises from its pool only with every thread idle,  *)
(* no child left and nothing registered (s6_verify.run's shutdown).        *)
THEOREM VerifyExitIsQuiet ==
  Spec => [](main \in {"returned", "raised"} =>
               live = {} /\ \A w \in Worker : ~Busy(w) /\ pc[w] = "idle" /\ ~Running(w))
  <1>1. IInv => (main \in {"returned", "raised"} =>
                   live = {} /\ \A w \in Worker : ~Busy(w) /\ pc[w] = "idle" /\ ~Running(w))
    BY DEF IInv, TypeOK, CallTypeOK, ExitShape, CallShape, Busy, Running
  <1> QED BY <1>1, Invariance, PTL
-----------------------------------------------------------------------------
(* S6 implements StageContract.                                            *)

(* Findings are submitted in their order, all of them before the first is  *)
(* collected; as long as the main thread collects, the refusals are not    *)
(* enough to give up.                                                      *)
QueueShape ==
  /\ \A t, u \in Task : t <= u /\ fut[t] = "unsubmitted" => fut[u] = "unsubmitted"
  /\ main \notin {"submitting", "escaped"} => Tasks("unsubmitted") = {}
  /\ main = "submitting" => Collected = {}
  /\ main \in {"submitting", "collecting"} => ~Contract!Hopeless(Ledger)

(* How a finding can end.                                                  *)
LEMMA ContractEnds ==
  /\ Contract!Task = Task
  /\ Contract!Ends = Verdicts \cup Raises
  BY DEF Contract!Task, Contract!Ends, Task

(* The contract counts as the stage does.                                  *)
LEMMA SameCount == ASSUME NEW S PROVE Contract!Cardinality(S) = Cardinality(S)
  BY DEF Contract!Cardinality, Cardinality

(* The ledger has an entry for what is collected.                          *)
LEMMA LedgerIs ==
  ASSUME IInv, NEW t \in Task
  PROVE  /\ Ledger[t] = "none" <=> t \notin Collected
         /\ Ledger[t] = "verified" <=> t \in verified
         /\ Ledger[t] = "GUARDRAIL_BLOCKED" <=> t \in Refused
<1>1. dropped[t] \in Reasons \cup {"none"}
  BY DEF IInv, TypeOK
<1>2. t \in verified => dropped[t] = "none"
  BY DEF IInv, RecordShape
<1> QED BY <1>1, <1>2 DEF Ledger, Collected, Refused, Reasons

(* Collecting a finding makes its entry.                                   *)
LEMMA LedgerStep ==
  ASSUME IInv, NEW t \in Task, Collect(t)
  PROVE  /\ Ledger' = [Ledger EXCEPT ![t] = Entry(fut[t])]
         /\ Entry(fut[t]) \in {"verified"} \cup Reasons
         /\ Entry(fut[t]) = "verified" <=> fut[t] = "tp_confident"
         /\ Entry(fut[t]) = "GUARDRAIL_BLOCKED" <=> fut[t] = "GuardrailBlocked"
<1>1. dropped[t] = "none" /\ t \notin verified /\ fut[t] \in Verdicts \cup Raises
  BY DEF Collect, Collected
<1>2. CASE fut[t] = "tp_confident"
  BY <1>1, <1>2 DEF Collect, Ledger, Entry, Reasons
<1>3. CASE fut[t] # "tp_confident"
  <2>1. Entry(fut[t]) = ReasonOf(fut[t]) /\ UNCHANGED verified
    BY <1>3 DEF Entry, Collect
  <2>2. dropped' = [dropped EXCEPT ![t] = Entry(fut[t])] /\ dropped \in [Task -> Reasons \cup {"none"}]
    BY <1>3, <2>1 DEF Collect, IInv, TypeOK
  <2>3. Ledger' = [Ledger EXCEPT ![t] = Entry(fut[t])]
    BY <1>1, <2>1, <2>2 DEF Ledger
  <2>4. /\ ReasonOf(fut[t]) \in Reasons
        /\ ReasonOf(fut[t]) = "GUARDRAIL_BLOCKED" <=> fut[t] = "GuardrailBlocked"
    BY <1>1, <1>3 DEF ReasonOf, Verdicts, Raises, Reasons
  <2> QED BY <1>3, <2>1, <2>3, <2>4 DEF Reasons
<1> QED BY <1>2, <1>3

(* The refusals are enough exactly when the main thread fails fast.        *)
LEMMA GivingUp ==
  ASSUME IInv, QueueShape, NEW t \in Task, Collect(t)
  PROVE  FailFast(t) <=> Contract!Hopeless(Ledger')
<1>1. /\ Ledger'[t] = Entry(fut[t]) /\ \A u \in Task \ {t} : Ledger'[u] = Ledger[u]
      /\ Ledger[t] = "none" /\ ~Contract!Hopeless(Ledger)
  BY LedgerStep, LedgerIs DEF Collect, QueueShape, Ledger
<1>2. verified = {} <=> \A u \in Task : Ledger[u] # "verified"
  BY LedgerIs DEF IInv, TypeOK
<1>3. {u \in Task : Ledger[u] = "GUARDRAIL_BLOCKED"} = Refused
  BY LedgerIs DEF Refused
<1>4. CASE fut[t] = "tp_confident"
  <2>1. Ledger'[t] = "verified"
    BY <1>1, <1>4 DEF Entry
  <2> QED BY <1>4, <2>1, ContractEnds DEF FailFast, Contract!Hopeless
<1>5. CASE fut[t] \notin {"tp_confident", "GuardrailBlocked"}
  <2>1. {u \in Task : Ledger'[u] = "GUARDRAIL_BLOCKED"} = {u \in Task : Ledger[u] = "GUARDRAIL_BLOCKED"}
    BY <1>1, <1>5, LedgerStep
  <2>2. (\A u \in Task : Ledger'[u] # "verified") => \A u \in Task : Ledger[u] # "verified"
    BY <1>1
  <2> QED BY <1>1, <1>5, <2>1, <2>2, ContractEnds DEF FailFast, Contract!Hopeless
<1>6. CASE fut[t] = "GuardrailBlocked"
  <2>1. Ledger'[t] = "GUARDRAIL_BLOCKED"
    BY <1>1, <1>6, LedgerStep
  <2>2. {u \in Task : Ledger'[u] = "GUARDRAIL_BLOCKED"} = Refused \cup {t}
    BY <1>1, <1>3, <2>1
  <2>3. Cardinality(Refused \cup {t}) = Cardinality(Refused) + 1
    <3>1. IsFiniteSet(Task)
      BY FS_Interval, PoolAssumption DEF Task
    <3>2. IsFiniteSet(Refused) /\ t \notin Refused
      BY <1>1, <1>3, <3>1, FS_Subset DEF Refused
    <3> QED BY <3>2, FS_AddElement
  <2>4. (\A u \in Task : Ledger'[u] # "verified") <=> verified = {}
    BY <1>1, <1>2, <2>1
  <2> QED BY <1>6, <2>2, <2>3, <2>4, ContractEnds, SameCount DEF FailFast, Contract!Hopeless
<1> QED BY <1>4, <1>5, <1>6

(* The gate is at least one refusal, so nothing is hopeless at first.      *)
LEMMA NotHopelessAtFirst ==
  ASSUME NEW l, \A t \in Task : l[t] = "none"
  PROVE  ~Contract!Hopeless(l)
<1>1. {t \in Task : l[t] = "GUARDRAIL_BLOCKED"} = {}
  OBVIOUS
<1>2. Cardinality({}) = 0
  BY FS_EmptySet
<1>3. GuardrailGate \in Nat \ {0}
  BY PoolAssumption, FS_CardinalityType DEF GuardrailGate
<1> QED BY <1>1, <1>2, <1>3, ContractEnds, SameCount DEF Contract!Hopeless

(* Steps that leave the records alone leave the account of refusals alone. *)
LEMMA SameLedger ==
  ASSUME UNCHANGED <<verified, dropped>>
  PROVE  /\ UNCHANGED <<Ledger, Collected>>
         /\ Contract!Hopeless(Ledger)' <=> Contract!Hopeless(Ledger)
  BY DEF Ledger, Collected, Contract!Hopeless

(* Every step keeps the order of the queue and the account of refusals.    *)
LEMMA QueueStep ==
  ASSUME IInv, QueueShape, [Next]_vars
  PROVE  QueueShape'
<1> USE DEF IInv, TypeOK, PoolTypeOK, Tasks
<1>1. ASSUME NEW w \in Worker, StartFinding(w) PROVE QueueShape'
  BY <1>1, SameLedger DEF StartFinding, Dequeue, QueueShape, verifyVars
<1>2. ASSUME NEW w \in Worker, AskVerifier(w) \/ EndFinding(w)
      PROVE  QueueShape'
  <2>1. /\ UNCHANGED <<main, verified, dropped>>
        /\ fut' = fut \/ \E r : r # "unsubmitted" /\ fut' = [fut EXCEPT ![job[w]] = r]
    BY <1>2 DEF AskVerifier, EndFinding, Deliver, poolVars, verifyVars, Verdicts
  <2>2. job[w] \in Task /\ fut[job[w]] = "running"
    BY <1>2 DEF AskVerifier, EndFinding, OwnerShape, Busy
  <2> QED BY <2>1, <2>2, SameLedger DEF QueueShape
<1>3. ASSUME NEW t \in Task, Collect(t) PROVE QueueShape'
  <2>1. UNCHANGED fut /\ main = "collecting"
    BY <1>3 DEF Collect
  <2>2. main' \in {"submitting", "collecting"} => ~Contract!Hopeless(Ledger')
    BY <1>3, <2>1, GivingUp DEF Collect
  <2>3. main' \in {"abort_cli", "joining", "collecting"}
    BY <1>3 DEF Collect
  <2> QED BY <2>1, <2>2, <2>3 DEF QueueShape
<1>4. CASE Submit /\ UNCHANGED verifyVars
  BY <1>4, SameLedger DEF Submit, Oldest, QueueShape, verifyVars, Task
<1>5. CASE CancelQueue /\ UNCHANGED verifyVars
  BY <1>5, SameLedger DEF CancelQueue, MainGoto, QueueShape, verifyVars
<1>6. CASE /\ AbortCli \/ KillCli \/ AbortCodex \/ KillCodex \/ Join
              \/ InterruptSubmit \/ InterruptCollect
           /\ UNCHANGED verifyVars
  BY <1>6, SameLedger
  DEF AbortCli, KillCli, AbortCodex, KillCodex, Join, InterruptSubmit, InterruptCollect,
      MainGoto, QueueShape, verifyVars
<1>7. CASE UNCHANGED <<fut, main, verified, dropped>>
  BY <1>7, SameLedger DEF QueueShape
<1>8. ASSUME NEW w \in Worker, Exits(w) \/
               ((CallStep(w) \/ FeedPrompt(w) \/ TimesOut(w)) /\ UNCHANGED <<poolVars, verifyVars>>)
      PROVE  UNCHANGED <<fut, main, verified, dropped>>
  BY <1>8 DEF Exits, poolVars, verifyVars
<1> QED
  BY <1>1, <1>2, <1>3, <1>4, <1>5, <1>6, <1>7, <1>8
  DEF Next, WorkerStep, JobStep, Main, MainStep, AbortSteps, Interrupt, NextRepo, Rest, vars,
      poolVars, verifyVars

(* The contract's view moves with the future.                              *)
LEMMA StandingMoves ==
  ASSUME fut \in [Task -> FutState(Verdicts)], NEW t \in Task,
         NEW s \in {"running"} \cup Verdicts \cup Raises, fut' = [fut EXCEPT ![t] = s]
  PROVE  Standing' = [Standing EXCEPT ![t] = IF s = "running" THEN "working" ELSE s]
  BY DEF Standing, Raises, Verdicts

(* An idle thread takes up the first finding that waits.                   *)
LEMMA BeginStep ==
  ASSUME IInv, QueueShape, NEW w \in Worker, StartFinding(w)
  PROVE  \E t \in Task : Contract!Begin(t)
<1> USE DEF IInv, TypeOK, PoolTypeOK, StartFinding, Dequeue
<1>1. PICK t \in Tasks("pending") :
        Oldest(t, "pending") /\ fut' = [fut EXCEPT ![t] = "running"]
  OBVIOUS
<1>2. t \in Task /\ fut[t] = "pending"
  BY <1>1 DEF Tasks
<1>3. ~Contract!Over
  BY <1>2 DEF ExitShape, Finished, Tasks, Contract!Over, StageState, Left
<1>4. Standing[t] = "waiting"
  BY <1>2 DEF Standing
<1>5. ASSUME NEW u \in Task, Standing[u] = "waiting" PROVE t <= u
  <2>1. fut[u] \in {"unsubmitted", "pending"}
    BY <1>5 DEF Standing, FutState, Raises, Verdicts
  <2>2. CASE fut[u] = "pending"
    BY <1>1, <2>2 DEF Oldest, Tasks
  <2>3. CASE fut[u] = "unsubmitted"
    <3>1. ~(u <= t)
      BY <1>2, <2>3 DEF QueueShape
    <3> QED BY <1>2, <3>1 DEF Task
  <2> QED BY <2>1, <2>2, <2>3
<1>6. Standing' = [Standing EXCEPT ![t] = "working"]
  BY <1>1, <1>2, StandingMoves
<1>7. UNCHANGED <<Ledger, StageState>>
  BY SameLedger DEF verifyVars, StageState, Left
<1>8. Contract!Begin(t)
  BY <1>3, <1>4, <1>5, <1>6, <1>7, ContractEnds DEF Contract!Begin
<1> QED BY <1>2, <1>8

(* A finding whose function ends has ended for the contract.               *)
LEMMA EndStep ==
  ASSUME IInv, NEW w \in Worker, Busy(w), NEW r \in Verdicts \cup Raises,
         Deliver(w, r), UNCHANGED <<verified, dropped>>
  PROVE  \E t \in Task : Contract!End(t)
<1> USE DEF IInv, TypeOK, PoolTypeOK, Deliver
<1> DEFINE t == job[w]
<1>1. t \in Task /\ fut[t] = "running"
  BY DEF OwnerShape, Busy
<1>2. ~Contract!Over
  BY DEF ExitShape, Busy, Contract!Over, StageState, Left
<1>3. Standing[t] = "working"
  BY <1>1 DEF Standing
<1>4. Standing' = [Standing EXCEPT ![t] = r] /\ r \in Contract!Ends
  BY <1>1, StandingMoves, ContractEnds DEF Raises, Verdicts
<1>5. UNCHANGED <<Ledger, StageState>>
  BY SameLedger DEF StageState, Left
<1>6. Contract!End(t)
  BY <1>2, <1>3, <1>4, <1>5 DEF Contract!End
<1> QED BY <1>1, <1>6

(* Collecting a finding records how it ended.                              *)
LEMMA RecordStep ==
  ASSUME IInv, QueueShape, NEW t \in Task, Collect(t)
  PROVE  Contract!Record(t)
<1>1. fut[t] \in Contract!Ends /\ Standing[t] = fut[t]
  BY ContractEnds DEF Collect, Standing, Raises, Verdicts
<1>2. Ledger' = [Ledger EXCEPT ![t] = [f \in Verdicts \cup Raises |-> Entry(f)][Standing[t]]]
  BY <1>1, LedgerStep, ContractEnds
<1>3. StageState = "open" /\ Ledger[t] = "none"
  BY LedgerIs DEF Collect, StageState, Left
<1>4. StageState' = IF Contract!Hopeless(Ledger') THEN "stopping" ELSE "open"
  BY GivingUp DEF Collect, StageState, Left
<1>5. UNCHANGED Standing
  BY DEF Collect, Standing
<1> QED BY <1>1, <1>2, <1>3, <1>4, <1>5 DEF Contract!Record

(* Emptying the queue withdraws what waits, since nothing is unsubmitted.  *)
LEMMA WithdrawStep ==
  ASSUME IInv, QueueShape, CancelQueue, UNCHANGED verifyVars
  PROVE  Contract!Withdraw
<1> USE DEF IInv, TypeOK, PoolTypeOK, CancelQueue, MainGoto
<1>1. \A t \in Task : fut[t] # "unsubmitted"
  BY DEF QueueShape, Tasks
<1>2. Standing' = [t \in Task |-> IF Standing[t] = "waiting" THEN "withdrawn" ELSE Standing[t]]
  BY <1>1 DEF Standing, FutState, Raises, Verdicts
<1>3. StageState = "stopping" /\ StageState' = "stopping" /\ UNCHANGED Ledger
  BY SameLedger DEF StageState, Left, verifyVars
<1> QED BY <1>2, <1>3, ContractEnds DEF Contract!Withdraw

(* The main thread leaves a joined pool with everything recorded, or with  *)
(* every finding ended or withdrawn.                                       *)
LEMMA LeaveStep ==
  ASSUME IInv, QueueShape, Join, UNCHANGED verifyVars
  PROVE  Contract!Return \/ Contract!Raise
<1> USE DEF IInv, TypeOK, PoolTypeOK, Join, MainGoto
<1>1. UNCHANGED <<Standing, Ledger>>
  BY SameLedger DEF Standing, verifyVars
<1>2. CASE main = "joining" /\ main' = "returned"
  <2>1. \A t \in Task : Ledger[t] # "none"
    BY <1>2, LedgerIs DEF RecordShape
  <2>2. StageState = "open" /\ StageState' = "returned"
    BY <1>2 DEF StageState, Left
  <2> QED BY <1>1, <2>1, <2>2, ContractEnds DEF Contract!Return
<1>3. CASE main = "unwinding" /\ main' = "raised"
  <2>1. ASSUME NEW t \in Task PROVE Standing[t] \in Contract!Ends \cup {"withdrawn"}
    <3>1. fut[t] \notin {"unsubmitted", "pending", "running"}
      BY <1>3 DEF QueueShape, Finished, Tasks
    <3> QED BY <3>1, ContractEnds DEF Standing, FutState, Raises
  <2>2. StageState = "stopping" /\ StageState' = "raised"
    BY <1>3 DEF StageState, Left
  <2> QED BY <1>1, <2>1, <2>2, ContractEnds DEF Contract!Raise
<1> QED BY <1>2, <1>3

(* S6 keeps StageContract: every step of threads, children, the main       *)
(* thread and the batch driver is a step of the contract or none of its    *)
(* business; the stage gives up exactly when enough findings were refused  *)
(* and none is verified (s6_verify.run's guardrail gate).                  *)
THEOREM VerifyKeepsContract == Spec => ImplementsContract
<1>1. Init => Contract!Init
  BY ContractEnds DEF Init, PoolInit, Contract!Init, Standing, StageState, Left, Ledger
<1>2. Init => QueueShape
  <2> SUFFICES ASSUME Init PROVE QueueShape
    OBVIOUS
  <2>1. \A t \in Task : Ledger[t] = "none"
    BY DEF Init, Ledger
  <2> QED BY <2>1, NotHopelessAtFirst DEF Init, PoolInit, QueueShape, Tasks, Collected
<1>3. IInv /\ QueueShape /\ [Next]_vars => QueueShape'
  BY QueueStep
<1>4. IInv /\ QueueShape /\ [Next]_vars => [Contract!Next]_<<Standing, Ledger, StageState>>
  <2> SUFFICES ASSUME IInv, QueueShape, [Next]_vars
               PROVE  Contract!Next \/ UNCHANGED <<Standing, Ledger, StageState>>
    OBVIOUS
  <2>1. ASSUME NEW w \in Worker, StartFinding(w) PROVE Contract!Next
    BY <2>1, BeginStep, ContractEnds DEF Contract!Next
  <2>2. ASSUME NEW w \in Worker, AskVerifier(w) \/ EndFinding(w)
        PROVE  Contract!Next \/ UNCHANGED <<fut, main, verified, dropped>>
    <3>1. \/ \E r \in Verdicts \cup Raises :
               Deliver(w, r) /\ Busy(w) /\ UNCHANGED <<verified, dropped>>
          \/ UNCHANGED <<fut, main, verified, dropped>>
      BY <2>2 DEF AskVerifier, EndFinding, Raises, poolVars, verifyVars
    <3> QED BY <3>1, EndStep, ContractEnds DEF Contract!Next
  <2>3. ASSUME NEW t \in Task, Collect(t) PROVE Contract!Next
    BY <2>3, RecordStep, ContractEnds DEF Contract!Next
  <2>4. CASE CancelQueue /\ UNCHANGED verifyVars
    BY <2>4, WithdrawStep DEF Contract!Next
  <2>5. CASE Join /\ UNCHANGED verifyVars
    BY <2>5, LeaveStep DEF Contract!Next
  <2>6. CASE InterruptCollect /\ UNCHANGED verifyVars
    BY <2>6, SameLedger
    DEF InterruptCollect, MainGoto, StageState, Left, Standing, verifyVars, Contract!Next,
        Contract!Stop
  <2>7. CASE InterruptSubmit /\ UNCHANGED verifyVars
    <3>1. \A t \in Task : Ledger[t] = "none"
      BY <2>7, LedgerIs DEF InterruptSubmit, MainGoto, QueueShape
    <3> QED
      BY <2>7, <3>1, ContractEnds, SameLedger
      DEF InterruptSubmit, MainGoto, StageState, Left, Standing, verifyVars,
          Contract!Next, Contract!Escape
  <2>8. CASE Submit /\ UNCHANGED verifyVars
    <3>1. UNCHANGED Standing
      BY <2>8 DEF Submit, Tasks, Standing, IInv, TypeOK, PoolTypeOK
    <3> QED BY <2>8, <3>1, SameLedger DEF Submit, StageState, Left, verifyVars
  <2>9. CASE (AbortCli \/ KillCli \/ AbortCodex \/ KillCodex) /\ UNCHANGED verifyVars
    BY <2>9, SameLedger
    DEF AbortCli, KillCli, AbortCodex, KillCodex, MainGoto, StageState, Left, Standing,
        verifyVars
  <2>10. CASE UNCHANGED <<fut, main, verified, dropped>>
    BY <2>10, SameLedger DEF Standing, StageState, Left
  <2>11. ASSUME NEW w \in Worker, Exits(w) \/
                  ((CallStep(w) \/ FeedPrompt(w) \/ TimesOut(w)) /\ UNCHANGED <<poolVars, verifyVars>>)
         PROVE  UNCHANGED <<fut, main, verified, dropped>>
    BY <2>11 DEF Exits, poolVars, verifyVars
  <2> QED
    BY <2>1, <2>2, <2>3, <2>4, <2>5, <2>6, <2>7, <2>8, <2>9, <2>10, <2>11
    DEF Next, WorkerStep, JobStep, Main, MainStep, AbortSteps, Interrupt, NextRepo, Rest, vars,
        poolVars, verifyVars
<1> QED
  BY <1>1, <1>2, <1>3, <1>4, Invariance, PTL
  DEF Spec, ImplementsContract, Contract!Spec
-----------------------------------------------------------------------------
(* The flag of the claude backend is up from abort()'s first step until    *)
(* the batch driver clears it, which is after the pool was joined; only    *)
(* codex has a thread wait without another look at its flag.               *)
AbortShape ==
  /\ \A w \in Worker : pc[w] = "feeding" => via = "codex"
  /\ main \in {"kill_cli", "abort_codex", "kill_codex", "cancelling", "unwinding"}
       => "cli" \in flags
  /\ CliAbortReachesAll

(* Every step keeps it.                                                    *)
LEMMA AbortStep ==
  ASSUME IInv, AbortShape, [Next]_vars
  PROVE  AbortShape'
<1> USE DEF IInv, TypeOK, CallTypeOK, AbortShape, CliAbortReachesAll, Swept, Running
<1>0. main \in {"returned", "raised"} => \A w \in Worker : pc[w] = "idle"
  BY DEF ExitShape, CallShape
<1>1. ASSUME NEW w \in Worker, UNCHANGED <<main, flags, via>>,
             EnterCall(w) \/ Spawn(w) \/ Register(w) \/ FeedPrompt(w) \/ BackoffOver(w)
      PROVE  AbortShape'
  <2>1. CASE EnterCall(w) \/ Spawn(w) \/ BackoffOver(w)
    BY <1>1, <2>1 DEF EnterCall, Spawn, BackoffOver, Goto
  <2>2. CASE Register(w)
    <3>1. via = "cli" \/ via = "codex"
      BY CallAssumption DEF Backends
    <3> QED BY <1>1, <2>2, <3>1 DEF Register, Goto
  <2>3. CASE FeedPrompt(w)
    <3>1. via = "codex"
      BY <2>3 DEF FeedPrompt
    <3> QED BY <1>1, <2>3, <3>1 DEF FeedPrompt, Goto
  <2> QED BY <1>1, <2>1, <2>2, <2>3
<1>2. ASSUME NEW w \in Worker, UNCHANGED main, NEW b,
             NEW l \in {"launching", "backoff"} \cup CallEnds, EndAttempt(w, l, b)
      PROVE  AbortShape'
  BY <1>2 DEF EndAttempt, Goto, CallEnds
<1>3. ASSUME NEW w \in Worker, UNCHANGED main, Recheck(w) \/ BackoffCheck(w), via \notin flags
      PROVE  AbortShape'
  <2>1. /\ UNCHANGED <<flags, via, child>>
        /\ \E l \in {"waiting", "waking"} :
             pc' = [pc EXCEPT ![w] = l] /\ (l = "waiting" => pc[w] = "registered")
    BY <1>3 DEF Recheck, BackoffCheck, Goto
  <2>2. pc[w] = "registered" => main \notin {"returned", "raised"}
    BY <1>0
  <2>3. via = "cli" /\ pc[w] = "registered" => ~Swept("cli")
    BY <1>3, <2>2
  <2>4. UNCHANGED Swept("cli")
    BY <1>3
  <2>5. ASSUME NEW v \in Worker, via = "cli", Swept("cli"), pc'[v] = "waiting"
        PROVE  child'[v] # "running"
    BY <2>1, <2>3, <2>5
  <2>6. \A v \in Worker : pc'[v] = "feeding" => via = "codex"
    BY <2>1
  <2> QED BY <1>3, <2>1, <2>4, <2>5, <2>6
<1>4. ASSUME NEW w \in Worker, UNCHANGED main, ChildExits(w) PROVE AbortShape'
  BY <1>4 DEF ChildExits, AnswersOf, Answers
<1>5. ASSUME NEW w \in Worker, UNCHANGED main,
             CallStep(w) \/ FeedPrompt(w) \/ TimesOut(w) \/ ChildExits(w)
      PROVE  AbortShape'
  <2>1. ASSUME NEW l \in CallEnds, EndCall(w, l) PROVE AbortShape'
    BY <1>2, <1>5, <2>1 DEF EndCall
  <2>2. CASE Recheck(w) \/ BackoffCheck(w)
    BY <1>3, <1>5, <2>1, <2>2 DEF Recheck, BackoffCheck, CallEnds
  <2>3. CASE Heartbeat(w) \/ ReapAnswer(w)
    BY <2>1, <2>3 DEF Heartbeat, ReapAnswer, CallEnds
  <2>4. CASE ReapTransient(w) \/ ReapPending(w) \/ TimesOut(w)
    BY <1>2, <1>5, <2>1, <2>4 DEF ReapTransient, ReapPending, TimesOut, CallEnds
  <2>5. CASE EnterCall(w) \/ Spawn(w) \/ Register(w) \/ FeedPrompt(w) \/ BackoffOver(w)
    BY <1>1, <1>5, <2>5 DEF EnterCall, Spawn, Register, FeedPrompt, BackoffOver
  <2> QED BY <1>4, <1>5, <2>2, <2>3, <2>4, <2>5 DEF CallStep
<1>6. ASSUME NEW w \in Worker, JobStep(w) PROVE AbortShape'
  BY <1>6
  DEF JobStep, StartFinding, Dequeue, AskVerifier, EndFinding, Deliver, Goto, callVars, poolVars
<1>7. CASE KillCli
  BY <1>7 DEF KillCli, KillLive, MainGoto, CallShape
<1>8. CASE AbortCli \/ AbortCodex \/ KillCodex
  BY <1>8 DEF AbortCli, AbortCodex, KillCodex, SetAbort, KillLive, MainGoto
<1>9. CASE Submit \/ CancelQueue \/ Join \/ InterruptSubmit \/ InterruptCollect
  BY <1>9 DEF Submit, CancelQueue, Join, InterruptSubmit, InterruptCollect, MainGoto, callVars
<1>10. ASSUME NEW t \in Task, Collect(t) PROVE AbortShape'
  BY <1>10 DEF Collect, callVars
<1>11. CASE NextRepo
  BY <1>0, <1>11 DEF NextRepo, poolVars
<1>12. CASE UNCHANGED vars
  BY <1>12 DEF vars, callVars, poolVars
<1> QED
  BY <1>4, <1>5, <1>6, <1>7, <1>8, <1>9, <1>10, <1>11, <1>12
  DEF Next, WorkerStep, Exits, Main, MainStep, AbortSteps, Interrupt, Rest, poolVars

(* In S6 as in S4: when claude_cli.abort() has returned, no thread waits   *)
(* for a running claude child, also after the guardrail gate gave up and   *)
(* after the flags were cleared for the next repository.                   *)
THEOREM VerifyAbortIsComplete == Spec => []CliAbortReachesAll
<1>1. Init => AbortShape
  BY DEF Init, CallInit, PoolInit, AbortShape, CliAbortReachesAll, Swept
<1>2. IInv /\ AbortShape /\ [Next]_vars => AbortShape'
  BY AbortStep
<1>3. AbortShape => CliAbortReachesAll
  BY DEF AbortShape
<1> QED BY <1>1, <1>2, <1>3, Invariance, PTL DEF Spec
=============================================================================
