----------------------------- MODULE AgentCalls -----------------------------
(***************************************************************************)
(* One model call as a worker thread makes it through a subprocess         *)
(* backend, and the process-global cancellation state the calls share:     *)
(* backends/claude_cli.py (via "cli"), backends/codex_cli.py (via "codex") *)
(* and the dispatcher backends/llm.py.                                     *)
(*                                                                         *)
(* A call checks the backend's _ABORT event, starts a child process,       *)
(* registers it in _LIVE and waits for it.  abort() sets _ABORT and kills  *)
(* what is in _LIVE at that instant.  The "cli" backend looks at _ABORT    *)
(* again once the child is registered and at every heartbeat; "codex" does *)
(* not, and "codex" also writes the whole prompt to the child before its   *)
(* timeout starts to count.  "cli" retries timeouts, transient upstream    *)
(* errors and (agentic mode) unfinished answers, each boundedly.           *)
(*                                                                         *)
(* The module owns the steps of a call; the pool that runs the calls and   *)
(* the thread that aborts them are in StagePool.                           *)
(***************************************************************************)
EXTENDS Naturals, FiniteSets

CONSTANTS
  Worker,             \* the pool's threads (step4.parallel, step6.parallel)
  Vias,               \* subprocess backends a role may be configured with
  Agentic,            \* TRUE: agentic(), which also retries "pending" answers
  RLMaxRetries,       \* _RL_MAX_RETRIES
  TimeoutMaxRetries,  \* _TIMEOUT_MAX_RETRIES
  PendingMaxRetries   \* _PENDING_MAX_RETRIES

Backends == {"cli", "codex"}

ASSUME CallAssumption ==
  /\ Vias \subseteq Backends
  /\ Agentic \in BOOLEAN
  /\ RLMaxRetries \in Nat
  /\ TimeoutMaxRetries \in Nat
  /\ PendingMaxRetries \in Nat

VARIABLES
  via,     \* the backend this stage's role is routed to; never changes
  flags,   \* the backends whose _ABORT event is set
  live,    \* the workers whose child is in the backend's _LIVE set
  pc,      \* where each worker stands in its call
  child,   \* each worker's child process
  budget,  \* retries each call has used
  late     \* history: children each worker started after _ABORT was set

callVars == <<via, flags, live, pc, child, budget, late>>

-----------------------------------------------------------------------------
(* What a finished child left behind: a parsed answer, a non-transient     *)
(* failure, the canned guardrail refusal, a transient upstream error, or a *)
(* placeholder for sub-agents still running.                               *)
Answers == {"ok", "error", "guardrail", "transient", "pending"}

(* codex has neither a refusal detector nor a retry classifier: whatever   *)
(* the child says is an answer or a failure.                               *)
AnswersOf(b) ==
  IF b = "codex" THEN {"ok", "error"}
  ELSE IF Agentic THEN Answers ELSE Answers \ {"pending"}

ChildState == {"none", "running", "killed"} \cup Answers

(* How a call ends for its caller.                                         *)
CallEnds == {"ok", "failed", "guardrail", "aborted"}

CallPC == {"idle", "entering", "launching", "spawned", "registered",
           "feeding", "waiting", "backoff", "waking"} \cup CallEnds

(* The retries a call has used so far.                                     *)
Budgets == [tries: 0..RLMaxRetries, timeouts: 0..TimeoutMaxRetries,
            pendings: 0..PendingMaxRetries]
Fresh == [tries |-> 0, timeouts |-> 0, pendings |-> 0]

(* llm.aborted(): either backend has been aborted.                         *)
Aborted == flags # {}

CallTypeOK ==
  /\ via \in Vias
  /\ flags \subseteq Backends
  /\ live \subseteq Worker
  /\ pc \in [Worker -> CallPC]
  /\ child \in [Worker -> ChildState]
  /\ budget \in [Worker -> Budgets]
  /\ late \in [Worker -> 0..2]

CallInit ==
  /\ via \in Vias
  /\ flags = {}
  /\ live = {}
  /\ pc = [w \in Worker |-> "idle"]
  /\ child = [w \in Worker |-> "none"]
  /\ budget = [w \in Worker |-> Fresh]
  /\ late = [w \in Worker |-> 0]

Running(w) == child[w] = "running"

-----------------------------------------------------------------------------
(* Steps of the worker that makes the call.                                *)

Goto(w, l) == pc' = [pc EXCEPT ![w] = l]

(* This attempt is over, the child gone and out of _LIVE: the thread goes  *)
(* on at l, having used retries b.                                         *)
EndAttempt(w, l, b) ==
  /\ Goto(w, l)
  /\ child' = [child EXCEPT ![w] = "none"]
  /\ live' = live \ {w}
  /\ budget' = [budget EXCEPT ![w] = b]
  /\ UNCHANGED <<via, flags, late>>

(* The call itself is over.                                                *)
EndCall(w, end) == EndAttempt(w, end, Fresh)

(* The backend looks at its own _ABORT before it starts anything.          *)
EnterCall(w) ==
  /\ pc[w] = "entering"
  /\ Goto(w, IF via \in flags THEN "aborted" ELSE "launching")
  /\ UNCHANGED <<via, flags, live, child, budget, late>>

(* Popen: the child runs, and nothing but this thread knows it yet.        *)
Spawn(w) ==
  /\ pc[w] = "launching"
  /\ Goto(w, "spawned")
  /\ child' = [child EXCEPT ![w] = "running"]
  /\ late' = [late EXCEPT ![w] = IF via \in flags /\ @ < 2 THEN @ + 1 ELSE @]
  /\ UNCHANGED <<via, flags, live, budget>>

(* _LIVE.add(proc).                                                        *)
Register(w) ==
  /\ pc[w] = "spawned"
  /\ live' = live \cup {w}
  /\ Goto(w, IF via = "cli" THEN "registered" ELSE "feeding")
  /\ UNCHANGED <<via, flags, child, budget, late>>

(* A bug that could be: the loop only watches the clock once the child is  *)
(* registered.                                                             *)
BugRecheckBlind(w) ==
  /\ pc[w] = "registered"
  /\ Goto(w, "waiting")
  /\ UNCHANGED <<via, flags, live, child, budget, late>>

(* A bug that could be: the abort is reported as a timeout, which the      *)
(* retry loop answers with a new child.                                    *)
BugRecheckRetries(w) ==
  /\ pc[w] = "registered"
  /\ IF via \in flags
     THEN IF budget[w].timeouts < TimeoutMaxRetries
          THEN EndAttempt(w, "launching", [budget[w] EXCEPT !.timeouts = @ + 1])
          ELSE EndCall(w, "failed")
     ELSE Goto(w, "waiting") /\ UNCHANGED <<via, flags, live, child, budget, late>>

(* cli: the loop top, where _ABORT is read again after registration.       *)
Recheck(w) ==
  /\ pc[w] = "registered"
  /\ IF via \in flags
     THEN EndCall(w, "aborted")
     ELSE Goto(w, "waiting") /\ UNCHANGED <<via, flags, live, child, budget, late>>

(* cli: a heartbeat interval passes while the child runs.  The loop top    *)
(* sees _ABORT; when it does not, the heartbeat only prints.               *)
Heartbeat(w) ==
  /\ via = "cli" /\ pc[w] = "waiting" /\ Running(w)
  /\ via \in flags
  /\ EndCall(w, "aborted")

(* codex: stdin.write returns once the child has read the prompt or died.  *)
FeedPrompt(w) ==
  /\ pc[w] = "feeding"
  /\ Goto(w, "waiting")
  /\ UNCHANGED <<via, flags, live, child, budget, late>>

(* A bug that could be: timeouts are retried but not counted.              *)
BugTimesOutUncounted(w) ==
  /\ pc[w] = "waiting" /\ Running(w)
  /\ via = "cli" => via \notin flags
  /\ IF via = "cli" THEN EndAttempt(w, "launching", budget[w]) ELSE EndCall(w, "failed")

(* The child outlives the call's timeout and is killed.  cli reads _ABORT  *)
(* first, and retries the call once; codex lets the exception out.         *)
TimesOut(w) ==
  /\ pc[w] = "waiting" /\ Running(w)
  /\ via = "cli" => via \notin flags
  /\ IF via = "cli" /\ budget[w].timeouts < TimeoutMaxRetries
     THEN EndAttempt(w, "launching", [budget[w] EXCEPT !.timeouts = @ + 1])
     ELSE EndCall(w, "failed")

-----------------------------------------------------------------------------
(* The child is gone: read what it left and classify it.  A killed child   *)
(* exits non-zero; cli may still find transient text in its cut-off output.*)

Reap(w) == pc[w] = "waiting" /\ ~Running(w)

ReapAnswer(w) ==
  /\ Reap(w)
  /\ child[w] \in {"ok", "error", "guardrail", "killed"}
  /\ EndCall(w, IF child[w] \in {"ok", "guardrail"} THEN child[w] ELSE "failed")

(* A bug that could be: one retry too many.                                *)
BugReapTransientOnceMore(w) ==
  /\ Reap(w)
  /\ child[w] = "transient" \/ (via = "cli" /\ child[w] = "killed")
  /\ IF budget[w].tries <= RLMaxRetries
     THEN EndAttempt(w, "backoff", [budget[w] EXCEPT !.tries = @ + 1])
     ELSE EndCall(w, "failed")

(* A transient failure backs off and tries again, _RL_MAX_RETRIES times.   *)
ReapTransient(w) ==
  /\ Reap(w)
  /\ child[w] = "transient" \/ (via = "cli" /\ child[w] = "killed")
  /\ IF budget[w].tries < RLMaxRetries
     THEN EndAttempt(w, "backoff", [budget[w] EXCEPT !.tries = @ + 1])
     ELSE EndCall(w, "failed")

(* An unfinished answer backs off and starts the call over with a fresh    *)
(* retry budget, _PENDING_MAX_RETRIES times.                               *)
ReapPending(w) ==
  /\ Reap(w) /\ child[w] = "pending"
  /\ IF budget[w].pendings < PendingMaxRetries
     THEN EndAttempt(w, "backoff", [Fresh EXCEPT !.pendings = budget[w].pendings + 1])
     ELSE EndCall(w, "failed")

(* The sleep is cut into slices and _ABORT is read before each of them;    *)
(* this is the read before the last slice.                                 *)
BackoffCheck(w) ==
  /\ pc[w] = "backoff"
  /\ IF via \in flags
     THEN EndCall(w, "aborted")
     ELSE Goto(w, "waking") /\ UNCHANGED <<via, flags, live, child, budget, late>>

(* After the last slice nothing is read: the relaunch is unguarded.        *)
BackoffOver(w) ==
  /\ pc[w] = "waking"
  /\ Goto(w, "launching")
  /\ UNCHANGED <<via, flags, live, child, budget, late>>

CallStep(w) ==
  \/ EnterCall(w) \/ Spawn(w) \/ Register(w) \/ Recheck(w) \/ Heartbeat(w)
  \/ ReapAnswer(w) \/ ReapTransient(w) \/ ReapPending(w)
  \/ BackoffCheck(w) \/ BackoffOver(w)

-----------------------------------------------------------------------------
(* The child process: it answers, fails or dies whenever it likes, or      *)
(* never.  A Ctrl-C at the terminal may reach it directly; that is one     *)
(* more way to end with "error".                                           *)
ChildExits(w) ==
  /\ Running(w)
  /\ \E a \in AnswersOf(via) : child' = [child EXCEPT ![w] = a]
  /\ UNCHANGED <<via, flags, live, pc, budget, late>>

-----------------------------------------------------------------------------
(* abort() of one backend, as the aborting thread runs it.                 *)

SetAbort(b) ==
  /\ flags' = flags \cup {b}
  /\ UNCHANGED <<via, live, pc, child, budget, late>>

(* The snapshot of _LIVE and the kills.  The snapshot is taken under the   *)
(* lock; a child registered after it is missed however long the kills      *)
(* take, so doing them in the same step loses no behaviour.                *)
KillLive(b) ==
  /\ child' = [w \in Worker |->
                 IF b = via /\ w \in live /\ Running(w) THEN "killed"
                 ELSE child[w]]
  /\ UNCHANGED <<via, flags, live, pc, budget, late>>
=============================================================================
