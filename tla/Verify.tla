------------------------------- MODULE Verify -------------------------------
(***************************************************************************)
(* Stage S6 (pipeline/stages/s6_verify.py): every finding is verified by   *)
(* one agentic model call, and ends up either verified or dropped with a   *)
(* reason.  Unlike S4, a refusal of the content guardrail reaches the main *)
(* thread, which gives up on the whole stage when refusals accumulate and  *)
(* nothing has been verified; the batch driver then clears the abort flag  *)
(* and goes on with the next repository (orchestrator/batch.py).           *)
(*                                                                         *)
(* A task is a finding, in the order of the findings list.                 *)
(***************************************************************************)
EXTENDS StagePool

VARIABLES
  verified,   \* the findings kept
  dropped,    \* the drop reason of each finding that was not kept
  asked       \* history: how the model call for each finding ended

verifyVars == <<verified, dropped, asked>>
vars == <<callVars, poolVars, verifyVars>>

(* What _parse_verdict makes of an answer: TRUE_POSITIVE at or below       *)
(* step6_verify.min_confidence, FALSE_POSITIVE, or no VERDICT line at all. *)
Verdicts == {"tp_confident", "tp_unsure", "fp", "unparseable"}

Reasons == {"GUARDRAIL_BLOCKED", "VERIFY_ERROR", "UNCONFIRMED", "FALSE_POSITIVE"}

Init ==
  /\ CallInit
  /\ PoolInit
  /\ verified = {}
  /\ dropped = [t \in Task |-> "none"]
  /\ asked = [t \in Task |-> "none"]

Busy(w) == job[w] # NoTask

-----------------------------------------------------------------------------
(* _verify_one in a worker thread.                                         *)

StartFinding(w) == Dequeue(w) /\ UNCHANGED <<callVars, verifyVars>>

(* The first look at llm.aborted(), once per finding.                      *)
AskVerifier(w) ==
  /\ Busy(w) /\ pc[w] = "idle"
  /\ IF Aborted
     THEN /\ Deliver(w, "RuntimeError")
          /\ UNCHANGED pc
     ELSE /\ Goto(w, "entering")
          /\ UNCHANGED poolVars
  /\ UNCHANGED <<via, flags, live, child, budget, late, verifyVars>>

(* The call is over: its answer is parsed, its exception goes to the       *)
(* future.                                                                 *)
EndFinding(w) ==
  /\ Busy(w) /\ pc[w] \in CallEnds
  /\ Goto(w, "idle")
  /\ asked' = [asked EXCEPT ![job[w]] = pc[w]]
  /\ \/ pc[w] = "ok" /\ \E v \in Verdicts : Deliver(w, v)
     \/ pc[w] = "guardrail" /\ Deliver(w, "GuardrailBlocked")
     \/ pc[w] \in {"failed", "aborted"} /\ Deliver(w, "RuntimeError")
  /\ UNCHANGED <<via, flags, live, child, budget, late, verified, dropped>>

JobStep(w) == StartFinding(w) \/ AskVerifier(w) \/ EndFinding(w)

-----------------------------------------------------------------------------
(* The as_completed loop of run().                                         *)

(* A bug that could be: an unanswered finding counts as judged.            *)
BugReasonOfErrors(f) ==
  CASE f = "GuardrailBlocked" -> "GUARDRAIL_BLOCKED"
    [] f = "unparseable"      -> "VERIFY_ERROR"
    [] f = "tp_unsure"        -> "UNCONFIRMED"
    [] f \in {"fp", "RuntimeError"} -> "FALSE_POSITIVE"

ReasonOf(f) ==
  CASE f = "GuardrailBlocked"               -> "GUARDRAIL_BLOCKED"
    [] f \in {"RuntimeError", "unparseable"} -> "VERIFY_ERROR"
    [] f = "tp_unsure"                      -> "UNCONFIRMED"
    [] f = "fp"                             -> "FALSE_POSITIVE"

Refused == {t \in Task : dropped[t] = "GUARDRAIL_BLOCKED"}
Collected == verified \cup {t \in Task : dropped[t] # "none"}

(* Enough refusals and nothing verified so far.                            *)
FailFast(t) ==
  /\ fut[t] = "GuardrailBlocked"
  /\ Cardinality(Refused) + 1 >= GuardrailGate
  /\ verified = {}

Collect(t) ==
  /\ main = "collecting"
  /\ fut[t] \in Verdicts \cup Raises
  /\ t \notin Collected
  /\ IF fut[t] = "tp_confident"
     THEN /\ verified' = verified \cup {t}
          /\ UNCHANGED dropped
     ELSE /\ dropped' = [dropped EXCEPT ![t] = ReasonOf(fut[t])]
          /\ UNCHANGED verified
  /\ main' = IF FailFast(t) THEN "abort_cli"
             ELSE IF Task \ Collected = {t} THEN "joining" ELSE main
  /\ UNCHANGED <<callVars, fut, job, asked>>

-----------------------------------------------------------------------------
(* The refusals that made the stage give up; a Ctrl-C ends the batch       *)
(* instead of this repository.                                             *)
GaveUp == verified = {} /\ Cardinality(Refused) >= GuardrailGate

(* The batch driver's step from a failed repository to the next one:       *)
(* reset_abort() clears both flags.                                        *)
NextRepo ==
  /\ main = "raised" /\ GaveUp
  /\ flags # {}
  /\ flags' = {}
  /\ UNCHANGED <<via, live, pc, child, budget, late, poolVars, verifyVars>>

WorkerStep(w) ==
  \/ JobStep(w)
  \/ (CallStep(w) \/ FeedPrompt(w) \/ TimesOut(w)) /\ UNCHANGED <<poolVars, verifyVars>>

Main == MainStep /\ UNCHANGED verifyVars
Interrupt == (InterruptSubmit \/ InterruptCollect) /\ UNCHANGED verifyVars
Exits(w) == ChildExits(w) /\ UNCHANGED <<poolVars, verifyVars>>

Done == Left /\ Finished /\ \A w \in Worker : ~Busy(w)
Rest == Done /\ UNCHANGED vars

Next ==
  \/ \E w \in Worker : WorkerStep(w) \/ Exits(w)
  \/ \E t \in Task : Collect(t)
  \/ Main
  \/ Interrupt
  \/ NextRepo
  \/ Rest

Spec == Init /\ [][Next]_vars

-----------------------------------------------------------------------------
(* Properties                                                              *)

(* reset_abort() between repositories never revives a worker: no step of a *)
(* call or of a child happens after the flags were cleared.                *)
ResetRevivesNobody ==
  [][flags # {} /\ flags' = {} => \A w \in Worker : ~Busy(w) /\ ~Running(w)]_vars

(* A stage that returns has placed each finding in exactly one place, for  *)
(* the reason its model call gives: kept and judged findings were answered,*)
(* a refusal is disclosed as such, and no verdict is made of a failed call.*)
VerdictsTruthful ==
  \A t \in Task :
    /\ t \in verified => dropped[t] = "none" /\ asked[t] = "ok"
    /\ dropped[t] \in {"UNCONFIRMED", "FALSE_POSITIVE"} => asked[t] = "ok"
    /\ dropped[t] # "none" /\ asked[t] = "guardrail" => dropped[t] = "GUARDRAIL_BLOCKED"
    /\ main = "returned" => t \in Collected

(* The abstract specification: findings are taken up in their order, each  *)
(* is recorded once as its future says, S6 gives up if and only if enough  *)
(* refusals came before any success, and a stage that is out of its pool   *)
(* has nothing going on, also after the flags were cleared.                *)
Entry(f) == IF f = "tp_confident" THEN "verified" ELSE ReasonOf(f)
Ledger == [t \in Task |-> IF t \in verified THEN "verified" ELSE dropped[t]]

Contract == INSTANCE StageContract WITH
  EntryOf <- [f \in Verdicts \cup Raises |-> Entry(f)],
  Success <- "verified", Refusal <- "GUARDRAIL_BLOCKED", Gate <- GuardrailGate,
  standing <- Standing, ledger <- Ledger, stage <- StageState

ImplementsContract == Contract!Spec

(* The errors a finished report shows are errors: a stage that returns     *)
(* never counts a finding whose call its own abort cut off.                *)
NoAbortInReport ==
  main = "returned" => flags = {} /\ \A t \in Task : asked[t] \notin {"aborted", "none"}
=============================================================================
