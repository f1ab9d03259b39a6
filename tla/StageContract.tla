---------------------------- MODULE StageContract ----------------------------
(***************************************************************************)
(* What S4 and S6 promise the orchestrator about their tasks (chunks,      *)
(* findings), without threads, processes, retries or abort flags: tasks    *)
(* are begun in their order, each ends once, what is recorded of it is how *)
(* it ended, a stage gives up exactly when enough tasks were refused and   *)
(* none succeeded, and nothing happens to a task any more once the stage   *)
(* has returned or raised.  DeepDive and Verify implement it.              *)
(***************************************************************************)
EXTENDS Naturals, FiniteSets

CONSTANTS
  NumTasks,
  EntryOf,   \* what is recorded of a task, by the way it ended
  Success, Refusal,   \* the entries that count for giving up
  Gate       \* the refusals that are enough

VARIABLES
  standing,  \* of each task: how it stands or ended
  ledger,    \* what is recorded of each task, "none" before
  stage      \* "open", "stopping", or how the stage was left

Task == 1..NumTasks
Ends == DOMAIN EntryOf

Init ==
  /\ standing = [t \in Task |-> "waiting"]
  /\ ledger = [t \in Task |-> "none"]
  /\ stage = "open"

(* A Ctrl-C while tasks are still being submitted leaves them behind: an   *)
(* escaped stage is over, but its tasks go on.                             *)
Over == stage \in {"returned", "raised"}

Begin(t) ==
  /\ ~Over /\ standing[t] = "waiting"
  /\ \A u \in Task : standing[u] = "waiting" => t <= u
  /\ standing' = [standing EXCEPT ![t] = "working"]
  /\ UNCHANGED <<ledger, stage>>

End(t) ==
  /\ ~Over /\ standing[t] = "working"
  /\ \E e \in Ends : standing' = [standing EXCEPT ![t] = e]
  /\ UNCHANGED <<ledger, stage>>

Hopeless(l) ==
  /\ \A t \in Task : l[t] # Success
  /\ Cardinality({t \in Task : l[t] = Refusal}) >= Gate

Record(t) ==
  /\ stage = "open" /\ standing[t] \in Ends /\ ledger[t] = "none"
  /\ ledger' = [ledger EXCEPT ![t] = EntryOf[standing[t]]]
  /\ stage' = IF Hopeless(ledger') THEN "stopping" ELSE "open"
  /\ UNCHANGED standing

(* Ctrl-C.                                                                 *)
Stop == stage = "open" /\ stage' = "stopping" /\ UNCHANGED <<standing, ledger>>

Withdraw ==
  /\ stage = "stopping"
  /\ standing' = [t \in Task |-> IF standing[t] = "waiting" THEN "withdrawn" ELSE standing[t]]
  /\ UNCHANGED <<ledger, stage>>

Return ==
  /\ stage = "open" /\ \A t \in Task : ledger[t] # "none"
  /\ stage' = "returned" /\ UNCHANGED <<standing, ledger>>

Raise ==
  /\ stage = "stopping" /\ \A t \in Task : standing[t] \in Ends \cup {"withdrawn"}
  /\ stage' = "raised" /\ UNCHANGED <<standing, ledger>>

Escape ==
  /\ stage = "open" /\ \A t \in Task : ledger[t] = "none"
  /\ stage' = "escaped" /\ UNCHANGED <<standing, ledger>>

Next ==
  \/ \E t \in Task : Begin(t) \/ End(t) \/ Record(t)
  \/ Stop \/ Withdraw \/ Return \/ Raise \/ Escape

Spec == Init /\ [][Next]_<<standing, ledger, stage>>
=============================================================================
