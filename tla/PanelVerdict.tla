----------------------------- MODULE PanelVerdict -----------------------------
(***************************************************************************)
(* How a validation session's opinions become a verdict: which persona     *)
(* reports count (persona_report_stash.py), what they agree on per gate    *)
(* (synthesis/_consensus.py), and what the gates are worth (scoring/).     *)
(* Pure operators; Validation uses them.                                   *)
(***************************************************************************)
EXTENDS Integers, FiniteSets, Sequences

Gates == {"root_cause", "instance_coverage", "no_new_vulnerabilities",
          "security_best_practices"}
Critical == {"root_cause", "no_new_vulnerabilities"}

(* GATE_WEIGHTS in ten-thousandths.                                        *)
Weight == [root_cause |-> 4300, instance_coverage |-> 2467,
           no_new_vulnerabilities |-> 1867, security_best_practices |-> 1366]

Statuses == {"pass", "partial", "fail", "skip", "invalid"}
Verdicts == {"Fixed", "Partially Fixed", "Not Fixed", "UNVERIFIABLE"}

(* _STATUS_CONSERVATIVE_RANK, the most severe first.                       *)
Rank == [fail |-> 1, partial |-> 2, pass |-> 3, skip |-> 4, invalid |-> 5]
MostConservative(S) ==
  IF S = {} THEN "invalid" ELSE CHOOSE s \in S : \A t \in S : Rank[s] <= Rank[t]

-----------------------------------------------------------------------------
(* The reports that count.  A candidate is one message of the session that *)
(* reads as a report: a persona, the finding it names, the gates it lists  *)
(* (with every status it lists for one), and whether it fits the schema.   *)

(* The first candidate of a persona about a finding hides the later ones,  *)
(* whether or not it is valid itself.                                      *)
FirstOfItsKind(cands, i) ==
  \A k \in 1..(i - 1) : \/ cands[k].persona # cands[i].persona
                        \/ cands[k].names # cands[i].names

ValidReports(cands) ==
  {cands[i] : i \in {k \in DOMAIN cands : FirstOfItsKind(cands, k) /\ cands[k].valid}}

(* The personas that list a gate in a report about this finding, and what  *)
(* each says of it: listing it twice is one vote, the more severe one.     *)
Voters(reports, id, g) ==
  {r \in reports : r.names = id /\ g \in DOMAIN r.gates}
VoteOf(r, g) == MostConservative(r.gates[g])

(* A skip is an abstention.                                                *)
Evaluated(voters, g) == {r \in voters : VoteOf(r, g) # "skip"}

Tally(voters, g, s) == Cardinality({r \in voters : VoteOf(r, g) = s})

(* The status most voters gave; of several, the most severe.               *)
Consensus(voters, g) ==
  LET opinions == Evaluated(voters, g)
      given == {VoteOf(r, g) : r \in opinions}
      top == {s \in given : \A t \in given : Tally(opinions, g, t) <= Tally(opinions, g, s)}
  IN IF opinions = {} THEN "skip" ELSE MostConservative(top)

(* synthesize_gates_for_finding: the gates somebody listed.                *)
Synthesized(reports, id) ==
  [g \in {x \in Gates : Voters(reports, id, x) # {}} |->
     Consensus(Voters(reports, id, g), g)]

-----------------------------------------------------------------------------
(* What the gates are worth.                                               *)

(* The multiplier, doubled: a partial earns half.                          *)
Credit(status) == CASE status = "pass" -> 2 [] status = "partial" -> 1 [] OTHER -> 0

Active(gates) == {g \in DOMAIN gates : gates[g] # "skip"}

(* The sum over the gates there are.                                       *)
Total(worth) == worth["root_cause"] + worth["instance_coverage"]
                  + worth["no_new_vulnerabilities"] + worth["security_best_practices"]

ActiveWeight(gates) ==
  Total([g \in Gates |-> IF g \in Active(gates) THEN Weight[g] ELSE 0])
Earned(gates) ==
  Total([g \in Gates |-> IF g \in Active(gates) THEN Weight[g] * Credit(gates[g]) ELSE 0])

(* score >= threshold percent, over the gates that were evaluated.         *)
AtLeast(gates, percent) == 100 * Earned(gates) >= 2 * percent * ActiveWeight(gates)

Ranked(gates) == CASE AtLeast(gates, 80) -> "Fixed"
                   [] AtLeast(gates, 50) -> "Partially Fixed"
                   [] OTHER -> "Not Fixed"

(* Every gate exactly once, and the critical ones evaluated.               *)
Scorable(gates) ==
  /\ DOMAIN gates = Gates
  /\ \A g \in Critical : gates[g] \notin {"skip", "invalid"}

(* A critical gate that is not clean caps the verdict below the top.       *)
Capped(gates, verdict) ==
  IF verdict = "Fixed" /\ \E g \in Critical : gates[g] \in {"partial", "fail"}
  THEN "Partially Fixed" ELSE verdict

(* score_fix.                                                              *)
Score(gates) ==
  IF Scorable(gates) THEN Capped(gates, Ranked(gates)) ELSE "UNVERIFIABLE"
=============================================================================
