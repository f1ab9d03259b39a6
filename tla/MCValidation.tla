----------------------------- MODULE MCValidation -----------------------------
(* Two findings: the title of the one starts the title of the other; the   *)
(* file of the other is not known.                                         *)
EXTENDS Validation

CONSTANTS a, b

ReportOrder == <<a, b>>
Titles == [f \in Findings |-> IF f = a THEN "injection" ELSE "injection in reports"]
Prefixes == {<<"injection", "injection in reports">>}
Locations == [f \in Findings |-> IF f = a THEN "db.py:7" ELSE "unknown"]

(* Gates that all have one status, but for one.                            *)
AllBut(status, g, other) == [x \in Gates |-> IF x = g THEN other ELSE status]

(* A panel of three that differs on one gate; how its votes can fall.      *)
Votes == {<<"pass", "pass", "pass">>, <<"pass", "pass", "fail">>, <<"pass", "fail", "fail">>,
          <<"pass", "partial", "fail">>, <<"pass", "partial", "partial">>,
          <<"skip", "skip", "partial">>, <<"skip", "skip", "pass">>,
          <<"pass", "fail", "skip">>, <<"skip", "skip", "skip">>}
Names == <<"architect", "tester", "analyzer">>
Candidate(p, names, gates, valid) ==
  [persona |-> p, names |-> names, gates |-> [g \in DOMAIN gates |-> {gates[g]}],
   valid |-> valid]
Panel(v) ==
  [i \in 1..3 |-> Candidate(Names[i], "own", AllBut("pass", "no_new_vulnerabilities", v[i]), TRUE)]

AllPass == AllBut("pass", "root_cause", "pass")
Heard(end, answer, listed, cands) ==
  [end |-> end, answer |-> answer, listed |-> listed, cands |-> cands]
Empty == <<>>
Own(gates) == "own" :> gates

(* Panels whose reports do not all count: an invalid report hides the      *)
(* valid one after it; a gate is listed twice; a report is about another   *)
(* finding; nobody lists one of the gates; most have no opinion on one.    *)
OddPanels ==
  {<<Candidate("tester", "own", AllPass, FALSE), Candidate("tester", "own", AllPass, TRUE)>>,
   <<[Candidate("tester", "own", AllPass, TRUE) EXCEPT !.gates["root_cause"] = {"pass", "fail"}],
     Candidate("analyzer", "own", AllPass, TRUE)>>,
   <<Candidate("tester", "other", AllPass, TRUE),
     Candidate("analyzer", "own", AllBut("pass", "root_cause", "partial"), TRUE)>>,
   <<Candidate("tester", "own", [g \in Critical |-> "pass"], TRUE)>>,
   <<Candidate("tester", "own", AllBut("pass", "instance_coverage", "skip"), TRUE),
     Candidate("architect", "own", AllBut("pass", "instance_coverage", "skip"), TRUE),
     Candidate("analyzer", "own", AllBut("pass", "instance_coverage", "fail"), TRUE)>>}

Agreed == Panel(<<"pass", "pass", "pass">>)

DeepAgents ==
  {Heard("error", "own", Empty, Agreed), Heard("success", None, Empty, <<>>),
   Heard("success", None, Empty, Agreed), Heard("success", "blank", Empty, Agreed),
   Heard("success", "own", Own(AllPass), <<>>)}
  \cup {Heard("success", "own", Empty, Panel(v)) : v \in Votes}
  \cup {Heard("success", "own", Empty, c) : c \in OddPanels}

Sdk ==
  {Heard("no_cli", None, Empty, <<>>), Heard("error", "own", Own(AllPass), <<>>),
   Heard("stopped", "own", Own(AllPass), <<>>), Heard("success", None, Empty, <<>>),
   Heard("success", "nothing", Own(AllPass), <<>>), Heard("success", "blank", Own(AllPass), <<>>),
   Heard("success", "other", "other" :> AllPass, <<>>)}
  \cup {Heard("success", "own", Own(AllBut("pass", g, s)), <<>>) :
          g \in {"root_cause", "instance_coverage"}, s \in {"pass", "partial", "skip"}}

MCSessions == [deepagents |-> DeepAgents, sdk |-> Sdk]
Patches == [f \in Findings |-> IF f = a THEN 2 ELSE 1]
=============================================================================
