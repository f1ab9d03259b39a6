---------------------------- MODULE CombinedReport ----------------------------
(***************************************************************************)
(* The report that S10 copies from the scan once, and that S10 and S11     *)
(* both write into: one Markdown heading and one SARIF result per finding  *)
(* of the scan, each with a remediation and a validation part.  A part is  *)
(* found by the title or the location of the finding it is about, which    *)
(* the headings do not say.  Models remediation_agent/report_augment and   *)
(* validation/report/augment.py as operators on the two documents.         *)
(***************************************************************************)
EXTENDS Integers, Sequences, FiniteSets

CONSTANTS
  Findings,       \* the findings of the scan
  Order,          \* the same, in the order of the report and of the folders
  Title,          \* the title of each
  Within,         \* the pairs of distinct titles of which one starts the other
  Location,       \* where each is, a (file, line)
  NoLocation      \* the location of a finding whose file is not known

NoPart == [of |-> "nobody"]
Skipped == [of |-> "skipped"]

EmptyReport == [f \in Findings |-> [remediation |-> NoPart, validation |-> NoPart]]

(* _ensure_combined: nothing is augmented before S10 made the copy.        *)
Exists(doc) == \E f \in Findings : doc[f].remediation # NoPart

-----------------------------------------------------------------------------
(* Markdown.                                                               *)

Overlap(t, u) == <<t, u>> \in Within \/ <<u, t>> \in Within

(* Which entry of a list of findings the heading of h is taken to be: the  *)
(* only one with its title, or else the only one whose title overlaps.     *)
HeadingMatches(h, list) ==
  LET exact == {i \in DOMAIN list : Title[list[i]] = Title[h]}
      close == {i \in DOMAIN list : Overlap(Title[list[i]], Title[h])}
      best == IF exact # {} THEN exact ELSE close
  IN IF Cardinality(best) = 1 THEN {list[i] : i \in best} ELSE {}

(* S10.  The old Remediation section goes with all that follows it, and    *)
(* the Validation section follows it.                                      *)
RemediatedMarkdown(md, list) ==
  [h \in Findings |->
     [remediation |-> IF HeadingMatches(h, list) = {} THEN Skipped
                      ELSE [of |-> CHOOSE f \in HeadingMatches(h, list) : TRUE],
      validation |-> NoPart]]

(* S11.  A heading that nothing matches keeps what it had.                 *)
ValidatedMarkdown(md, list, part) ==
  [h \in Findings |->
     IF HeadingMatches(h, list) = {} THEN md[h]
     ELSE [md[h] EXCEPT !.validation =
             part[CHOOSE f \in HeadingMatches(h, list) : TRUE]]]

-----------------------------------------------------------------------------
(* SARIF.                                                                  *)

(* The first result of the document in a set of them.                      *)
FirstResult(S) ==
  {f \in S : \E i \in DOMAIN Order :
     Order[i] = f /\ \A k \in 1..(i - 1) : Order[k] \notin S}

AtLocation(f) ==
  IF Location[f] = NoLocation THEN {} ELSE {r \in Findings : Location[r] = Location[f]}

(* A result's text starts with its title.                                  *)
StartsWith(f) == {r \in Findings : Title[r] = Title[f] \/ <<Title[f], Title[r]>> \in Within}

(* S10 takes the first result that starts with the title, S11 the only one.*)
RemediationResult(f) == FirstResult(IF AtLocation(f) # {} THEN AtLocation(f) ELSE StartsWith(f))
ValidationResult(f) ==
  IF AtLocation(f) # {} THEN FirstResult(AtLocation(f))
  ELSE IF Cardinality(StartsWith(f)) = 1 THEN StartsWith(f) ELSE {}

(* The last of the findings, in order, that lands on a result stays.       *)
LastOn(r, order, Result(_)) ==
  {order[i] : i \in {k \in DOMAIN order :
     r \in Result(order[k]) /\ \A j \in (k + 1)..Len(order) : r \notin Result(order[j])}}

RemediatedSarif(sarif, order) ==
  [r \in Findings |-> [sarif[r] EXCEPT !.remediation =
     IF LastOn(r, order, RemediationResult) = {} THEN Skipped
     ELSE [of |-> CHOOSE f \in LastOn(r, order, RemediationResult) : TRUE]]]

ValidatedSarif(sarif, order, part) ==
  [r \in Findings |->
     IF LastOn(r, order, ValidationResult) = {} THEN sarif[r]
     ELSE [sarif[r] EXCEPT !.validation =
             part[CHOOSE f \in LastOn(r, order, ValidationResult) : TRUE]]]
=============================================================================
