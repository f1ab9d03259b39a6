---------------------------- MODULE PatchLifecycle ----------------------------
(***************************************************************************)
(* What S10 and S11 together promise about the findings of a scan, without *)
(* sessions, workspaces, checkpoints, crashes or reports: S10 gives a      *)
(* finding a new patch, S11 gives a patch a verdict, and nothing else      *)
(* happens to it.  Validation implements it.                               *)
(***************************************************************************)
EXTENDS Naturals

CONSTANT Findings

VARIABLE life   \* per finding: which patch, on disk or not, and its standing

(* "none" is a patch nobody has judged; "rejected" are findings S10 itself *)
(* dismisses.  There is no standing that is about another patch.           *)
Verdicts == {"fixed", "not fixed", "unknown"}
FromS10 == {"none", "rejected"}

Unseen == [patch |-> 0, landed |-> FALSE, standing |-> "none"]

Init == life = [f \in Findings |-> Unseen]

(* New patches, with new standings.                                        *)
Patch(worked) ==
  \E landed \in [worked -> BOOLEAN], standing \in [worked -> FromS10] :
    life' = [f \in Findings |->
               IF f \in worked
               THEN [patch |-> life[f].patch + 1, landed |-> landed[f],
                     standing |-> standing[f]]
               ELSE life[f]]

(* A verdict on the patch that is there, if there is one: of one finding,  *)
(* and at once.  A rejected finding is not judged.                         *)
Judge(f) ==
  /\ life[f].landed /\ life[f].standing # "rejected"
  /\ \E verdict \in Verdicts : life' = [life EXCEPT ![f].standing = verdict]

Next == \/ \E worked \in SUBSET Findings : Patch(worked)
        \/ \E f \in Findings : Judge(f)

Spec == Init /\ [][Next]_life
=============================================================================
