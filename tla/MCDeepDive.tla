----------------------------- MODULE MCDeepDive -----------------------------
(* Instance of DeepDive for TLC: chunk 2 is a chunk with two runs (taint   *)
(* or specialist), the others have one.                                    *)
EXTENDS DeepDive

MCRunsOf == [t \in Task |-> IF t = 2 THEN 2 ELSE 1]
=============================================================================
