--------------------------- MODULE MCBatchStaging ---------------------------
(* Instance of BatchStaging for TLC: two applications; entries 1 and 2 are *)
(* repositories of the same name in different ones, entry 3 is a local     *)
(* directory in the first, entry 4 a second repository of the second, with *)
(* a slug that is sanitised to the same directory as entry 2's.            *)
EXTENDS BatchStaging

MCNameOf == [e \in Entry |-> IF e = 2 THEN 1 ELSE e]
MCSlugOf == [e \in Entry |-> IF e = 4 THEN 2 ELSE e]
MCAppOf == [e \in Entry |-> IF e \in {2, 4} THEN 2 ELSE 1]
=============================================================================
