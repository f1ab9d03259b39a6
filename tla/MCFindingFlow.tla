--------------------------- MODULE MCFindingFlow ---------------------------
(* Six findings of two chunks. 1 and 2 share a key, 3 is close to 2, and 4 *)
(* overlaps 3 (one chunk votes with two runs); 5 is of another class,      *)
(* overlaps 3 and not 4; 6 is in a test.                                   *)
EXTENDS FindingFlow

Base == [file |-> "a", lo |-> 10, hi |-> 12, class |-> "injection", cwe |-> "",
         confidence |-> 5, chunk |-> "c1", inTests |-> FALSE, secret |-> FALSE,
         inInventory |-> TRUE, refs |-> {"source", "sink"}, entryOrSeed |-> FALSE,
         av |-> "N", pr |-> "N", says |-> {}]

MCDesc ==
  <<Base,
    [Base EXCEPT !.lo = 11, !.hi = 11, !.confidence = 7, !.chunk = "c2",
                 !.pr = "L"],
    [Base EXCEPT !.lo = 20, !.hi = 32, !.chunk = "c2", !.refs = {}],
    [Base EXCEPT !.lo = 30, !.hi = 40, !.says = {"no_auth"}],
    [Base EXCEPT !.lo = 15, !.hi = 21, !.class = "logic", !.av = "A",
                 !.chunk = "c2"],
    [Base EXCEPT !.inTests = TRUE, !.file = "t", !.chunk = "c2"]>>

MCRunsOf == [c \in Chunk |-> IF c = "c1" THEN 2 ELSE 1]
MCThreshold == [c \in Chunk |-> IF c = "c1" THEN 2 ELSE 1]
=============================================================================
