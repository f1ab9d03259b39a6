------------------------------- MODULE Lists -------------------------------
(* Lists, the places in them, and what edges lead to.                      *)
EXTENDS Integers, Sequences, FiniteSets

(* The members of a finite set of numbers, each once and in order: before  *)
(* the p-th there are p - 1.                                               *)
Ascending(S) ==
  [p \in 1 .. Cardinality(S) |->
     CHOOSE i \in S : Cardinality({j \in S : j < i}) = p - 1]

(* What stands at these places of a list, in its order.                    *)
Picked(list, places) ==
  LET order == Ascending(places) IN [p \in DOMAIN order |-> list[order[p]]]

(* A list without what it holds a second time.                             *)
Firsts(list) ==
  Picked(list, {i \in DOMAIN list : \A j \in DOMAIN list : j < i => list[j] # list[i]})

(* Where edges <<from, to>> lead from the members of a set in so many      *)
(* steps, and in any number of them: there are no more steps to take than  *)
(* places to be reached.                                                   *)
StepFrom(edges, set) == {e[2] : e \in {d \in edges : d[1] \in set}}
Within(edges, set, steps) ==
  LET within[n \in 0 .. steps] ==
        IF n = 0 THEN set
        ELSE LET nearer == within[n - 1] IN nearer \cup StepFrom(edges, nearer)
  IN  within[steps]
Closure(edges, set) == Within(edges, set, Cardinality({e[2] : e \in edges}))
=============================================================================
