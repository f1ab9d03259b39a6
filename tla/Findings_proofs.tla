-------------------------- MODULE Findings_proofs --------------------------
(***************************************************************************)
(* Theorems about the way of findings through a scan, for any set of       *)
(* findings, any replies of the models and any verdicts.                   *)
(*                                                                         *)
(* Every stage hands on a list it has picked from the one before, and      *)
(* refers to its members by position.  The lemmas about lists say what a   *)
(* pick keeps: its members, their number, and the place each one gets.     *)
(* ListShape says that nothing is in two lists at once and that their      *)
(* lengths add up to the raw count; HomeShape that what is still in a list *)
(* stands for itself; IndexShape where the indices of S7 point before S8   *)
(* has moved them; ReportShape what the report holds.                      *)
(***************************************************************************)
EXTENDS FindingFlow, Analysis, FiniteSetTheorems, FunctionTheorems, SequenceTheorems,
        WellFoundedInduction, TLAPS

-----------------------------------------------------------------------------
(* Counting.                                                               *)

(* A set of numbers has a least one: the intervals up to them are          *)
(* well-founded under inclusion.                                           *)
LEMMA LeastNumber ==
  ASSUME NEW S \in SUBSET Nat, S # {}
  PROVE  \E i \in S : \A k \in S : i <= k
<1> DEFINE T == {1..n : n \in S}
<1>1. T \subseteq FiniteSubsetsOf(Nat) /\ T # {}
  <2>1. \A n \in S : 1..n \in SUBSET Nat /\ IsFiniteSet(1..n)
    BY FS_Interval
  <2> QED BY <2>1 DEF FiniteSubsetsOf
<1>2. PICK x \in T : \A y \in T : <<y, x>> \notin StrictSubsetOrdering(Nat)
  BY <1>1, FS_StrictSubsetOrderingWellFounded, WFMin
<1>3. PICK i \in S : x = 1..i
  OBVIOUS
<1>4. ASSUME NEW k \in S, k < i PROVE FALSE
  <2>1. <<1..k, 1..i>> \in StrictSubsetOrdering(Nat)
    BY <1>4 DEF StrictSubsetOrdering
  <2> QED BY <2>1, <1>2, <1>3
<1> QED BY <1>4

(* A strict total order on S: before[i] is what comes before i.            *)
Ordered(S, before) ==
  /\ before \in [S -> SUBSET S]
  /\ \A i \in S : i \notin before[i]
  /\ \A i, j, k \in S : i \in before[j] /\ j \in before[k] => i \in before[k]
  /\ \A i, j \in S : i # j => i \in before[j] \/ j \in before[i]

(* The number of members before a member is its place, counted from 0: no  *)
(* two have the same, and every place is taken.                            *)
Placed(S, before) ==
  /\ \A i \in S : Cardinality(before[i]) \in 0 .. Cardinality(S) - 1
  /\ \A i, k \in S : Cardinality(before[i]) = Cardinality(before[k]) => i = k
  /\ \A p \in 0 .. Cardinality(S) - 1 : \E i \in S : Cardinality(before[i]) = p

(* In a finite set that is ordered, every member has a place of its own.   *)
LEMMA PlacesTaken ==
  ASSUME NEW S, IsFiniteSet(S), NEW before, Ordered(S, before)
  PROVE  Placed(S, before)
<1> USE DEF Ordered
<1> DEFINE n == Cardinality(S)
           count == [i \in S |-> Cardinality(before[i])]
<1>1. n \in Nat
  BY FS_CardinalityType
<1>2. ASSUME NEW i \in S
      PROVE  /\ IsFiniteSet(before[i]) /\ Cardinality(before[i]) \in Int
             /\ Cardinality(before[i]) \in 0 .. n - 1
  <2>1. before[i] \in SUBSET S /\ before[i] # S
    OBVIOUS
  <2>2. /\ IsFiniteSet(before[i]) /\ Cardinality(before[i]) <= n
        /\ n = Cardinality(before[i]) => S = before[i]
    BY <2>1, FS_Subset
  <2>3. Cardinality(before[i]) \in Nat
    BY <2>2, FS_CardinalityType
  <2> QED BY <1>1, <2>1, <2>2, <2>3
<1>3. ASSUME NEW i \in S, NEW k \in S, i \in before[k]
      PROVE  Cardinality(before[i]) < Cardinality(before[k])
  <2>1. before[i] \in SUBSET before[k] /\ before[i] # before[k]
    BY <1>3
  <2>2. /\ Cardinality(before[i]) <= Cardinality(before[k])
        /\ Cardinality(before[k]) = Cardinality(before[i]) => before[k] = before[i]
    BY <1>2, <2>1, FS_Subset
  <2> QED BY <1>2, <2>1, <2>2
<1>4. ASSUME NEW i \in S, NEW k \in S, Cardinality(before[i]) = Cardinality(before[k])
      PROVE  i = k
  <2>1. ~(Cardinality(before[i]) < Cardinality(before[k]))
        /\ ~(Cardinality(before[k]) < Cardinality(before[i]))
    BY <1>2, <1>4
  <2> QED BY <1>3, <2>1
<1>5. count \in Injection(S, 0 .. n - 1)
  <2>1. count \in [S -> 0 .. n - 1]
    BY <1>2
  <2>2. \A i, k \in DOMAIN count : count[i] = count[k] => i = k
    BY <1>4
  <2> QED BY <2>1, <2>2 DEF Injection, IsInjective
<1>6. IsFiniteSet(0 .. n - 1) /\ Cardinality(0 .. n - 1) = n
  <2> HIDE DEF n
  <2>1. 0 \in Int /\ n - 1 \in Int /\ (0 > n - 1 => n = 0)
    BY <1>1
  <2> QED BY <1>1, <2>1, FS_Interval
<1>7. count \in Surjection(S, 0 .. n - 1)
  BY <1>5, <1>6, FS_Injection
<1>8. \A p \in 0 .. n - 1 : \E i \in S : count[i] = p
  BY <1>7 DEF Surjection
<1> QED BY <1>2, <1>4, <1>8 DEF Placed

-----------------------------------------------------------------------------
(* Lists.                                                                  *)

(* 1..n has n members.                                                     *)
LEMMA IntervalSize ==
  ASSUME NEW n \in Nat
  PROVE  IsFiniteSet(1 .. n) /\ Cardinality(1 .. n) = n
<1>1. 1 \in Int /\ n \in Int /\ (IF 1 > n THEN 0 ELSE n - 1 + 1) = n
  OBVIOUS
<1> QED BY <1>1, FS_Interval

(* A function on 1..n is a list of length n.                               *)
LEMMA AsList ==
  ASSUME NEW T, NEW n \in Nat, NEW f \in [1 .. n -> T]
  PROVE  f \in Seq(T) /\ Len(f) = n /\ DOMAIN f = 1 .. n
<1>1. f \in Seq(T)
  BY SeqDef
<1>2. Len(f) \in Nat /\ DOMAIN f = 1 .. Len(f)
  BY <1>1, LenProperties
<1>3. 1 .. n = 1 .. Len(f)
  BY <1>2
<1>4. n = Len(f)
  BY <1>2, <1>3, IntervalSize
<1> QED BY <1>1, <1>4

(* Ascending lists the members of a finite set of numbers, each once: what *)
(* has k numbers of the set below it stands at place k + 1.                *)
LEMMA AscendingLists ==
  ASSUME NEW S \in SUBSET Int, IsFiniteSet(S)
  PROVE  /\ Cardinality(S) \in Nat
         /\ Ascending(S) \in [1 .. Cardinality(S) -> S]
         /\ \A p, q \in 1 .. Cardinality(S) :
              Ascending(S)[p] = Ascending(S)[q] => p = q
         /\ \A i \in S : /\ Cardinality({j \in S : j < i}) + 1 \in 1 .. Cardinality(S)
                         /\ Ascending(S)[Cardinality({j \in S : j < i}) + 1] = i
<1> DEFINE n == Cardinality(S)
           Below(i) == {j \in S : j < i}
           before == [i \in S |-> Below(i)]
<1>1. n \in Nat
  BY FS_CardinalityType
<1>2. before \in [S -> SUBSET S] /\ \A i, j \in S : i \in before[j] <=> i < j
  OBVIOUS
<1>3. \A i, j, k \in S : ~(i < i) /\ (i < j /\ j < k => i < k)
                           /\ (i # j => i < j \/ j < i)
  OBVIOUS
<1>4. Placed(S, before)
  <2> HIDE DEF before
  <2>1. Ordered(S, before)
    BY <1>2, <1>3 DEF Ordered
  <2> QED BY <2>1, PlacesTaken
<1>5. /\ \A i \in S : Cardinality(Below(i)) \in 0 .. n - 1
      /\ \A i, k \in S : Cardinality(Below(i)) = Cardinality(Below(k)) => i = k
      /\ \A p \in 0 .. n - 1 : \E i \in S : Cardinality(Below(i)) = p
  <2>1. \A i \in S : before[i] = Below(i)
    OBVIOUS
  <2> HIDE DEF before, Below
  <2> QED BY <2>1, <1>4 DEF Placed
<1>6. Ascending(S) = [p \in 1 .. n |-> CHOOSE i \in S : Cardinality(Below(i)) = p - 1]
  BY DEF Ascending
<1> HIDE DEF n, Below
<1>7. \A p \in 1 .. n : Ascending(S)[p] \in S /\ Cardinality(Below(Ascending(S)[p])) = p - 1
  <2> TAKE p \in 1 .. n
  <2>1. p - 1 \in 0 .. n - 1
    BY <1>1
  <2>2. \E i \in S : Cardinality(Below(i)) = p - 1
    BY <2>1, <1>5
  <2> QED BY <2>2, <1>6
<1>8. \A p, q \in 1 .. n : Ascending(S)[p] = Ascending(S)[q] => p = q
  <2>1. \A p, q \in 1 .. n : p - 1 = q - 1 => p = q
    BY <1>1
  <2> QED BY <1>7, <2>1
<1>9. \A i \in S : Cardinality(Below(i)) + 1 \in 1 .. n
                     /\ Ascending(S)[Cardinality(Below(i)) + 1] = i
  <2> TAKE i \in S
  <2>1. Cardinality(Below(i)) \in 0 .. n - 1
    BY <1>5
  <2>2. Cardinality(Below(i)) + 1 \in 1 .. n
        /\ (Cardinality(Below(i)) + 1) - 1 = Cardinality(Below(i))
    BY <1>1, <2>1
  <2>3. /\ Ascending(S)[Cardinality(Below(i)) + 1] \in S
        /\ Cardinality(Below(Ascending(S)[Cardinality(Below(i)) + 1]))
             = Cardinality(Below(i))
    BY <2>2, <1>7
  <2> QED BY <2>2, <2>3, <1>5
<1>10. Ascending(S) \in [1 .. n -> S]
  BY <1>6, <1>7
<1> QED BY <1>1, <1>8, <1>9, <1>10 DEF n, Below

(* What a pick from a list holds: the members at the places picked, as     *)
(* many as there are places, each where its place comes among them; and a  *)
(* pick from a list without repetitions has none.                          *)
LEMMA PickedLists ==
  ASSUME NEW T, NEW list \in Seq(T), NEW places \in SUBSET (DOMAIN list)
  PROVE  /\ Picked(list, places) \in Seq(T)
         /\ IsFiniteSet(places) /\ Cardinality(places) \in Nat
         /\ Len(Picked(list, places)) = Cardinality(places)
         /\ DOMAIN Picked(list, places) = 1 .. Cardinality(places)
         /\ Range(Picked(list, places)) = {list[i] : i \in places}
         /\ IsInjective(list) => IsInjective(Picked(list, places))
         /\ \A i \in places :
              LET p == Cardinality({j \in places : j < i}) + 1
              IN  p \in DOMAIN Picked(list, places) /\ Picked(list, places)[p] = list[i]
<1> DEFINE n == Cardinality(places)
           order == Ascending(places)
           P(i) == Cardinality({j \in places : j < i}) + 1
<1>1. /\ DOMAIN list = 1 .. Len(list) /\ Len(list) \in Nat
      /\ \A i \in DOMAIN list : list[i] \in T
  BY LenProperties
<1>2. IsFiniteSet(places) /\ places \in SUBSET Int
  <2>1. IsFiniteSet(1 .. Len(list))
    BY <1>1, FS_Interval
  <2> QED BY <1>1, <2>1, FS_Subset
<1>3. /\ n \in Nat /\ order \in [1 .. n -> places]
      /\ \A p, q \in 1 .. n : order[p] = order[q] => p = q
      /\ \A i \in places : P(i) \in 1 .. n /\ order[P(i)] = i
  BY <1>2, AscendingLists
<1> HIDE DEF n, order, P
<1>4. Picked(list, places) = [p \in 1 .. n |-> list[order[p]]]
  <2>1. Picked(list, places) = [p \in DOMAIN order |-> list[order[p]]]
    BY DEF Picked, order
  <2> QED BY <1>3, <2>1
<1>5. Picked(list, places) \in [1 .. n -> T]
  BY <1>1, <1>3, <1>4
<1>6. /\ Picked(list, places) \in Seq(T) /\ Len(Picked(list, places)) = n
      /\ DOMAIN Picked(list, places) = 1 .. n
  BY <1>3, <1>5, AsList
<1>7. \A i \in places : P(i) \in 1 .. n /\ Picked(list, places)[P(i)] = list[i]
  BY <1>3, <1>4
<1>8. Range(Picked(list, places)) = {list[i] : i \in places}
  BY <1>3, <1>4, <1>6, <1>7 DEF Range
<1>9. ASSUME IsInjective(list) PROVE IsInjective(Picked(list, places))
  <2>1. \A p, q \in 1 .. n : list[order[p]] = list[order[q]] => p = q
    BY <1>3, <1>9 DEF IsInjective
  <2> QED BY <1>4, <1>6, <2>1 DEF IsInjective
<1> QED BY <1>2, <1>3, <1>6, <1>7, <1>8, <1>9 DEF n, P

(* The members of a list without repetitions are as many as it is long.    *)
LEMMA DistinctLength ==
  ASSUME NEW T, NEW list \in Seq(T), IsInjective(list)
  PROVE  IsFiniteSet(Range(list)) /\ Cardinality(Range(list)) = Len(list)
<1>1. list \in [1 .. Len(list) -> T] /\ Len(list) \in Nat /\ DOMAIN list = 1 .. Len(list)
  BY LenProperties
<1>2. list \in Injection(1 .. Len(list), T)
  BY <1>1 DEF Injection
<1>3. list \in Bijection(1 .. Len(list), Range(list))
  BY <1>2, Fun_InjMeansBijImage
<1>4. IsFiniteSet(1 .. Len(list)) /\ Cardinality(1 .. Len(list)) = Len(list)
  BY <1>1, IntervalSize
<1> QED BY <1>3, <1>4, FS_Bijection DEF ExistsBijection

(* Two picks that share no place and leave none out are together as long   *)
(* as the list.                                                            *)
LEMMA PickedSplit ==
  ASSUME NEW T, NEW list \in Seq(T), NEW A, NEW B,
         A \cup B = DOMAIN list, A \cap B = {}
  PROVE  /\ Len(Picked(list, A)) \in Nat /\ Len(Picked(list, B)) \in Nat
         /\ Len(Picked(list, A)) + Len(Picked(list, B)) = Len(list)
<1>1. A \in SUBSET (DOMAIN list) /\ B \in SUBSET (DOMAIN list)
  OBVIOUS
<1>2. /\ IsFiniteSet(A) /\ Cardinality(A) \in Nat /\ Len(Picked(list, A)) = Cardinality(A)
      /\ IsFiniteSet(B) /\ Cardinality(B) \in Nat /\ Len(Picked(list, B)) = Cardinality(B)
  BY <1>1, PickedLists
<1>3. Cardinality(DOMAIN list) = Len(list)
  BY LenProperties, IntervalSize
<1>4. Cardinality(DOMAIN list) = Cardinality(A) + Cardinality(B) - Cardinality({})
  <2>1. Cardinality(A \cup B) = Cardinality(A) + Cardinality(B) - Cardinality(A \cap B)
    BY <1>2, FS_Union
  <2> QED BY <2>1
<1>5. Cardinality({}) = 0
  BY FS_EmptySet
<1>6. Cardinality(DOMAIN list) = Cardinality(A) + Cardinality(B)
  BY <1>2, <1>4, <1>5
<1> QED BY <1>2, <1>3, <1>6

-----------------------------------------------------------------------------
(* The collapse of S4.                                                     *)

(* The most confident finding of a key: it has the key.  (Of findings with *)
(* a key, one with the fewest surer ones has none that is surer.)          *)
LEMMA SurestHasKey ==
  ASSUME NEW list \in Seq(Finding), NEW k, \E i \in DOMAIN list : Key(list[i]) = k
  PROVE  Surest(list, k) \in Finding /\ Key(Surest(list, k)) = k
<1> DEFINE at == {i \in DOMAIN list : Key(list[i]) = k}
           surer == [i \in at |-> {j \in at : Surer(list[j], list[i])}]
           best == {i \in at : \A j \in at : ~Surer(list[j], list[i])}
<1>1. /\ DOMAIN list = 1 .. Len(list) /\ Len(list) \in Nat
      /\ \A i \in DOMAIN list : list[i] \in Finding
  BY LenProperties
<1>2. IsFiniteSet(at) /\ at # {}
  <2>1. IsFiniteSet(DOMAIN list)
    BY <1>1, IntervalSize
  <2> QED BY <2>1, FS_Subset
<1>3. \A i, j, h \in at : /\ ~Surer(list[i], list[i])
                          /\ Surer(list[i], list[j]) /\ Surer(list[j], list[h])
                               => Surer(list[i], list[h])
  <2>1. \A i \in at : Desc[list[i]].confidence \in Int
    BY <1>1, FlowAssumption
  <2> DEFINE c(i) == Desc[list[i]].confidence
  <2>2. \A i, j, h \in at : ~(c(i) > c(i)) /\ (c(i) > c(j) /\ c(j) > c(h) => c(i) > c(h))
    <3>1. \A i \in at : c(i) \in Int
      BY <2>1
    <3> HIDE DEF c
    <3> QED BY <3>1
  <2> QED BY <2>2 DEF Surer
<1>4. surer \in [at -> SUBSET at] /\ \A i, j \in at : j \in surer[i] <=> Surer(list[j], list[i])
  OBVIOUS
<1> HIDE DEF surer
<1>5. \A i \in at : IsFiniteSet(surer[i]) /\ Cardinality(surer[i]) \in Nat
  BY <1>2, <1>4, FS_Subset, FS_CardinalityType
<1>6. PICK i \in at : \A j \in at : Cardinality(surer[i]) <= Cardinality(surer[j])
  <2> DEFINE counts == {Cardinality(surer[i]) : i \in at}
  <2>1. counts \in SUBSET Nat /\ counts # {}
    BY <1>2, <1>5
  <2>2. PICK c \in counts : \A d \in counts : c <= d
    BY <2>1, LeastNumber
  <2> QED BY <2>2
<1>7. ASSUME NEW j \in at, Surer(list[j], list[i]) PROVE FALSE
  <2>1. surer[j] \in SUBSET surer[i] /\ j \in surer[i] /\ j \notin surer[j]
    BY <1>3, <1>4, <1>7
  <2>2. /\ Cardinality(surer[j]) <= Cardinality(surer[i])
        /\ Cardinality(surer[i]) = Cardinality(surer[j]) => surer[i] = surer[j]
    BY <1>5, <2>1, FS_Subset
  <2> QED BY <1>5, <1>6, <2>1, <2>2
<1>8. best # {} /\ best \in SUBSET Nat
  BY <1>1, <1>6, <1>7
<1>9. \E p \in best : \A j \in best : p <= j
  BY <1>8, LeastNumber
<1>10. Surest(list, k) = list[CHOOSE p \in best : \A j \in best : p <= j]
  BY DEF Surest
<1> QED BY <1>1, <1>9, <1>10

(* The collapse leaves one finding per key, so none twice.                 *)
LEMMA OnePerKeyDistinct ==
  ASSUME NEW list \in Seq(Finding)
  PROVE  OnePerKey(list) \in Seq(Finding) /\ IsInjective(OnePerKey(list))
<1> DEFINE places == {i \in DOMAIN list : \A j \in DOMAIN list :
                                j < i => Key(list[j]) # Key(list[i])}
           first == Picked(list, places)
           n == Cardinality(places)
<1>1. /\ DOMAIN list = 1 .. Len(list) /\ Len(list) \in Nat
      /\ \A i \in DOMAIN list : list[i] \in Finding
  BY LenProperties
<1>2. /\ first \in Seq(Finding) /\ n \in Nat /\ IsFiniteSet(places)
      /\ DOMAIN first = 1 .. n
  BY PickedLists
<1>3. \A i, j \in places : Key(list[i]) = Key(list[j]) => i = j
  BY <1>1
<1>4. \A p, q \in 1 .. n : Key(first[p]) = Key(first[q]) => p = q
  <2>1. places \in SUBSET Int
    BY <1>1
  <2>2. /\ Ascending(places) \in [1 .. n -> places]
        /\ \A p, q \in 1 .. n : Ascending(places)[p] = Ascending(places)[q] => p = q
    BY <1>2, <2>1, AscendingLists
  <2>3. \A p \in 1 .. n : first[p] = list[Ascending(places)[p]]
    BY <2>2 DEF Picked
  <2> HIDE DEF places, first, n
  <2> QED BY <2>2, <2>3, <1>3
<1>5. \A p \in 1 .. n : \E i \in DOMAIN list : Key(list[i]) = Key(first[p])
  <2>1. Range(first) = {list[i] : i \in places}
    BY PickedLists
  <2> HIDE DEF first, n
  <2> QED BY <1>2, <2>1 DEF Range
<1>6. OnePerKey(list) = [p \in DOMAIN first |-> Surest(list, Key(first[p]))]
  BY DEF OnePerKey
<1> HIDE DEF first, n, places
<1>7. \A p \in 1 .. n : /\ Surest(list, Key(first[p])) \in Finding
                        /\ Key(Surest(list, Key(first[p]))) = Key(first[p])
  BY <1>5, SurestHasKey
<1>8. OnePerKey(list) \in [1 .. n -> Finding]
  BY <1>2, <1>6, <1>7
<1>9. OnePerKey(list) \in Seq(Finding) /\ DOMAIN OnePerKey(list) = 1 .. n
  BY <1>2, <1>8, AsList
<1>10. \A p, q \in 1 .. n : OnePerKey(list)[p] = OnePerKey(list)[q] => p = q
  BY <1>2, <1>4, <1>6, <1>7
<1> QED BY <1>9, <1>10 DEF IsInjective

-----------------------------------------------------------------------------
(* Who is absorbed by whom.                                                *)

(* Every absorbed place points back to an earlier one; the rest to 0.      *)
Backward(list, canon) ==
  /\ canon \in [DOMAIN list -> 0 .. Len(list)]
  /\ \A j \in DOMAIN list : canon[j] < j

(* The place that FirstSame names is an earlier one, or none.              *)
LEMMA FirstSameEarlier ==
  ASSUME NEW list, NEW canon, NEW j \in Nat \ {0}
  PROVE  FirstSame(list, canon, j) \in 0 .. j - 1
<1> DEFINE same == {i \in 1 .. j - 1 : canon[i] = 0 /\ SameBug(list[i], list[j])}
<1>1. CASE same = {}
  BY <1>1 DEF FirstSame
<1>2. CASE same # {}
  <2>1. PICK i \in same : \A k \in same : i <= k
    <3>1. same \in SUBSET Nat
      OBVIOUS
    <3> HIDE DEF same
    <3> QED BY <1>2, <3>1, LeastNumber
  <2>2. FirstSame(list, canon, j) = CHOOSE p \in same : \A k \in same : p <= k
    BY <1>2 DEF FirstSame
  <2> HIDE DEF same
  <2>3. FirstSame(list, canon, j) \in same
    BY <2>1, <2>2
  <2> QED BY <2>3 DEF same
<1> QED BY <1>1, <1>2

(* The recursion of the trivial pass has a solution: for the shortest      *)
(* prefix of the list without one, that of the prefix before it could be   *)
(* extended, since FirstSame looks at earlier places only.                 *)
LEMMA TrivialDefined ==
  ASSUME NEW T, NEW list \in Seq(T)
  PROVE  TrivialCanonical(list)
           = [j \in DOMAIN list |-> FirstSame(list, TrivialCanonical(list), j)]
<1> DEFINE n == Len(list)
           Solves(f, m) == f = [j \in 1 .. m |-> FirstSame(list, f, j)]
           stuck == {m \in 0 .. n : \A f : ~Solves(f, m)}
<1>1. n \in Nat /\ DOMAIN list = 1 .. n
  BY LenProperties
<1>2. stuck = {}
  <2> SUFFICES ASSUME stuck # {} PROVE FALSE
    OBVIOUS
  <2>1. stuck \in SUBSET Nat
    BY <1>1
  <2>2. PICK m \in stuck : \A k \in stuck : m <= k
    BY <2>1, LeastNumber
  <2>3. m # 0
    <3>1. Solves(<<>>, 0)
      OBVIOUS
    <3> QED BY <3>1
  <2>4. m \in 1 .. n /\ m - 1 \in 0 .. n /\ m - 1 \notin stuck
    <3>1. m \in 0 .. n
      OBVIOUS
    <3>2. m \in 1 .. n /\ m - 1 \in 0 .. n /\ ~(m <= m - 1)
      <4> HIDE DEF n, stuck
      <4> QED BY <1>1, <2>3, <3>1
    <3> HIDE DEF stuck
    <3> QED BY <2>2, <3>2
  <2>5. PICK f : Solves(f, m - 1)
    BY <2>4
  <2> DEFINE g == [j \in 1 .. m |-> FirstSame(list, f, j)]
  <2>6. \A j \in 1 .. m : FirstSame(list, g, j) = FirstSame(list, f, j)
    <3> TAKE j \in 1 .. m
    <3>1. \A i \in 1 .. j - 1 : g[i] = f[i]
      BY <1>1, <2>4, <2>5
    <3>2. {i \in 1 .. j - 1 : g[i] = 0 /\ SameBug(list[i], list[j])}
            = {i \in 1 .. j - 1 : f[i] = 0 /\ SameBug(list[i], list[j])}
      <4> HIDE DEF g, Solves
      <4> QED BY <3>1
    <3> DEFINE Least(S) == IF S = {} THEN 0 ELSE CHOOSE i \in S : \A k \in S : i <= k
               Same(h) == {i \in 1 .. j - 1 : h[i] = 0 /\ SameBug(list[i], list[j])}
    <3>3. \A h : FirstSame(list, h, j) = Least(Same(h))
      BY DEF FirstSame
    <3>4. Same(g) = Same(f)
      BY <3>2
    <3> HIDE DEF g, Solves, Least, Same
    <3> QED BY <3>3, <3>4
  <2>7. Solves(g, m)
    BY <2>6
  <2> QED BY <2>2, <2>7
<1>3. \E f : Solves(f, n)
  <2> HIDE DEF Solves
  <2> QED BY <1>1, <1>2
<1>4. \E f : f = [j \in DOMAIN list |-> FirstSame(list, f, j)]
  BY <1>1, <1>3
<1>5. TrivialCanonical(list) = CHOOSE f : f = [j \in DOMAIN list |-> FirstSame(list, f, j)]
  BY DEF TrivialCanonical
<1> QED BY <1>4, <1>5

(* The trivial pass points back.                                           *)
LEMMA TrivialBackward ==
  ASSUME NEW T, NEW list \in Seq(T)
  PROVE  Backward(list, TrivialCanonical(list))
<1> DEFINE canon == TrivialCanonical(list)
<1>1. DOMAIN list = 1 .. Len(list) /\ Len(list) \in Nat
  BY LenProperties
<1>2. canon = [j \in DOMAIN list |-> FirstSame(list, canon, j)]
  BY TrivialDefined
<1> HIDE DEF canon
<1>3. \A j \in DOMAIN list : FirstSame(list, canon, j) \in 0 .. j - 1
  BY <1>1, FirstSameEarlier
<1>4. \A j \in DOMAIN list : canon[j] \in 0 .. j - 1 /\ canon[j] = FirstSame(list, canon, j)
  BY <1>2, <1>3
<1>5. canon \in [DOMAIN list -> 0 .. Len(list)]
  BY <1>1, <1>2, <1>4
<1> QED BY <1>1, <1>4, <1>5 DEF Backward, canon

(* The semantic pass, whatever the model replies, points back as well.     *)
LEMMA SemanticBackward ==
  ASSUME NEW T, NEW list \in Seq(T), NEW canon, Backward(list, canon),
         NEW c \in SemanticCanonical(canon)
  PROVE  Backward(list, c)
<1>1. DOMAIN list = 1 .. Len(list) /\ Len(list) \in Nat
  BY LenProperties
<1>2. DOMAIN canon = DOMAIN list /\ Len(canon) = Len(list)
  BY <1>1, AsList DEF Backward
<1>3. c \in [DOMAIN list -> 0 .. Len(list)]
  BY <1>2 DEF SemanticCanonical
<1>4. \A j \in DOMAIN list : c[j] = 0 \/ c[j] < j \/ c[j] = canon[j]
  BY <1>2 DEF SemanticCanonical
<1>5. \A j \in DOMAIN list : c[j] < j
  BY <1>1, <1>4 DEF Backward
<1> QED BY <1>3, <1>5 DEF Backward

(* Every place has a root, reached by following the pointers back: a place *)
(* that is not absorbed.  One that is not absorbed is its own.             *)
LEMMA RootFound ==
  ASSUME NEW T, NEW list \in Seq(T), NEW canon, Backward(list, canon)
  PROVE  \A i \in DOMAIN list : /\ Root(canon, i) \in DOMAIN list
                                /\ canon[Root(canon, i)] = 0
                                /\ canon[i] = 0 => Root(canon, i) = i
<1> DEFINE n == Len(list)
           Next1(f, j) == IF canon[j] = 0 THEN j ELSE f[canon[j]]
           Solves(f, m) == f = [j \in 1 .. m |-> Next1(f, j)]
           stuck == {m \in 0 .. n : \A f : ~Solves(f, m)}
<1>1. /\ n \in Nat /\ DOMAIN list = 1 .. n /\ DOMAIN canon = 1 .. n
      /\ \A j \in 1 .. n : canon[j] \in Nat /\ canon[j] < j
  BY LenProperties DEF Backward
<1>2. stuck = {}
  <2> SUFFICES ASSUME stuck # {} PROVE FALSE
    OBVIOUS
  <2>1. stuck \in SUBSET Nat
    BY <1>1
  <2>2. PICK m \in stuck : \A k \in stuck : m <= k
    BY <2>1, LeastNumber
  <2>3. m # 0
    <3>1. Solves(<<>>, 0)
      OBVIOUS
    <3> QED BY <3>1
  <2>4. m \in 1 .. n /\ m - 1 \in 0 .. n /\ m - 1 \notin stuck
    <3>1. m \in 0 .. n
      OBVIOUS
    <3>2. m \in 1 .. n /\ m - 1 \in 0 .. n /\ ~(m <= m - 1)
      <4> HIDE DEF n, stuck
      <4> QED BY <1>1, <2>3, <3>1
    <3> HIDE DEF stuck
    <3> QED BY <2>2, <3>2
  <2>5. PICK f : Solves(f, m - 1)
    BY <2>4
  <2> DEFINE g == [j \in 1 .. m |-> Next1(f, j)]
  <2>6. \A j \in 1 .. m : Next1(g, j) = Next1(f, j)
    <3> TAKE j \in 1 .. m
    <3>1. CASE canon[j] = 0
      BY <3>1
    <3>2. CASE canon[j] # 0
      <4>1. canon[j] \in 1 .. m - 1 /\ canon[j] \in 1 .. m
        BY <1>1, <2>4, <3>2
      <4>2. g[canon[j]] = f[canon[j]]
        BY <2>5, <4>1
      <4> QED BY <3>2, <4>2
    <3> QED BY <3>1, <3>2
  <2>7. Solves(g, m)
    BY <2>6
  <2> QED BY <2>2, <2>7
<1>3. \E f : Solves(f, n)
  <2> HIDE DEF Solves
  <2> QED BY <1>1, <1>2
<1> DEFINE root == CHOOSE f : f = [j \in DOMAIN canon |-> Next1(f, j)]
<1>4. root = [j \in 1 .. n |-> Next1(root, j)]
  BY <1>1, <1>3
<1>5. \A i : Root(canon, i) = root[i]
  BY DEF Root
<1> HIDE DEF root
<1> DEFINE Good(i) == root[i] \in 1 .. n /\ canon[root[i]] = 0
           bad == {i \in 1 .. n : ~Good(i)}
<1>6. bad = {}
  <2> SUFFICES ASSUME bad # {} PROVE FALSE
    OBVIOUS
  <2>1. PICK i \in bad : \A k \in bad : i <= k
    <3>1. bad \in SUBSET Nat
      BY <1>1
    <3> HIDE DEF bad
    <3> QED BY <3>1, LeastNumber
  <2>2. CASE canon[i] = 0
    BY <1>4, <2>1, <2>2
  <2>3. CASE canon[i] # 0
    <3>1. canon[i] \in 1 .. n /\ canon[i] \notin bad
      BY <1>1, <2>1, <2>3
    <3>2. root[i] = root[canon[i]]
      BY <1>4, <2>1, <2>3
    <3> QED BY <2>1, <3>1, <3>2
  <2> QED BY <2>2, <2>3
<1>7. \A i \in 1 .. n : canon[i] = 0 => root[i] = i
  BY <1>4
<1> QED BY <1>1, <1>5, <1>6, <1>7

(* The one that takes the place of a finding: the root of its place in the *)
(* list, itself only if it is not absorbed or not in the list.             *)
LEMMA AbsorberFound ==
  ASSUME NEW list \in Seq(Finding), IsInjective(list),
         NEW canon, Backward(list, canon)
  PROVE  /\ \A j \in DOMAIN list : Absorber(list, canon, list[j]) = list[Root(canon, j)]
         /\ \A f : f \notin Range(list) => Absorber(list, canon, f) = f
         /\ \A f \in Finding : Absorber(list, canon, f) \in Finding
         /\ \A j \in DOMAIN list : Absorber(list, canon, list[j]) = list[j] <=> canon[j] = 0
<1>1. \A j \in DOMAIN list : list[j] \in Finding
  BY LenProperties
<1>2. ASSUME NEW j \in DOMAIN list
      PROVE  Absorber(list, canon, list[j]) = list[Root(canon, j)]
  <2> DEFINE at == CHOOSE i \in DOMAIN list : list[i] = list[j]
  <2>1. at = j
    BY <1>2 DEF IsInjective
  <2>2. Absorber(list, canon, list[j]) = list[Root(canon, at)]
    BY <1>2 DEF Absorber
  <2> QED BY <2>1, <2>2
<1>3. \A f : f \notin Range(list) => Absorber(list, canon, f) = f
  BY DEF Absorber, Range
<1>4. \A j \in DOMAIN list : /\ Root(canon, j) \in DOMAIN list
                             /\ canon[Root(canon, j)] = 0
                             /\ canon[j] = 0 => Root(canon, j) = j
  BY RootFound
<1>5. \A f \in Finding : Absorber(list, canon, f) \in Finding
  <2>1. \A j \in DOMAIN list : Absorber(list, canon, list[j]) \in Finding
    BY <1>1, <1>2, <1>4
  <2> QED BY <1>3, <2>1 DEF Range
<1>6. \A j \in DOMAIN list : Absorber(list, canon, list[j]) = list[j] <=> canon[j] = 0
  BY <1>2, <1>4 DEF IsInjective
<1> QED BY <1>2, <1>3, <1>5, <1>6

(* What a stage hands on after a removal of duplicates: those that are not *)
(* absorbed, in order, each at the place NewIndex says.                    *)
LEMMA CanonicalsLists ==
  ASSUME NEW list \in Seq(Finding), IsInjective(list),
         NEW canon, Backward(list, canon)
  PROVE  /\ Canonicals(list, canon) \in Seq(Finding)
         /\ IsInjective(Canonicals(list, canon))
         /\ Range(Canonicals(list, canon)) = {list[i] : i \in {j \in DOMAIN list : canon[j] = 0}}
         /\ \A i \in DOMAIN list : canon[i] = 0 =>
              /\ NewIndex(canon, i) \in Nat
              /\ NewIndex(canon, i) + 1 \in DOMAIN Canonicals(list, canon)
              /\ Canonicals(list, canon)[NewIndex(canon, i) + 1] = list[i]
<1> DEFINE open == {i \in DOMAIN list : canon[i] = 0}
<1>1. DOMAIN list = 1 .. Len(list) /\ Len(list) \in Nat
  BY LenProperties
<1>2. Canonicals(list, canon) = Picked(list, open)
  BY DEF Canonicals
<1>3. open \in SUBSET (DOMAIN list)
  OBVIOUS
<1>4. ASSUME NEW i \in open
      PROVE  /\ NewIndex(canon, i) \in Nat
             /\ NewIndex(canon, i) + 1 \in DOMAIN Picked(list, open)
             /\ Picked(list, open)[NewIndex(canon, i) + 1] = list[i]
  <2>1. {j \in 1 .. i - 1 : canon[j] = 0} = {j \in open : j < i}
    BY <1>1
  <2>2. NewIndex(canon, i) = Cardinality({j \in open : j < i})
    BY <2>1 DEF NewIndex
  <2>3. {j \in open : j < i} \in SUBSET open
    OBVIOUS
  <2> HIDE DEF open
  <2>4. IsFiniteSet(open)
    BY <1>3, PickedLists
  <2>5. Cardinality({j \in open : j < i}) \in Nat
    BY <2>3, <2>4, FS_Subset, FS_CardinalityType
  <2>6. /\ Cardinality({j \in open : j < i}) + 1 \in DOMAIN Picked(list, open)
        /\ Picked(list, open)[Cardinality({j \in open : j < i}) + 1] = list[i]
    BY <1>3, <1>4, PickedLists
  <2> QED BY <2>2, <2>5, <2>6
<1>5. /\ Picked(list, open) \in Seq(Finding) /\ IsInjective(Picked(list, open))
      /\ Range(Picked(list, open)) = {list[i] : i \in open}
  <2> HIDE DEF open
  <2> QED BY <1>3, PickedLists
<1> QED BY <1>2, <1>4, <1>5

-----------------------------------------------------------------------------
(* The dropped list.                                                       *)

Reasons == {"FALSE_POSITIVE", "DUPLICATE", "VERIFY_ERROR", "GUARDRAIL_BLOCKED",
            "EXCLUDED", "UNCONFIRMED"}

DropRecord == [finding : Finding, reason : Reasons, canonical : SUBSET Nat]

Names(drops) == {drops[i].finding : i \in DOMAIN drops}
Once(drops) == \A i, j \in DOMAIN drops : drops[i].finding = drops[j].finding => i = j

(* Two dropped lists that share no finding, one after the other.           *)
LEMMA DropsJoin ==
  ASSUME NEW d \in Seq(DropRecord), NEW e \in Seq(DropRecord),
         Once(d), Once(e), Names(d) \cap Names(e) = {}
  PROVE  /\ d \o e \in Seq(DropRecord) /\ Once(d \o e)
         /\ Names(d \o e) = Names(d) \cup Names(e)
         /\ Len(d \o e) = Len(d) + Len(e)
         /\ \A i \in DOMAIN (d \o e) :
              \/ i \in DOMAIN d /\ (d \o e)[i] = d[i]
              \/ i - Len(d) \in DOMAIN e /\ (d \o e)[i] = e[i - Len(d)]
<1> DEFINE n == Len(d)
           m == Len(e)
           j == d \o e
<1>1. DOMAIN d = 1 .. n /\ n \in Nat /\ DOMAIN e = 1 .. m /\ m \in Nat
  BY LenProperties
<1>2. /\ j \in Seq(DropRecord) /\ Len(j) = n + m /\ DOMAIN j = 1 .. n + m
      /\ \A i \in 1 .. n + m : j[i] = IF i <= n THEN d[i] ELSE e[i - n]
  <2>1. j \in Seq(DropRecord) /\ Len(j) = n + m
        /\ \A i \in 1 .. n + m : j[i] = IF i <= n THEN d[i] ELSE e[i - n]
    BY ConcatProperties
  <2> HIDE DEF j, n, m
  <2> QED BY <2>1, LenProperties
<1> HIDE DEF j, n, m
<1>3. \A i \in 1 .. n + m : \/ i \in 1 .. n /\ j[i] = d[i]
                            \/ i - n \in 1 .. m /\ i > n /\ j[i] = e[i - n]
  BY <1>1, <1>2
<1>4. \A i \in 1 .. n : i \in 1 .. n + m /\ j[i] = d[i]
  BY <1>1, <1>2
<1>5. \A i \in 1 .. m : i + n \in 1 .. n + m /\ j[i + n] = e[i]
  <2> TAKE i \in 1 .. m
  <2>1. i + n \in 1 .. n + m /\ ~(i + n <= n) /\ (i + n) - n = i
    BY <1>1
  <2> QED BY <1>2, <2>1
<1>6. Names(j) = Names(d) \cup Names(e)
  <2>1. ASSUME NEW x \in Names(j) PROVE x \in Names(d) \cup Names(e)
    BY <1>1, <1>2, <1>3, <2>1 DEF Names
  <2>2. ASSUME NEW x \in Names(d) PROVE x \in Names(j)
    BY <1>1, <1>2, <1>4, <2>2 DEF Names
  <2>3. ASSUME NEW x \in Names(e) PROVE x \in Names(j)
    BY <1>1, <1>2, <1>5, <2>3 DEF Names
  <2> QED BY <2>1, <2>2, <2>3
<1>7. ASSUME NEW h \in 1 .. n + m, NEW i \in 1 .. n + m, j[h].finding = j[i].finding
      PROVE  h = i
  <2>1. CASE h \in 1 .. n /\ j[h] = d[h] /\ i \in 1 .. n /\ j[i] = d[i]
    BY <1>1, <1>7, <2>1 DEF Once
  <2>2. CASE h - n \in 1 .. m /\ j[h] = e[h - n] /\ i - n \in 1 .. m /\ j[i] = e[i - n]
    <3>1. h - n = i - n
      BY <1>1, <1>7, <2>2 DEF Once
    <3> QED BY <1>1, <3>1
  <2>3. \A a \in 1 .. n, b \in 1 .. m : d[a].finding # e[b].finding
    BY <1>1 DEF Names
  <2> QED BY <1>3, <1>7, <2>1, <2>2, <2>3
<1> QED BY <1>1, <1>2, <1>3, <1>6, <1>7 DEF Once, j, n, m

(* The entries of the absorbed: each once, with the place of its root in   *)
(* what is handed on when places are given.                                *)
Entered(list, canon, placed, drops) ==
  /\ drops \in Seq(DropRecord) /\ Once(drops)
  /\ Names(drops) = {list[i] : i \in {j \in DOMAIN list : canon[j] # 0}}
  /\ Len(Canonicals(list, canon)) + Len(drops) = Len(list)
  /\ \A p \in DOMAIN drops :
       /\ drops[p].reason = "DUPLICATE"
       /\ \E i \in DOMAIN list :
            /\ drops[p].finding = list[i]
            /\ drops[p].canonical = IF placed THEN {NewIndex(canon, Root(canon, i))} ELSE {}

(* DuplicateDrops enters every one that is absorbed.                       *)
LEMMA DuplicateDropsLists ==
  ASSUME NEW list \in Seq(Finding), IsInjective(list),
         NEW canon, Backward(list, canon), NEW placed \in BOOLEAN
  PROVE  Entered(list, canon, placed, DuplicateDrops(list, canon, placed))
<1> DEFINE merged == {j \in DOMAIN list : canon[j] # 0}
           open == {j \in DOMAIN list : canon[j] = 0}
           n == Cardinality(merged)
           places == Ascending(merged)
           Entry(i) == Drop(list[i], "DUPLICATE",
                            IF placed THEN {NewIndex(canon, Root(canon, i))} ELSE {})
           drops == DuplicateDrops(list, canon, placed)
<1>1. /\ DOMAIN list = 1 .. Len(list) /\ Len(list) \in Nat
      /\ \A i \in DOMAIN list : list[i] \in Finding
  BY LenProperties
<1>2. /\ merged \in SUBSET (DOMAIN list) /\ open \in SUBSET (DOMAIN list)
      /\ merged \in SUBSET Int
      /\ open \cup merged = DOMAIN list /\ open \cap merged = {}
  BY <1>1
<1>3. /\ IsFiniteSet(merged) /\ n \in Nat
      /\ Len(Picked(list, merged)) = n
  <2> HIDE DEF merged
  <2> QED BY <1>2, PickedLists
<1>4. /\ places \in [1 .. n -> merged]
      /\ \A p, q \in 1 .. n : places[p] = places[q] => p = q
      /\ \A i \in merged : \E p \in 1 .. n : places[p] = i
  <2> HIDE DEF merged
  <2> QED BY <1>2, <1>3, AscendingLists
<1>5. \A i \in merged : Entry(i) \in DropRecord /\ Entry(i).finding = list[i]
  <2> TAKE i \in merged
  <2>1. Root(canon, i) \in DOMAIN list /\ canon[Root(canon, i)] = 0
    BY RootFound
  <2>2. NewIndex(canon, Root(canon, i)) \in Nat
    BY <2>1, CanonicalsLists
  <2> QED BY <1>1, <2>2 DEF DropRecord, Drop, Reasons
<1>6. drops = [p \in 1 .. n |-> Entry(places[p])]
  <2>1. drops = [p \in DOMAIN places |-> Entry(places[p])]
    BY DEF DuplicateDrops
  <2> QED BY <1>4, <2>1
<1>7. Len(Picked(list, open)) + Len(Picked(list, merged)) = Len(list)
  <2> HIDE DEF merged, open
  <2> QED BY <1>2, PickedSplit
<1>8. Canonicals(list, canon) = Picked(list, open)
  BY DEF Canonicals
<1>9. \A i \in merged : /\ Entry(i).reason = "DUPLICATE"
                        /\ Entry(i).canonical =
                            IF placed THEN {NewIndex(canon, Root(canon, i))} ELSE {}
  BY DEF Drop
<1> HIDE DEF n, places, Entry, drops
<1>10. \A p \in 1 .. n : places[p] \in merged /\ drops[p] = Entry(places[p])
  BY <1>4, <1>6
<1>11. drops \in [1 .. n -> DropRecord]
  BY <1>5, <1>6, <1>10
<1>12. drops \in Seq(DropRecord) /\ Len(drops) = n /\ DOMAIN drops = 1 .. n
  BY <1>3, <1>11, AsList
<1>13. Once(drops)
  <2>1. \A p, q \in 1 .. n : list[places[p]] = list[places[q]] => p = q
    BY <1>4, <1>10 DEF IsInjective
  <2> QED BY <1>5, <1>10, <1>12, <2>1 DEF Once
<1>14. Names(drops) = {list[i] : i \in merged}
  <2> HIDE DEF merged
  <2>1. \A p \in DOMAIN drops : drops[p].finding = list[places[p]] /\ places[p] \in merged
    BY <1>5, <1>10, <1>12
  <2>2. \A i \in merged : \E p \in DOMAIN drops : drops[p].finding = list[i]
    BY <1>4, <1>12, <2>1
  <2> QED BY <2>1, <2>2 DEF Names
<1>15. \A p \in DOMAIN drops :
         /\ drops[p].reason = "DUPLICATE"
         /\ \E i \in DOMAIN list :
              /\ drops[p].finding = list[i]
              /\ drops[p].canonical =
                   IF placed THEN {NewIndex(canon, Root(canon, i))} ELSE {}
  <2> TAKE p \in DOMAIN drops
  <2>1. places[p] \in merged /\ drops[p] = Entry(places[p])
    BY <1>10, <1>12
  <2>2. places[p] \in DOMAIN list
    BY <2>1
  <2> QED BY <1>5, <1>9, <2>1, <2>2
<1>16. Len(Canonicals(list, canon)) + Len(drops) = Len(list)
  BY <1>3, <1>7, <1>8, <1>12
<1> QED BY <1>12, <1>13, <1>14, <1>15, <1>16 DEF Entered, drops

-----------------------------------------------------------------------------
(* The order of the report.                                                *)

(* A list that names every member of 1..n once.                            *)
Permutes(order, n) ==
  /\ order \in [1 .. n -> 1 .. n]
  /\ \A p, q \in 1 .. n : order[p] = order[q] => p = q
  /\ \A i \in 1 .. n : \E p \in 1 .. n : order[p] = i

(* The sort of S8 is one: it loses no place and repeats none.              *)
LEMMA SortPermutes ==
  ASSUME NEW ranked \in Seq(Finding), NEW severity \in [DOMAIN ranked -> Int]
  PROVE  Permutes(SortOrder(ranked, severity), Len(ranked))
<1> DEFINE n == Len(ranked)
           K(i) == [severity |-> severity[i], priority |-> OffensivePriority(ranked[i]),
                    place |-> i]
           keys == {K(i) : i \in DOMAIN ranked}
           before == [k \in keys |-> {m \in keys : Sooner(m, k)}]
           Nth(p) == CHOOSE k \in keys : Cardinality({m \in keys : Sooner(m, k)}) = p - 1
           order == SortOrder(ranked, severity)
<1>1. DOMAIN ranked = 1 .. n /\ n \in Nat
  BY LenProperties
<1>2. \A f : OffensivePriority(f) \in Int
  BY DEF OffensivePriority
<1>3. \A i \in DOMAIN ranked : /\ K(i) \in keys /\ K(i).place = i
                               /\ K(i).severity \in Int /\ K(i).priority \in Int
  BY <1>2
<1>4. \A k \in keys : /\ k.severity \in Int /\ k.priority \in Int /\ k.place \in Int
                      /\ k.place \in DOMAIN ranked /\ k = K(k.place)
  BY <1>1, <1>3
<1>5. IsFiniteSet(keys) /\ Cardinality(keys) = n
  <2> DEFINE g == [i \in DOMAIN ranked |-> K(i)]
  <2>1. g \in [DOMAIN ranked -> keys] /\ \A i \in DOMAIN ranked : g[i].place = i
    BY <1>3
  <2>2. \A k \in keys : \E i \in DOMAIN ranked : g[i] = k
    OBVIOUS
  <2> HIDE DEF g, keys
  <2>3. g \in Bijection(DOMAIN ranked, keys)
    BY <2>1, <2>2, Fun_IsBij, Fun_IsInj, Fun_IsSurj
  <2>4. IsFiniteSet(DOMAIN ranked) /\ Cardinality(DOMAIN ranked) = n
    BY <1>1, IntervalSize
  <2> QED BY <2>3, <2>4, FS_Bijection DEF ExistsBijection
<1>6. Placed(keys, before)
  <2>1. before \in [keys -> SUBSET keys]
        /\ \A k, m \in keys : m \in before[k] <=> Sooner(m, k)
    OBVIOUS
  <2>2. \A a, b, c \in keys : /\ ~Sooner(a, a)
                              /\ (Sooner(a, b) /\ Sooner(b, c)) => Sooner(a, c)
    <3> HIDE DEF keys, K
    <3> QED BY <1>4 DEF Sooner
  <2>3. \A a, b \in keys : a # b => Sooner(a, b) \/ Sooner(b, a)
    <3> HIDE DEF keys, K
    <3>1. \A a, b \in keys : a # b => a.place # b.place
      BY <1>4
    <3> QED BY <1>4, <3>1 DEF Sooner
  <2> HIDE DEF before, keys
  <2>4. Ordered(keys, before)
    BY <2>1, <2>2, <2>3 DEF Ordered
  <2> QED BY <1>5, <2>4, PlacesTaken
<1>7. \A k \in keys : before[k] = {m \in keys : Sooner(m, k)}
  OBVIOUS
<1>8. order = [p \in DOMAIN ranked |-> Nth(p).place]
  BY DEF SortOrder
<1> HIDE DEF keys, before, order
<1>9. \A p \in 1 .. n : Nth(p) \in keys /\ Cardinality(before[Nth(p)]) = p - 1
  <2> TAKE p \in 1 .. n
  <2>1. p - 1 \in 0 .. n - 1
    BY <1>1
  <2>2. \E k \in keys : Cardinality({m \in keys : Sooner(m, k)}) = p - 1
    BY <1>5, <1>6, <1>7, <2>1 DEF Placed
  <2>3. Nth(p) \in keys /\ Cardinality({m \in keys : Sooner(m, Nth(p))}) = p - 1
    BY <2>2
  <2> HIDE DEF Nth
  <2> QED BY <1>7, <2>3
<1> HIDE DEF Nth, K
<1>10. order \in [1 .. n -> 1 .. n]
  BY <1>1, <1>4, <1>8, <1>9
<1>11. ASSUME NEW p \in 1 .. n, NEW q \in 1 .. n, order[p] = order[q] PROVE p = q
  <2>1. Nth(p) = Nth(q)
    BY <1>1, <1>4, <1>8, <1>9, <1>11
  <2>2. p - 1 = q - 1
    BY <1>9, <2>1
  <2> QED BY <1>1, <2>2
<1>12. ASSUME NEW i \in 1 .. n PROVE \E p \in 1 .. n : order[p] = i
  <2> DEFINE p == Cardinality(before[K(i)]) + 1
  <2>1. K(i) \in keys /\ K(i).place = i
    BY <1>1, <1>3
  <2>2. Cardinality(before[K(i)]) \in 0 .. n - 1
    BY <1>5, <1>6, <2>1 DEF Placed
  <2>3. p \in 1 .. n /\ p - 1 = Cardinality(before[K(i)])
    BY <1>1, <2>2
  <2>4. Nth(p) \in keys /\ Cardinality(before[Nth(p)]) = Cardinality(before[K(i)])
    <3> HIDE DEF p
    <3> QED BY <1>9, <2>3
  <2>5. Nth(p) = K(i)
    <3> HIDE DEF p
    <3> QED BY <1>6, <2>1, <2>4 DEF Placed
  <2>6. order[p] = i
    <3> HIDE DEF p
    <3> QED BY <1>1, <1>8, <2>1, <2>3, <2>5
  <2> QED BY <2>3, <2>6
<1> QED BY <1>10, <1>11, <1>12 DEF Permutes, order

(* The model's ranking, completed with what it left out, names every       *)
(* finding once.                                                           *)
LEMMA CompletedPermutes ==
  ASSUME live \in Seq(Finding), NEW named \in NamedRankings
  PROVE  /\ Permutes(Completed(named), Len(live))
         /\ named \in Seq(Nat)
<1> DEFINE n == Len(live)
           rest == DOMAIN live \ Range(named)
           m == Cardinality(rest)
           rank == Completed(named)
<1>1. DOMAIN live = 1 .. n /\ n \in Nat
  BY LenProperties
<1>2. PICK l \in 0 .. MaxNamed : named \in [1 .. l -> DOMAIN live]
  BY DEF NamedRankings
<1>3. IsInjective(named) /\ l \in Nat
  BY DEF NamedRankings
<1>4. named \in Seq(1 .. n) /\ Len(named) = l /\ DOMAIN named = 1 .. l
  BY <1>1, <1>2, <1>3, AsList
<1>5. /\ rest \in SUBSET Int /\ IsFiniteSet(rest)
      /\ \A i \in 1 .. n : i \in rest <=> ~\E p \in 1 .. l : named[p] = i
  <2>1. IsFiniteSet(DOMAIN live)
    BY <1>1, IntervalSize
  <2>2. rest \in SUBSET (DOMAIN live)
    OBVIOUS
  <2> QED BY <1>1, <1>4, <2>1, <2>2, FS_Subset DEF Range
<1>6. rest \in SUBSET (1 .. n)
  BY <1>1
<1>7. /\ m \in Nat /\ Ascending(rest) \in [1 .. m -> rest]
      /\ \A p, q \in 1 .. m : Ascending(rest)[p] = Ascending(rest)[q] => p = q
      /\ \A i \in rest : \E p \in 1 .. m : Ascending(rest)[p] = i
  <2> HIDE DEF rest
  <2> QED BY <1>5, AscendingLists
<1>8. Ascending(rest) \in Seq(1 .. n) /\ Len(Ascending(rest)) = m
  <2> HIDE DEF rest, m
  <2>1. Ascending(rest) \in [1 .. m -> 1 .. n]
    BY <1>6, <1>7
  <2> QED BY <1>7, <2>1, AsList
<1>9. rank = named \o Ascending(rest)
  BY DEF Completed
<1> HIDE DEF rest, m, rank
<1>10. /\ rank \in Seq(1 .. n) /\ Len(rank) = l + m
       /\ \A p \in 1 .. l + m : rank[p] = IF p <= l THEN named[p]
                                          ELSE Ascending(rest)[p - l]
  BY <1>4, <1>8, <1>9, ConcatProperties
<1>11. DOMAIN rank = 1 .. l + m /\ l + m \in Nat
  BY <1>3, <1>7, <1>10, LenProperties
<1>12. \A p \in 1 .. l + m : \/ p \in 1 .. l /\ rank[p] = named[p]
                             \/ p - l \in 1 .. m /\ rank[p] = Ascending(rest)[p - l]
  BY <1>3, <1>7, <1>10
<1>13. ASSUME NEW p \in 1 .. l + m, NEW q \in 1 .. l + m, rank[p] = rank[q] PROVE p = q
  <2>1. CASE p \in 1 .. l /\ rank[p] = named[p] /\ q \in 1 .. l /\ rank[q] = named[q]
    BY <1>3, <1>4, <1>13, <2>1 DEF IsInjective
  <2>2. CASE /\ p - l \in 1 .. m /\ rank[p] = Ascending(rest)[p - l]
             /\ q - l \in 1 .. m /\ rank[q] = Ascending(rest)[q - l]
    <3>1. p - l = q - l
      BY <1>7, <1>13, <2>2
    <3> QED BY <1>3, <1>7, <3>1
  <2>3. \A a \in 1 .. l, b \in 1 .. m : named[a] # Ascending(rest)[b]
    <3> TAKE a \in 1 .. l, b \in 1 .. m
    <3>1. Ascending(rest)[b] \in rest
      BY <1>7
    <3> QED BY <1>5, <1>6, <3>1
  <2> QED BY <1>12, <1>13, <2>1, <2>2, <2>3
<1>14. ASSUME NEW i \in 1 .. n PROVE \E p \in 1 .. l + m : rank[p] = i
  <2>1. CASE i \in rest
    <3>1. PICK p \in 1 .. m : Ascending(rest)[p] = i
      BY <1>7, <2>1
    <3>2. p + l \in 1 .. l + m /\ ~(p + l <= l) /\ (p + l) - l = p
      BY <1>3, <1>7
    <3> QED BY <1>10, <3>1, <3>2
  <2>2. CASE i \notin rest
    <3>1. PICK p \in 1 .. l : named[p] = i
      BY <1>5, <2>2
    <3>2. p \in 1 .. l + m /\ p <= l
      BY <1>3, <1>7
    <3> QED BY <1>10, <3>1, <3>2
  <2> QED BY <2>1, <2>2
<1>15. l + m = n
  <2>1. IsInjective(rank)
    BY <1>11, <1>13 DEF IsInjective
  <2>2. Range(rank) = 1 .. n
    <3>1. \A p \in 1 .. l + m : rank[p] \in 1 .. n
      BY <1>10, <1>11, LenProperties
    <3> QED BY <1>11, <1>14, <3>1 DEF Range
  <2>3. Cardinality(1 .. n) = Len(rank)
    BY <1>10, <2>1, <2>2, DistinctLength
  <2> QED BY <1>1, <1>10, <2>3, IntervalSize
<1>16. rank \in [1 .. n -> 1 .. n]
  BY <1>10, <1>15, LenProperties
<1>17. named \in Seq(Nat)
  <2>1. 1 .. n \subseteq Nat
    OBVIOUS
  <2> QED BY <1>4, <2>1, SeqMonotonic
<1> QED BY <1>13, <1>14, <1>15, <1>16, <1>17 DEF Permutes, rank

-----------------------------------------------------------------------------
(* The invariant.                                                          *)

TypeOK ==
  /\ phase \in {"deepdive", "prefilter", "pre-dedup", "verify", "enrich", "chain", "done"}
  /\ runs \in Seq(SUBSET Finding)
  /\ live \in Seq(Finding) /\ verified \in Seq(Finding)
  /\ dropped \in Seq(DropRecord)
  /\ band \in [Finding -> BaseBands]
  /\ into \in [Finding -> Finding \cup {NoOne}]
  /\ home \in [Finding -> Finding]

(* Nothing is dropped before S5, verified before S6, reported before S8.   *)
StartShape ==
  /\ chunk # "none" => phase = "deepdive"
  /\ phase \in {"deepdive", "prefilter"} => dropped = <<>>
  /\ phase \in {"deepdive", "prefilter", "pre-dedup"} => verified = <<>>
  /\ phase # "done" => report = NoReport /\ meant = <<>>

(* The stages from the end of S7 on.                                       *)
Deduped == phase \in {"enrich", "chain", "done"}

(* What was verified and S7 has not yet seen.                              *)
InHand == IF Deduped THEN <<>> ELSE verified

(* From the collapse of S4 on: no finding is twice in a list or in two,    *)
(* and the lists are together as long as the raw count.                    *)
ListShape ==
  phase # "deepdive" =>
    /\ IsInjective(live) /\ IsInjective(InHand) /\ Once(dropped)
    /\ Range(live) \cap Range(InHand) = {}
    /\ Range(live) \cap Names(dropped) = {}
    /\ Range(InHand) \cap Names(dropped) = {}
    /\ raw = Len(live) + Len(InHand) + Len(dropped)

(* What is still in a list has not been absorbed and stands for itself.    *)
HomeShape ==
  \A f \in Finding :
    phase = "deepdive" \/ f \in Range(live) \cup Range(InHand) =>
      into[f] = NoOne /\ home[f] = f

(* The indices of S7 name the places of S7's list; there are none before.  *)
IndexShape ==
  \A i \in DOMAIN dropped : \A c \in dropped[i].canonical :
    /\ Deduped
    /\ phase # "done" => c + 1 \in DOMAIN live
                         /\ live[c + 1] = home[dropped[i].finding]

(* The report ranks the findings of S7's list, each once.                  *)
ReportShape ==
  phase = "done" =>
    /\ report.ranked \in Seq(Finding) /\ IsInjective(report.ranked)
    /\ Range(report.ranked) = Range(live)
    /\ Len(report.ranked) = Len(live)

IInv ==
  /\ TypeOK /\ StartShape /\ ListShape /\ HomeShape /\ IndexShape
  /\ ReportShape /\ SitesKept /\ IndicesHome

-----------------------------------------------------------------------------
(* The steps that absorb, and the step that reports.                       *)

(* A removal of duplicates from a list whose members stand for themselves: *)
(* every member is stood for by its root, those handed on stand for        *)
(* themselves, and no call site is lost, neither of the ones absorbed now  *)
(* nor of the ones absorbed before.                                        *)
LEMMA MergeKeeps ==
  ASSUME TypeOK, SitesKept,
         NEW list \in Seq(Finding), IsInjective(list),
         \A j \in DOMAIN list : into[list[j]] = NoOne /\ home[list[j]] = list[j],
         NEW canon, Backward(list, canon),
         Merge(list, canon)
  PROVE  /\ home' \in [Finding -> Finding]
         /\ into' \in [Finding -> Finding \cup {NoOne}]
         /\ SitesKept'
         /\ \A j \in DOMAIN list : home'[list[j]] = list[Root(canon, j)]
         /\ \A j \in DOMAIN list : canon[j] = 0 =>
              into'[list[j]] = NoOne /\ home'[list[j]] = list[j]
         /\ \A f \in Finding : f \notin Range(list) =>
              into'[f] = into[f] /\ (home[f] = f => home'[f] = f)
<1> DEFINE A(f) == Absorber(list, canon, f)
           merged == {j \in DOMAIN list : canon[j] # 0}
<1>1. /\ home \in [Finding -> Finding] /\ into \in [Finding -> Finding \cup {NoOne}]
      /\ \A j \in DOMAIN list : list[j] \in Finding
  BY LenProperties DEF TypeOK
<1>2. /\ \A j \in DOMAIN list : A(list[j]) = list[Root(canon, j)]
      /\ \A f : f \notin Range(list) => A(f) = f
      /\ \A f \in Finding : A(f) \in Finding
      /\ \A j \in DOMAIN list : A(list[j]) = list[j] <=> canon[j] = 0
  BY AbsorberFound
<1>3. /\ into' = [f \in Finding |-> IF A(f) = f THEN into[f] ELSE A(f)]
      /\ home' = [f \in Finding |-> A(home[f])]
      /\ duplicates' = Attached(list, canon)
  BY DEF Merge
<1>4. \A j \in DOMAIN list : /\ Root(canon, j) \in DOMAIN list
                             /\ canon[Root(canon, j)] = 0
                             /\ canon[j] = 0 => Root(canon, j) = j
  BY RootFound
<1>5. /\ \A j \in DOMAIN list : list[j] \in Range(list)
      /\ \A f \in Range(list) : \E j \in DOMAIN list : f = list[j]
  BY DEF Range
<1> HIDE DEF A
<1>6. home' \in [Finding -> Finding] /\ into' \in [Finding -> Finding \cup {NoOne}]
  BY <1>1, <1>2, <1>3
<1>7. \A j \in DOMAIN list : home'[list[j]] = list[Root(canon, j)]
  BY <1>1, <1>2, <1>3
<1>8. \A j \in DOMAIN list : canon[j] = 0 =>
        into'[list[j]] = NoOne /\ home'[list[j]] = list[j]
  BY <1>1, <1>2, <1>3
<1>9. \A f \in Finding : f \notin Range(list) =>
        into'[f] = into[f] /\ (home[f] = f => home'[f] = f)
  BY <1>1, <1>2, <1>3
(* What the representative of a list takes over.                           *)
<1>10. ASSUME NEW r \in DOMAIN list, canon[r] = 0
       PROVE  /\ duplicates[list[r]] \subseteq duplicates'[list[r]]
              /\ \A j \in merged : Root(canon, j) = r =>
                   /\ duplicates[list[j]] \subseteq duplicates'[list[r]]
                   /\ list[j] \in duplicates'[list[r]] \/ SameSite(list[j], list[r])
  <2> DEFINE Absorbed(f) == {j \in merged : list[Root(canon, j)] = f}
  <2>1. ~\E j \in merged : list[j] = list[r]
    BY <1>10 DEF IsInjective
  <2>2. list[r] \in Finding
    BY <1>1
  <2>3. duplicates'[list[r]]
          = duplicates[list[r]]
            \cup {list[j] : j \in {k \in Absorbed(list[r]) : ~SameSite(list[k], list[r])}}
            \cup UNION {duplicates[list[j]] : j \in Absorbed(list[r])}
    BY <1>3, <2>1, <2>2 DEF Attached
  <2>4. \A j \in merged : Root(canon, j) = r => j \in Absorbed(list[r])
    OBVIOUS
  <2> HIDE DEF Absorbed
  <2> QED BY <2>3, <2>4
<1>11. ASSUME NEW f \in Finding, f \notin Range(list)
       PROVE  duplicates[f] \subseteq duplicates'[f]
  <2>1. ~\E j \in merged : list[j] = f
    BY <1>5, <1>11
  <2> QED BY <1>3, <2>1 DEF Attached
<1>12. ASSUME NEW f \in Finding, into'[f] # NoOne
       PROVE  f \in duplicates'[home'[f]] \/ SameSite(f, into'[f])
  <2>1. CASE A(f) # f
    <3>1. PICK j \in DOMAIN list : f = list[j] /\ canon[j] # 0
      BY <1>2, <1>5, <2>1
    <3>2. into'[f] = list[Root(canon, j)] /\ home'[f] = list[Root(canon, j)]
      BY <1>2, <1>3, <1>7, <2>1, <3>1
    <3> QED BY <1>4, <1>10, <3>1, <3>2
  <2>2. CASE A(f) = f
    <3>1. into'[f] = into[f] /\ into[f] # NoOne
      BY <1>3, <1>12, <2>2
    <3>2. f \in duplicates[home[f]] \/ SameSite(f, into'[f])
      BY <3>1 DEF SitesKept
    <3>3. duplicates[home[f]] \subseteq duplicates'[home'[f]]
      <4>1. home'[f] = A(home[f]) /\ home[f] \in Finding
        BY <1>1, <1>3
      <4>2. CASE home[f] \notin Range(list)
        BY <1>2, <1>11, <4>1, <4>2
      <4>3. CASE home[f] \in Range(list)
        <5>1. PICK j \in DOMAIN list : home[f] = list[j]
          BY <1>5, <4>3
        <5>2. home'[f] = list[Root(canon, j)]
          BY <1>2, <4>1, <5>1
        <5> QED BY <1>4, <1>10, <5>1, <5>2
      <4> QED BY <4>2, <4>3
    <3> QED BY <3>2, <3>3
  <2> QED BY <2>1, <2>2
<1>13. SitesKept'
  BY <1>12 DEF SitesKept
<1> QED BY <1>6, <1>7, <1>8, <1>9, <1>13

(* The report ranks every finding of the list once; the entries of the     *)
(* dropped keep their finding and reason, and indices and steps follow     *)
(* the findings they meant to their new places.                            *)
LEMMA HydratedReport ==
  ASSUME TypeOK, IsInjective(live),
         NEW rank, Permutes(rank, Len(live)),
         NEW label \in [DOMAIN live -> Int], NEW steps \in Seq(Nat), NEW degraded,
         \A i \in DOMAIN dropped : \A c \in dropped[i].canonical :
           c + 1 \in DOMAIN live /\ live[c + 1] = home[dropped[i].finding],
         Hydrated(rank, label, steps, degraded)
  PROVE  /\ report'.ranked \in Seq(Finding) /\ IsInjective(report'.ranked)
         /\ Range(report'.ranked) = Range(live)
         /\ Len(report'.ranked) = Len(live)
         /\ dropped' \in Seq(DropRecord) /\ DOMAIN dropped' = DOMAIN dropped
         /\ Len(dropped') = Len(dropped)
         /\ \A i \in DOMAIN dropped : dropped'[i].finding = dropped[i].finding
         /\ \A i \in DOMAIN dropped : \A c \in dropped'[i].canonical :
              report'.ranked[c + 1] = home[dropped[i].finding]
         /\ [i \in DOMAIN report'.chain |-> report'.ranked[report'.chain[i]]] = meant'
         /\ \A i \in DOMAIN dropped : dropped[i].canonical = {} => dropped'[i].canonical = {}
<1> DEFINE n == Len(live)
           ranked == [i \in DOMAIN rank |-> live[rank[i]]]
           severity == [i \in DOMAIN rank |-> FinalSeverity(ranked[i], label[i])]
           order == SortOrder(ranked, severity)
           InSorted(place) == CHOOSE i \in DOMAIN order : rank[order[i]] = place
           path == Picked(steps, {s \in DOMAIN steps : steps[s] \in DOMAIN live})
           R == report'.ranked
<1>1. /\ DOMAIN live = 1 .. n /\ n \in Nat
      /\ \A i \in 1 .. n : live[i] \in Finding
      /\ \A i, j \in 1 .. n : live[i] = live[j] => i = j
  BY LenProperties DEF TypeOK, IsInjective
<1>2. /\ rank \in [1 .. n -> 1 .. n] /\ DOMAIN rank = 1 .. n
      /\ \A p, q \in 1 .. n : rank[p] = rank[q] => p = q
      /\ \A i \in 1 .. n : \E p \in 1 .. n : rank[p] = i
  BY DEF Permutes
<1>3. ranked \in Seq(Finding) /\ Len(ranked) = n /\ DOMAIN ranked = 1 .. n
  <2>1. ranked \in [1 .. n -> Finding]
    BY <1>1, <1>2
  <2> HIDE DEF ranked, n
  <2> QED BY <1>1, <2>1, AsList
<1>4. severity \in [1 .. n -> Int]
  <2>1. \A f \in Finding, l \in Int : FinalSeverity(f, l) \in Int
    BY FlowAssumption DEF FinalSeverity, TypeOK, BaseBands, Info
  <2>2. \A i \in 1 .. n : ranked[i] \in Finding /\ label[i] \in Int
    BY <1>1, <1>2
  <2> HIDE DEF ranked, n
  <2> QED BY <1>2, <2>1, <2>2
<1>5. /\ order \in [1 .. n -> 1 .. n] /\ DOMAIN order = 1 .. n
      /\ \A p, q \in 1 .. n : order[p] = order[q] => p = q
      /\ \A i \in 1 .. n : \E p \in 1 .. n : order[p] = i
  <2> HIDE DEF ranked, severity, n
  <2>1. Permutes(order, n)
    BY <1>3, <1>4, SortPermutes
  <2> QED BY <2>1 DEF Permutes
<1>6. /\ R = [i \in DOMAIN order |-> ranked[order[i]]]
      /\ report'.chain = IF Len(path) < 2 THEN <<>>
                         ELSE [i \in DOMAIN path |-> InSorted(path[i])]
      /\ meant' = IF Len(path) < 2 THEN <<>> ELSE [i \in DOMAIN path |-> live[path[i]]]
      /\ dropped' = [i \in DOMAIN dropped |->
                       [dropped[i] EXCEPT !.canonical = {InSorted(c + 1) - 1 : c \in @}]]
  BY DEF Hydrated
<1>7. \A i \in 1 .. n : ranked[i] = live[rank[i]]
  BY <1>2
<1> HIDE DEF ranked, severity, order, n, R
<1>8. R = [p \in 1 .. n |-> live[rank[order[p]]]]
  BY <1>5, <1>6, <1>7
<1>9. \A p \in 1 .. n : order[p] \in 1 .. n /\ rank[order[p]] \in 1 .. n
  BY <1>2, <1>5
<1>10. ASSUME NEW p \in 1 .. n, NEW q \in 1 .. n, rank[order[p]] = rank[order[q]]
       PROVE  p = q
  <2>1. order[p] = order[q]
    BY <1>2, <1>9, <1>10
  <2> QED BY <1>5, <2>1
<1>11. ASSUME NEW i \in 1 .. n PROVE \E p \in 1 .. n : rank[order[p]] = i
  <2>1. PICK q \in 1 .. n : rank[q] = i
    BY <1>2
  <2>2. PICK p \in 1 .. n : order[p] = q
    BY <1>5
  <2> QED BY <2>1, <2>2
<1>12. R \in Seq(Finding) /\ Len(R) = n /\ DOMAIN R = 1 .. n
  <2>1. R \in [1 .. n -> Finding]
    BY <1>1, <1>8, <1>9
  <2> QED BY <1>1, <2>1, AsList
<1>13. IsInjective(R)
  <2>1. \A p, q \in 1 .. n : R[p] = R[q] => p = q
    BY <1>1, <1>8, <1>9, <1>10
  <2> QED BY <1>12, <2>1 DEF IsInjective
<1>14. Range(R) = Range(live)
  <2>1. \A p \in 1 .. n : \E i \in 1 .. n : R[p] = live[i]
    BY <1>8, <1>9
  <2>2. \A i \in 1 .. n : \E p \in 1 .. n : R[p] = live[i]
    BY <1>8, <1>11
  <2>3. \A x : x \in Range(R) <=> \E p \in 1 .. n : x = R[p]
    BY <1>12 DEF Range
  <2>4. \A x : x \in Range(live) <=> \E i \in 1 .. n : x = live[i]
    BY <1>1 DEF Range
  <2>5. ASSUME NEW x \in Range(R) PROVE x \in Range(live)
    BY <2>1, <2>3, <2>4
  <2>6. ASSUME NEW x \in Range(live) PROVE x \in Range(R)
    BY <2>2, <2>3, <2>4
  <2> QED BY <2>5, <2>6
<1>15. \A i \in 1 .. n : InSorted(i) \in 1 .. n /\ R[InSorted(i)] = live[i]
  <2> TAKE i \in 1 .. n
  <2>1. InSorted(i) \in 1 .. n /\ rank[order[InSorted(i)]] = i
    BY <1>5, <1>11
  <2> HIDE DEF InSorted
  <2> QED BY <1>8, <2>1
<1> HIDE DEF InSorted
<1>16. DOMAIN dropped = 1 .. Len(dropped) /\ Len(dropped) \in Nat
       /\ \A i \in DOMAIN dropped : dropped[i] \in DropRecord
  BY LenProperties DEF TypeOK
<1>17. \A i \in DOMAIN dropped :
         /\ dropped'[i].finding = dropped[i].finding
         /\ dropped'[i].canonical = {InSorted(c + 1) - 1 : c \in dropped[i].canonical}
         /\ dropped'[i] = [finding |-> dropped[i].finding, reason |-> dropped[i].reason,
                           canonical |-> {InSorted(c + 1) - 1 : c \in dropped[i].canonical}]
  BY <1>6, <1>16 DEF DropRecord
<1>18. ASSUME NEW i \in DOMAIN dropped, NEW c \in dropped'[i].canonical
       PROVE  c \in Nat /\ R[c + 1] = home[dropped[i].finding]
  <2>1. PICK d \in dropped[i].canonical : c = InSorted(d + 1) - 1
    BY <1>17, <1>18
  <2>2. d + 1 \in 1 .. n /\ live[d + 1] = home[dropped[i].finding]
    BY <1>1, <2>1
  <2>3. InSorted(d + 1) \in 1 .. n /\ R[InSorted(d + 1)] = live[d + 1]
    BY <1>15, <2>2
  <2>4. c \in Nat /\ c + 1 = InSorted(d + 1)
    BY <1>1, <2>1, <2>3
  <2> QED BY <2>2, <2>3, <2>4
<1>19. dropped' \in Seq(DropRecord) /\ Len(dropped') = Len(dropped)
       /\ DOMAIN dropped' = DOMAIN dropped
  <2>1. \A i \in DOMAIN dropped : dropped'[i] \in DropRecord
    <3> TAKE i \in DOMAIN dropped
    <3> DEFINE C == {InSorted(c + 1) - 1 : c \in dropped[i].canonical}
    <3>1. C \in SUBSET Nat
      BY <1>17, <1>18
    <3>2. dropped[i].finding \in Finding /\ dropped[i].reason \in Reasons
      BY <1>16 DEF DropRecord
    <3>3. dropped'[i] = [finding |-> dropped[i].finding, reason |-> dropped[i].reason,
                         canonical |-> C]
      BY <1>17
    <3> HIDE DEF C
    <3> QED BY <3>1, <3>2, <3>3 DEF DropRecord
  <2>2. DOMAIN dropped' = DOMAIN dropped /\ dropped' = [i \in DOMAIN dropped |-> dropped'[i]]
    BY <1>6
  <2>3. dropped' \in [1 .. Len(dropped) -> DropRecord]
    BY <1>16, <2>1, <2>2
  <2> QED BY <1>16, <2>3, AsList
<1>20. [i \in DOMAIN report'.chain |-> R[report'.chain[i]]] = meant'
  <2>1. CASE Len(path) < 2
    BY <1>6, <2>1
  <2>2. CASE ~(Len(path) < 2)
    <3> DEFINE places == {s \in DOMAIN steps : steps[s] \in DOMAIN live}
    <3>1. \A i \in DOMAIN path : path[i] \in 1 .. n
      <4>1. Range(path) = {steps[s] : s \in places}
        <5>1. places \in SUBSET (DOMAIN steps) /\ path = Picked(steps, places)
          OBVIOUS
        <5> HIDE DEF places, path
        <5> QED BY <5>1, PickedLists
      <4>2. \A s \in places : steps[s] \in 1 .. n
        BY <1>1
      <4> HIDE DEF places, path
      <4> QED BY <4>1, <4>2 DEF Range
    <3> HIDE DEF path
    <3>2. /\ report'.chain = [i \in DOMAIN path |-> InSorted(path[i])]
          /\ meant' = [i \in DOMAIN path |-> live[path[i]]]
      BY <1>6, <2>2
    <3>3. \A i \in DOMAIN path : R[InSorted(path[i])] = live[path[i]]
      BY <1>15, <3>1
    <3> QED BY <3>2, <3>3
  <2> QED BY <2>1, <2>2
<1>21. \A i \in DOMAIN dropped : dropped[i].canonical = {} => dropped'[i].canonical = {}
  BY <1>17
<1> QED BY <1>12, <1>13, <1>14, <1>17, <1>18, <1>19, <1>20, <1>21 DEF R, n

-----------------------------------------------------------------------------
(* The invariant holds throughout.                                         *)

(* One more at the end of a list.                                          *)
LEMMA AppendLists ==
  ASSUME NEW T, NEW s \in Seq(T), NEW e \in T
  PROVE  /\ Append(s, e) \in Seq(T) /\ Len(Append(s, e)) = Len(s) + 1
         /\ DOMAIN Append(s, e) = 1 .. Len(s) + 1
         /\ \A i \in DOMAIN s : Append(s, e)[i] = s[i]
         /\ Append(s, e)[Len(s) + 1] = e
         /\ \A i \in DOMAIN Append(s, e) : i \in DOMAIN s \/ i = Len(s) + 1
         /\ Range(Append(s, e)) = Range(s) \cup {e}
<1>1. DOMAIN s = 1 .. Len(s) /\ Len(s) \in Nat
  BY LenProperties
<1>2. /\ Append(s, e) \in Seq(T) /\ Len(Append(s, e)) = Len(s) + 1
      /\ \A i \in 1 .. Len(s) : Append(s, e)[i] = s[i]
      /\ Append(s, e)[Len(s) + 1] = e
  BY AppendProperties
<1>3. DOMAIN Append(s, e) = 1 .. Len(s) + 1
  BY <1>2, LenProperties
<1>4. \A i \in 1 .. Len(s) + 1 : i \in 1 .. Len(s) \/ i = Len(s) + 1
  BY <1>1
<1>5. 1 .. Len(s) \subseteq 1 .. Len(s) + 1 /\ Len(s) + 1 \in 1 .. Len(s) + 1
  BY <1>1
<1>6. Range(Append(s, e)) = Range(s) \cup {e}
  <2>1. ASSUME NEW x \in Range(Append(s, e)) PROVE x \in Range(s) \cup {e}
    BY <1>1, <1>2, <1>3, <1>4, <2>1 DEF Range
  <2>2. ASSUME NEW x \in Range(s) PROVE x \in Range(Append(s, e))
    BY <1>1, <1>2, <1>3, <1>5, <2>2 DEF Range
  <2>3. e \in Range(Append(s, e))
    BY <1>2, <1>3, <1>5 DEF Range
  <2> QED BY <2>1, <2>2, <2>3
<1> QED BY <1>1, <1>2, <1>3, <1>4, <1>6

(* One member taken out of a list without repetitions.                     *)
LEMMA WithoutLists ==
  ASSUME NEW T, NEW list \in Seq(T), IsInjective(list), NEW i \in DOMAIN list
  PROVE  /\ Without(list, list[i]) \in Seq(T) /\ IsInjective(Without(list, list[i]))
         /\ Range(Without(list, list[i])) = Range(list) \ {list[i]}
         /\ Len(Without(list, list[i])) = Len(list) - 1
<1> DEFINE rest == {j \in DOMAIN list : list[j] # list[i]}
<1>1. DOMAIN list = 1 .. Len(list) /\ Len(list) \in Nat
  BY LenProperties
<1>2. rest = DOMAIN list \ {i} /\ rest \in SUBSET (DOMAIN list)
  BY DEF IsInjective
<1>3. Without(list, list[i]) = Picked(list, rest)
  BY DEF Without
<1>4. Range(list) \ {list[i]} = {list[j] : j \in rest}
  BY <1>2 DEF Range
<1> HIDE DEF rest
<1>5. /\ Picked(list, rest) \in Seq(T) /\ IsInjective(Picked(list, rest))
      /\ Range(Picked(list, rest)) = {list[j] : j \in rest}
      /\ Len(Picked(list, rest)) = Cardinality(rest)
  BY <1>2, PickedLists
<1>6. Cardinality(rest) = Len(list) - 1
  <2>1. IsFiniteSet(DOMAIN list) /\ Cardinality(DOMAIN list) = Len(list)
    BY <1>1, IntervalSize
  <2> QED BY <1>2, <2>1, FS_RemoveElement
<1> QED BY <1>3, <1>4, <1>5, <1>6

(* A finding dropped by one step.                                          *)
LEMMA DroppedOneMore ==
  ASSUME NEW d \in Seq(DropRecord), Once(d), NEW r \in DropRecord, r.finding \notin Names(d)
  PROVE  /\ Append(d, r) \in Seq(DropRecord) /\ Once(Append(d, r))
         /\ Names(Append(d, r)) = Names(d) \cup {r.finding}
         /\ Len(Append(d, r)) = Len(d) + 1
         /\ \A i \in DOMAIN Append(d, r) :
              \/ i \in DOMAIN d /\ Append(d, r)[i] = d[i]
              \/ Append(d, r)[i] = r
<1> DEFINE a == Append(d, r)
           n == Len(d) + 1
<1>1. /\ a \in Seq(DropRecord) /\ Len(a) = n /\ DOMAIN a = 1 .. n
      /\ \A i \in DOMAIN d : a[i] = d[i]
      /\ a[n] = r
      /\ \A i \in DOMAIN a : i \in DOMAIN d \/ i = n
  BY AppendLists
<1>2. DOMAIN d = 1 .. Len(d) /\ Len(d) \in Nat
  BY LenProperties
<1>3. n \in DOMAIN a /\ \A i \in DOMAIN d : i \in DOMAIN a
  BY <1>1, <1>2
<1> HIDE DEF a, n
<1>4. Once(a)
  BY <1>1 DEF Once, Names
<1>5. Names(a) = Names(d) \cup {r.finding}
  <2>1. ASSUME NEW x \in Names(a) PROVE x \in Names(d) \cup {r.finding}
    BY <1>1, <2>1 DEF Names
  <2>2. ASSUME NEW x \in Names(d) PROVE x \in Names(a)
    BY <1>1, <1>3, <2>2 DEF Names
  <2>3. r.finding \in Names(a)
    BY <1>1, <1>3 DEF Names
  <2> QED BY <2>1, <2>2, <2>3
<1> QED BY <1>1, <1>4, <1>5 DEF a, n

(* The initial state.                                                      *)
LEMMA StartHolds == Init => IInv
<1> SUFFICES ASSUME Init PROVE IInv
  OBVIOUS
<1> USE DEF Init
<1>1. TypeOK
  BY EmptySeq, FlowAssumption DEF TypeOK, BaseBands, Info, NoOne
<1>2. StartShape
  BY DEF StartShape
<1>3. HomeShape /\ SitesKept
  BY DEF HomeShape, SitesKept, NoOne
<1>4. ListShape /\ IndexShape /\ ReportShape /\ IndicesHome
  BY DEF ListShape, IndexShape, ReportShape, IndicesHome
<1> QED BY <1>1, <1>2, <1>3, <1>4 DEF IInv

(* A step within S4 leaves lists of findings, and nothing else is there.   *)
LEMMA DeepKeeps ==
  ASSUME IInv, phase = "deepdive", phase' = "deepdive",
         runs' \in Seq(SUBSET Finding), live' \in Seq(Finding),
         UNCHANGED <<verified, dropped, band, report, into, home, meant>>
  PROVE  IInv'
<1>1. TypeOK'
  BY DEF IInv, TypeOK
<1>2. StartShape'
  BY DEF IInv, StartShape
<1>3. HomeShape'
  BY DEF IInv, HomeShape
<1>4. SitesKept'
  BY <1>3 DEF HomeShape, SitesKept
<1>5. ListShape' /\ IndexShape' /\ ReportShape' /\ IndicesHome'
  <2>1. dropped' = <<>>
    BY DEF IInv, StartShape
  <2> QED BY <2>1 DEF ListShape, IndexShape, ReportShape, IndicesHome
<1> QED BY <1>1, <1>2, <1>3, <1>4, <1>5 DEF IInv

(* S4's chunks and runs.                                                   *)
LEMMA DeepStepKeeps ==
  ASSUME IInv, (\E c \in Chunk : BeginChunk(c)) \/ SingleRun \/ EndChunk
  PROVE  IInv'
<1>1. ASSUME NEW c \in Chunk, BeginChunk(c) PROVE IInv'
  <2>1. runs' \in Seq(SUBSET Finding) /\ live' \in Seq(Finding)
    BY <1>1, EmptySeq DEF BeginChunk, IInv, TypeOK
  <2> QED BY <1>1, <2>1, DeepKeeps DEF BeginChunk
<1>2. CASE SingleRun
  <2>1. PICK S \in SUBSET {f \in Finding : Desc[f].chunk = chunk} :
          \E reply \in Reply(S) : runs' = Append(runs, reply)
    BY <1>2 DEF SingleRun
  <2> PICK reply \in Reply(S) : runs' = Append(runs, reply)
    BY <2>1
  <2>2. reply \in SUBSET Finding
    <3>1. reply \in SUBSET S
      BY DEF Reply
    <3> QED BY <3>1
  <2>3. runs' \in Seq(SUBSET Finding)
    BY <2>2, AppendProperties DEF IInv, TypeOK
  <2>4. phase = "deepdive" /\ phase' = "deepdive"
    BY <1>2 DEF SingleRun, IInv, StartShape
  <2>5. live' \in Seq(Finding) /\ UNCHANGED <<verified, dropped, band, report, into, home, meant>>
    BY <1>2 DEF SingleRun, IInv, TypeOK
  <2> QED BY <2>3, <2>4, <2>5, DeepKeeps
<1>3. CASE EndChunk
  <2> DEFINE seen == UNION {runs[r] : r \in DOMAIN runs}
             keys == {k \in {Key(f) : f \in seen} : VotesFor(k) >= VoteThreshold[chunk]}
             n == Cardinality(keys)
  <2>1. PICK pick \in [keys -> seen], order \in Bijection(1 .. n, keys) :
          live' = live \o [i \in DOMAIN order |-> pick[order[i]]]
    BY <1>3 DEF EndChunk
  <2>2. seen \subseteq Finding
    BY LenProperties DEF IInv, TypeOK
  <2>3. n \in Nat
    <3> DEFINE all == {Key(f) : f \in seen}
               g == [f \in seen |-> Key(f)]
    <3>1. IsFiniteSet(seen)
      <4> HIDE DEF seen
      <4> QED BY <2>2, FlowAssumption, FS_Subset
    <3>2. g \in Surjection(seen, all)
      BY DEF Surjection
    <3>3. keys \in SUBSET all
      OBVIOUS
    <3> HIDE DEF all, g, keys, seen
    <3>4. IsFiniteSet(all)
      BY <3>1, <3>2, FS_Surjection
    <3> QED BY <3>3, <3>4, FS_Subset, FS_CardinalityType
  <2> HIDE DEF keys, seen, n
  <2>4. [i \in DOMAIN order |-> pick[order[i]]] \in [1 .. n -> Finding]
    BY <2>2 DEF Bijection, Injection
  <2>5. live' \in Seq(Finding)
    BY <2>1, <2>3, <2>4, AsList, ConcatProperties DEF IInv, TypeOK
  <2>6. phase = "deepdive" /\ phase' = "deepdive"
    BY <1>3 DEF EndChunk, IInv, StartShape
  <2>7. runs' \in Seq(SUBSET Finding)
        /\ UNCHANGED <<verified, dropped, band, report, into, home, meant>>
    BY <1>3, EmptySeq DEF EndChunk
  <2> QED BY <2>5, <2>6, <2>7, DeepKeeps
<1> QED BY <1>1, <1>2, <1>3

(* The end of S4: from here on no finding is in the list twice.            *)
LEMMA CollapseKeeps ==
  ASSUME IInv, CollapseAcrossChunks
  PROVE  IInv'
<1> USE DEF CollapseAcrossChunks
<1>1. live' \in Seq(Finding) /\ IsInjective(live') /\ Len(live') \in Nat
  BY OnePerKeyDistinct, LenProperties DEF IInv, TypeOK
<1>2. /\ verified' = <<>> /\ dropped' = <<>> /\ InHand' = <<>>
      /\ Range(<<>>) = {} /\ Names(<<>>) = {} /\ Once(<<>>) /\ IsInjective(<<>>)
  BY DEF IInv, StartShape, InHand, Deduped, Range, Names, Once, IsInjective
<1>3. TypeOK'
  BY <1>1 DEF IInv, TypeOK
<1>4. StartShape' /\ IndexShape' /\ ReportShape' /\ IndicesHome'
  BY <1>2 DEF IInv, StartShape, IndexShape, ReportShape, IndicesHome
<1>5. ListShape'
  BY <1>1, <1>2 DEF ListShape
<1>6. HomeShape' /\ SitesKept'
  BY DEF IInv, HomeShape, SitesKept
<1> QED BY <1>3, <1>4, <1>5, <1>6 DEF IInv

(* A verdict that keeps a finding.                                         *)
LEMMA ConfirmKeeps ==
  ASSUME IInv, Confirm
  PROVE  IInv'
<1>1. PICK i \in DOMAIN live, b \in BaseBands :
        /\ verified' = Append(verified, live[i])
        /\ band' = [band EXCEPT ![live[i]] = b]
        /\ live' = Without(live, live[i])
  BY DEF Confirm
<1>2. /\ phase = "verify" /\ phase' = "verify"
      /\ UNCHANGED <<runs, chunk, dropped, report, raw, into, home, meant>>
  BY DEF Confirm
<1>3. InHand = verified /\ InHand' = verified'
  BY <1>2 DEF InHand, Deduped
<1>4. /\ live \in Seq(Finding) /\ verified \in Seq(Finding) /\ live[i] \in Finding
      /\ IsInjective(live) /\ IsInjective(verified) /\ Once(dropped)
      /\ Range(live) \cap Range(verified) = {}
      /\ Range(live) \cap Names(dropped) = {}
      /\ Range(verified) \cap Names(dropped) = {}
      /\ raw = Len(live) + Len(verified) + Len(dropped)
      /\ live[i] \in Range(live)
  <2>1. live \in Seq(Finding) /\ verified \in Seq(Finding) /\ dropped \in Seq(DropRecord)
    BY DEF IInv, TypeOK
  <2>2. live[i] \in Finding /\ live[i] \in Range(live)
    BY <2>1, LenProperties DEF Range
  <2>3. ListShape /\ phase # "deepdive"
    BY <1>2 DEF IInv
  <2> QED BY <1>3, <2>1, <2>2, <2>3 DEF ListShape
<1>5. /\ live' \in Seq(Finding) /\ IsInjective(live')
      /\ Range(live') = Range(live) \ {live[i]} /\ Len(live') = Len(live) - 1
  BY <1>1, <1>4, WithoutLists
<1>6. /\ verified' \in Seq(Finding) /\ Len(verified') = Len(verified) + 1
      /\ DOMAIN verified' = 1 .. Len(verified) + 1
      /\ \A j \in DOMAIN verified : verified'[j] = verified[j]
      /\ verified'[Len(verified) + 1] = live[i]
      /\ \A j \in DOMAIN verified' : j \in DOMAIN verified \/ j = Len(verified) + 1
      /\ Range(verified') = Range(verified) \cup {live[i]}
  BY <1>1, <1>4, AppendLists
<1>7. IsInjective(verified')
  <2>1. \A j \in DOMAIN verified : verified[j] # live[i]
    BY <1>4 DEF Range
  <2> QED BY <1>4, <1>6, <2>1 DEF IsInjective
<1>8. raw' = Len(live') + Len(verified') + Len(dropped')
  <2>1. Len(live) \in Nat /\ Len(verified) \in Nat /\ Len(dropped) \in Nat
    BY LenProperties DEF IInv, TypeOK
  <2> QED BY <1>2, <1>4, <1>5, <1>6, <2>1
<1>9. TypeOK'
  BY <1>1, <1>2, <1>4, <1>5, <1>6 DEF IInv, TypeOK
<1>10. ListShape'
  BY <1>2, <1>3, <1>4, <1>5, <1>6, <1>7, <1>8 DEF ListShape
<1>11. HomeShape'
  <2>1. Range(live') \cup Range(InHand') \subseteq Range(live) \cup Range(InHand)
    BY <1>3, <1>4, <1>5, <1>6
  <2> QED BY <1>2, <2>1 DEF IInv, HomeShape
<1>12. StartShape' /\ ReportShape' /\ IndicesHome' /\ SitesKept'
  <2>1. duplicates' = duplicates
    BY DEF Confirm
  <2> QED BY <1>2, <2>1 DEF IInv, StartShape, ReportShape, IndicesHome, SitesKept
<1>13. IndexShape'
  BY <1>2 DEF IInv, IndexShape, Deduped
<1> QED BY <1>9, <1>10, <1>11, <1>12, <1>13 DEF IInv

(* A verdict or a failure that drops one.                                  *)
LEMMA RefuteKeeps ==
  ASSUME IInv, Refute
  PROVE  IInv'
<1>1. PICK i \in DOMAIN live, answer \in Answers :
        /\ Verdict(answer) # "keep"
        /\ dropped' = Append(dropped, Drop(live[i], Verdict(answer), {}))
        /\ live' = Without(live, live[i])
  BY DEF Refute
<1>2. /\ phase = "verify" /\ phase' = "verify"
      /\ UNCHANGED <<runs, chunk, verified, band, report, raw, into, home, meant, duplicates>>
  BY DEF Refute
<1>3. InHand = verified /\ InHand' = verified
  BY <1>2 DEF InHand, Deduped
<1>4. /\ live \in Seq(Finding) /\ verified \in Seq(Finding) /\ live[i] \in Finding
      /\ dropped \in Seq(DropRecord)
      /\ IsInjective(live) /\ IsInjective(verified) /\ Once(dropped)
      /\ Range(live) \cap Range(verified) = {}
      /\ Range(live) \cap Names(dropped) = {}
      /\ Range(verified) \cap Names(dropped) = {}
      /\ raw = Len(live) + Len(verified) + Len(dropped)
      /\ live[i] \in Range(live)
  <2>1. live \in Seq(Finding) /\ verified \in Seq(Finding) /\ dropped \in Seq(DropRecord)
    BY DEF IInv, TypeOK
  <2>2. live[i] \in Finding /\ live[i] \in Range(live)
    BY <2>1, LenProperties DEF Range
  <2>3. ListShape /\ phase # "deepdive"
    BY <1>2 DEF IInv
  <2> QED BY <1>3, <2>1, <2>2, <2>3 DEF ListShape
<1>5. /\ live' \in Seq(Finding) /\ IsInjective(live')
      /\ Range(live') = Range(live) \ {live[i]} /\ Len(live') = Len(live) - 1
  BY <1>1, <1>4, WithoutLists
<1> DEFINE r == Drop(live[i], Verdict(answer), {})
<1>6. r \in DropRecord /\ r.finding = live[i] /\ r.canonical = {}
  <2>1. Verdict(answer) \in Reasons
    BY <1>1, FlowAssumption DEF Verdict, Reasons
  <2> QED BY <1>4, <2>1 DEF Drop, DropRecord
<1>7. dropped' = Append(dropped, r)
  BY <1>1
<1> HIDE DEF r
<1>8. /\ dropped' \in Seq(DropRecord) /\ Once(dropped')
      /\ Names(dropped') = Names(dropped) \cup {live[i]}
      /\ Len(dropped') = Len(dropped) + 1
      /\ \A j \in DOMAIN dropped' :
           \/ j \in DOMAIN dropped /\ dropped'[j] = dropped[j]
           \/ dropped'[j] = r
  BY <1>4, <1>6, <1>7, DroppedOneMore
<1>9. raw' = Len(live') + Len(verified') + Len(dropped')
  <2>1. Len(live) \in Nat /\ Len(verified) \in Nat /\ Len(dropped) \in Nat
    BY LenProperties DEF IInv, TypeOK
  <2> QED BY <1>2, <1>4, <1>5, <1>8, <2>1
<1>10. TypeOK'
  BY <1>2, <1>5, <1>8 DEF IInv, TypeOK
<1>11. ListShape'
  BY <1>2, <1>3, <1>4, <1>5, <1>8, <1>9 DEF ListShape
<1>12. HomeShape'
  <2>1. Range(live') \cup Range(InHand') \subseteq Range(live) \cup Range(InHand)
    BY <1>3, <1>5
  <2> QED BY <1>2, <2>1 DEF IInv, HomeShape
<1>13. StartShape' /\ ReportShape' /\ IndicesHome' /\ SitesKept'
  BY <1>2 DEF IInv, StartShape, ReportShape, IndicesHome, SitesKept
<1>14. IndexShape'
  <2>1. \A j \in DOMAIN dropped : dropped[j].canonical = {}
    BY <1>2 DEF IInv, IndexShape, Deduped
  <2>2. \A j \in DOMAIN dropped' : dropped'[j].canonical = {}
    BY <1>6, <1>8, <2>1
  <2> QED BY <2>2 DEF IndexShape
<1> QED BY <1>10, <1>11, <1>12, <1>13, <1>14 DEF IInv

(* A removal of duplicates, whatever stage asks for it: d are the entries  *)
(* that are there before it, without places.                               *)
LEMMA RemovalKeeps ==
  ASSUME IInv, NEW list \in Seq(Finding), IsInjective(list),
         \A j \in DOMAIN list : into[list[j]] = NoOne /\ home[list[j]] = list[j],
         NEW canon, Backward(list, canon), Merge(list, canon),
         NEW d \in Seq(DropRecord), Once(d), Names(d) \cap Range(list) = {},
         \A i \in DOMAIN d : d[i].canonical = {},
         NEW placed \in BOOLEAN,
         live' = Canonicals(list, canon),
         dropped' = d \o DuplicateDrops(list, canon, placed)
  PROVE  /\ live' \in Seq(Finding) /\ IsInjective(live')
         /\ Range(live') \subseteq Range(list)
         /\ dropped' \in Seq(DropRecord) /\ Once(dropped')
         /\ Names(dropped') \subseteq Names(d) \cup Range(list)
         /\ Range(live') \cap Names(dropped') = {}
         /\ Len(live') + Len(dropped') = Len(list) + Len(d)
         /\ Len(live') \in Nat /\ Len(dropped') \in Nat
         /\ home' \in [Finding -> Finding]
         /\ into' \in [Finding -> Finding \cup {NoOne}]
         /\ SitesKept'
         /\ \A f \in Range(live') : into'[f] = NoOne /\ home'[f] = f
         /\ \A i \in DOMAIN dropped' : \A c \in dropped'[i].canonical :
              /\ placed /\ c + 1 \in DOMAIN live'
              /\ live'[c + 1] = home'[dropped'[i].finding]
<1> DEFINE e == DuplicateDrops(list, canon, placed)
           open == {j \in DOMAIN list : canon[j] = 0}
           merged == {j \in DOMAIN list : canon[j] # 0}
           Place(i) == IF placed THEN {NewIndex(canon, Root(canon, i))} ELSE {}
<1>1. /\ home' \in [Finding -> Finding] /\ into' \in [Finding -> Finding \cup {NoOne}]
      /\ SitesKept'
      /\ \A j \in DOMAIN list : home'[list[j]] = list[Root(canon, j)]
      /\ \A j \in DOMAIN list : canon[j] = 0 =>
           into'[list[j]] = NoOne /\ home'[list[j]] = list[j]
  BY MergeKeeps DEF IInv
<1>2. /\ live' \in Seq(Finding) /\ IsInjective(live')
      /\ Range(live') = {list[i] : i \in open}
      /\ \A i \in DOMAIN list : canon[i] = 0 =>
           /\ NewIndex(canon, i) \in Nat
           /\ NewIndex(canon, i) + 1 \in DOMAIN live'
           /\ live'[NewIndex(canon, i) + 1] = list[i]
  BY CanonicalsLists
<1>3. /\ e \in Seq(DropRecord) /\ Once(e)
      /\ Names(e) = {list[i] : i \in merged}
      /\ Len(live') + Len(e) = Len(list)
      /\ \A p \in DOMAIN e : \E i \in DOMAIN list :
           /\ e[p].finding = list[i]
           /\ e[p].canonical = Place(i)
  <2>1. Entered(list, canon, placed, DuplicateDrops(list, canon, placed))
    BY DuplicateDropsLists
  <2>2. live' = Canonicals(list, canon) /\ e = DuplicateDrops(list, canon, placed)
    OBVIOUS
  <2> HIDE DEF e
  <2>3. Entered(list, canon, placed, e)
    BY <2>1, <2>2
  <2>4. \A i : Place(i) = IF placed THEN {NewIndex(canon, Root(canon, i))} ELSE {}
    OBVIOUS
  <2> HIDE DEF Place
  <2> QED BY <2>2, <2>3, <2>4 DEF Entered
<1>4. /\ dropped' = d \o e
      /\ Range(live') \subseteq Range(list) /\ Names(e) \subseteq Range(list)
      /\ Range(live') \cap Names(e) = {}
  <2>1. Range(live') \subseteq Range(list) /\ Names(e) \subseteq Range(list)
    BY <1>2, <1>3 DEF Range
  <2>2. \A i \in open, j \in merged : list[i] # list[j]
    BY DEF IsInjective
  <2>3. Range(live') \cap Names(e) = {}
    <3> HIDE DEF open, merged
    <3> QED BY <1>2, <1>3, <2>2
  <2>4. dropped' = d \o e
    OBVIOUS
  <2> QED BY <2>1, <2>3, <2>4
<1>5. \A i \in DOMAIN list : Root(canon, i) \in DOMAIN list /\ canon[Root(canon, i)] = 0
  BY RootFound
<1> HIDE DEF e, open, merged, Place
<1>6. /\ dropped' \in Seq(DropRecord) /\ Once(dropped')
      /\ Names(dropped') = Names(d) \cup Names(e)
      /\ Len(dropped') = Len(d) + Len(e)
      /\ \A i \in DOMAIN dropped' :
           \/ i \in DOMAIN d /\ dropped'[i] = d[i]
           \/ i - Len(d) \in DOMAIN e /\ dropped'[i] = e[i - Len(d)]
  <2>1. Names(d) \cap Names(e) = {}
    BY <1>4
  <2> QED BY <1>3, <1>4, <2>1, DropsJoin
<1>7. Len(d) \in Nat /\ Len(e) \in Nat /\ Len(live') \in Nat /\ Len(list) \in Nat
  BY <1>2, <1>3, LenProperties
<1>8. Range(live') \cap Names(dropped') = {}
  BY <1>4, <1>6
<1>9. ASSUME NEW i \in DOMAIN dropped', NEW c \in dropped'[i].canonical
      PROVE  placed /\ c + 1 \in DOMAIN live' /\ live'[c + 1] = home'[dropped'[i].finding]
  <2>1. \E p \in DOMAIN e : dropped'[i] = e[p]
    BY <1>6, <1>9
  <2>2. PICK j \in DOMAIN list : dropped'[i].finding = list[j] /\ dropped'[i].canonical = Place(j)
    BY <1>3, <2>1
  <2>3. placed /\ c = NewIndex(canon, Root(canon, j))
    BY <1>9, <2>2 DEF Place
  <2>4. c + 1 \in DOMAIN live' /\ live'[c + 1] = list[Root(canon, j)]
    BY <1>2, <1>5, <2>3
  <2> QED BY <1>1, <2>2, <2>3, <2>4
<1>10. \A f \in Range(live') : into'[f] = NoOne /\ home'[f] = f
  BY <1>1, <1>2 DEF open
<1>11. Len(live') + Len(dropped') = Len(list) + Len(d)
  <2>1. Len(live') + Len(e) = Len(list) /\ Len(dropped') = Len(d) + Len(e)
    BY <1>3, <1>6
  <2>2. Len(live') + (Len(d) + Len(e)) = (Len(live') + Len(e)) + Len(d)
    BY <1>7
  <2> QED BY <2>1, <2>2, Zenon
<1>12. Len(dropped') \in Nat
  BY <1>6, <1>7
<1>13. Names(dropped') \subseteq Names(d) \cup Range(list)
  BY <1>4, <1>6
<1> QED BY <1>1, <1>2, <1>4, <1>6, <1>7, <1>8, <1>9, <1>10, <1>11, <1>12, <1>13

(* The semantic pass of S5.                                                *)
LEMMA PreVerifyDedupKeeps ==
  ASSUME IInv, PreVerifyDedup
  PROVE  IInv'
<1>1. /\ phase = "pre-dedup" /\ phase' = "verify"
      /\ UNCHANGED <<runs, chunk, verified, band, report, raw, meant>>
  BY DEF PreVerifyDedup
<1>2. PICK canon \in SemanticCanonical(TrivialCanonical(live)) :
        /\ live' = Canonicals(live, canon)
        /\ dropped' = dropped \o DuplicateDrops(live, canon, FALSE)
        /\ Merge(live, canon)
  BY DEF PreVerifyDedup
<1>3. /\ live \in Seq(Finding) /\ dropped \in Seq(DropRecord) /\ IsInjective(live)
      /\ Once(dropped) /\ Range(live) \cap Names(dropped) = {}
      /\ raw = Len(live) + Len(InHand) + Len(dropped)
      /\ verified = <<>> /\ InHand = <<>> /\ InHand' = <<>>
      /\ \A i \in DOMAIN dropped : dropped[i].canonical = {}
  BY <1>1 DEF IInv, TypeOK, ListShape, StartShape, IndexShape, InHand, Deduped
<1>4. \A j \in DOMAIN live : into[live[j]] = NoOne /\ home[live[j]] = live[j]
  <2>1. \A j \in DOMAIN live : live[j] \in Finding /\ live[j] \in Range(live)
    BY <1>3, LenProperties DEF Range
  <2> QED BY <2>1 DEF IInv, HomeShape
<1>5. Backward(live, canon)
  BY <1>2, <1>3, TrivialBackward, SemanticBackward
<1>6. /\ live' \in Seq(Finding) /\ IsInjective(live')
      /\ dropped' \in Seq(DropRecord) /\ Once(dropped')
      /\ Range(live') \cap Names(dropped') = {}
      /\ Len(live') + Len(dropped') = Len(live) + Len(dropped)
      /\ Len(live') \in Nat /\ Len(dropped') \in Nat
      /\ home' \in [Finding -> Finding] /\ into' \in [Finding -> Finding \cup {NoOne}]
      /\ SitesKept'
      /\ \A f \in Range(live') : into'[f] = NoOne /\ home'[f] = f
      /\ \A i \in DOMAIN dropped' : \A c \in dropped'[i].canonical : FALSE
  BY <1>2, <1>3, <1>4, <1>5, RemovalKeeps
<1>7. Range(<<>>) = {} /\ IsInjective(<<>>) /\ Len(<<>>) = 0
  BY DEF Range, IsInjective
<1>8. TypeOK'
  BY <1>1, <1>6 DEF IInv, TypeOK
<1>9. ListShape'
  <2>1. Len(live) \in Nat /\ Len(dropped) \in Nat
    BY <1>3, LenProperties
  <2>2. raw' = Len(live') + Len(InHand') + Len(dropped')
    BY <1>1, <1>3, <1>6, <1>7, <2>1
  <2> QED BY <1>3, <1>6, <1>7, <2>2 DEF ListShape
<1>10. HomeShape'
  BY <1>1, <1>3, <1>6, <1>7 DEF HomeShape
<1>11. StartShape' /\ ReportShape' /\ IndicesHome'
  BY <1>1 DEF IInv, StartShape, ReportShape, IndicesHome
<1>12. IndexShape'
  BY <1>6 DEF IndexShape
<1> QED BY <1>6, <1>8, <1>9, <1>10, <1>11, <1>12 DEF IInv

(* S7.                                                                     *)
LEMMA DedupKeeps ==
  ASSUME IInv, Dedup
  PROVE  IInv'
<1>1. /\ phase = "verify" /\ phase' = "enrich" /\ live = <<>>
      /\ UNCHANGED <<runs, chunk, verified, band, report, raw, meant>>
  BY DEF Dedup
<1>2. PICK canon \in SemanticCanonical(TrivialCanonical(verified)) :
        /\ live' = Canonicals(verified, canon)
        /\ dropped' = dropped \o DuplicateDrops(verified, canon, TRUE)
        /\ Merge(verified, canon)
  BY DEF Dedup
<1>3. InHand = verified /\ InHand' = <<>>
  BY <1>1 DEF InHand, Deduped
<1>4. /\ verified \in Seq(Finding) /\ dropped \in Seq(DropRecord)
      /\ IsInjective(verified) /\ Once(dropped)
      /\ Range(verified) \cap Names(dropped) = {}
      /\ raw = Len(live) + Len(verified) + Len(dropped)
      /\ \A i \in DOMAIN dropped : dropped[i].canonical = {}
  BY <1>1, <1>3 DEF IInv, TypeOK, ListShape, IndexShape, Deduped
<1>5. \A j \in DOMAIN verified : into[verified[j]] = NoOne /\ home[verified[j]] = verified[j]
  <2>1. \A j \in DOMAIN verified : verified[j] \in Finding /\ verified[j] \in Range(verified)
    BY <1>4, LenProperties DEF Range
  <2> QED BY <1>3, <2>1 DEF IInv, HomeShape
<1>6. Backward(verified, canon)
  BY <1>2, <1>4, TrivialBackward, SemanticBackward
<1>7. /\ live' \in Seq(Finding) /\ IsInjective(live')
      /\ dropped' \in Seq(DropRecord) /\ Once(dropped')
      /\ Range(live') \cap Names(dropped') = {}
      /\ Len(live') + Len(dropped') = Len(verified) + Len(dropped)
      /\ Len(live') \in Nat /\ Len(dropped') \in Nat
      /\ home' \in [Finding -> Finding] /\ into' \in [Finding -> Finding \cup {NoOne}]
      /\ SitesKept'
      /\ \A f \in Range(live') : into'[f] = NoOne /\ home'[f] = f
      /\ \A i \in DOMAIN dropped' : \A c \in dropped'[i].canonical :
           TRUE /\ c + 1 \in DOMAIN live' /\ live'[c + 1] = home'[dropped'[i].finding]
  <2>1. Names(dropped) \cap Range(verified) = {}
    BY <1>4
  <2> QED BY <1>2, <1>4, <1>5, <1>6, <2>1, RemovalKeeps
<1>8. Range(<<>>) = {} /\ IsInjective(<<>>) /\ Len(<<>>) = 0
  BY DEF Range, IsInjective
<1>9. TypeOK'
  BY <1>1, <1>7 DEF IInv, TypeOK
<1>10. ListShape'
  <2>1. Len(verified) \in Nat /\ Len(dropped) \in Nat
    BY <1>4, LenProperties
  <2>2. raw' = Len(live') + Len(InHand') + Len(dropped')
    BY <1>1, <1>3, <1>4, <1>7, <1>8, <2>1
  <2> QED BY <1>3, <1>7, <1>8, <2>2 DEF ListShape
<1>11. HomeShape'
  BY <1>1, <1>3, <1>7, <1>8 DEF HomeShape
<1>12. StartShape' /\ ReportShape' /\ IndicesHome'
  BY <1>1 DEF IInv, StartShape, ReportShape, IndicesHome
<1>13. IndexShape'
  BY <1>1, <1>7 DEF IndexShape, Deduped
<1> QED BY <1>7, <1>9, <1>10, <1>11, <1>12, <1>13 DEF IInv

(* What the gates of S5 drop: each finding once, without a place.          *)
LEMMA GatedLists ==
  ASSUME NEW gone \in Seq(Finding), IsInjective(gone),
         \A i \in DOMAIN gone : GateOf(gone[i]) # "keep",
         NEW d, d = [i \in DOMAIN gone |-> Drop(gone[i], GateOf(gone[i]), {})]
  PROVE  /\ d \in Seq(DropRecord) /\ Once(d) /\ Names(d) = Range(gone)
         /\ Len(d) = Len(gone)
         /\ \A i \in DOMAIN d : d[i].canonical = {}
<1>1. /\ DOMAIN gone = 1 .. Len(gone) /\ Len(gone) \in Nat
      /\ \A i \in DOMAIN gone : gone[i] \in Finding
  BY LenProperties
<1>2. \A i \in DOMAIN gone : GateOf(gone[i]) \in Reasons
  BY DEF GateOf, Reasons
<1>3. \A i \in DOMAIN gone : /\ d[i] \in DropRecord /\ d[i].finding = gone[i]
                             /\ d[i].canonical = {}
  BY <1>1, <1>2 DEF Drop, DropRecord
<1>4. d \in [1 .. Len(gone) -> DropRecord]
  BY <1>1, <1>3
<1>5. d \in Seq(DropRecord) /\ Len(d) = Len(gone) /\ DOMAIN d = DOMAIN gone
  BY <1>1, <1>4, AsList
<1>6. Once(d)
  BY <1>3, <1>5 DEF Once, IsInjective
<1>7. Names(d) = Range(gone)
  <2>1. ASSUME NEW x \in Names(d) PROVE x \in Range(gone)
    BY <1>3, <1>5, <2>1 DEF Names, Range
  <2>2. ASSUME NEW x \in Range(gone) PROVE x \in Names(d)
    BY <1>3, <1>5, <2>2 DEF Names, Range
  <2> QED BY <2>1, <2>2
<1> QED BY <1>3, <1>5, <1>6, <1>7

(* S5: its gates and its removal of duplicates.                            *)
LEMMA PrefilterKeeps ==
  ASSUME IInv, Prefilter
  PROVE  IInv'
<1> DEFINE K == {i \in DOMAIN live : GateOf(live[i]) = "keep"}
           G == {i \in DOMAIN live : GateOf(live[i]) # "keep"}
           keep == Picked(live, K)
           gone == Picked(live, G)
           canon == TrivialCanonical(keep)
           d == [i \in DOMAIN gone |-> Drop(gone[i], GateOf(gone[i]), {})]
<1>1. /\ phase = "prefilter" /\ phase' \in {"pre-dedup", "verify"}
      /\ UNCHANGED <<runs, chunk, verified, band, report, raw, meant>>
      /\ live' = Canonicals(keep, canon)
      /\ dropped' = d \o DuplicateDrops(keep, canon, FALSE)
      /\ Merge(keep, canon)
  BY DEF Prefilter
<1>2. /\ live \in Seq(Finding) /\ IsInjective(live)
      /\ verified = <<>> /\ dropped = <<>> /\ InHand = <<>> /\ InHand' = <<>>
      /\ raw = Len(live) + Len(InHand) + Len(dropped)
  BY <1>1 DEF IInv, TypeOK, ListShape, StartShape, InHand, Deduped
<1>3. /\ K \in SUBSET (DOMAIN live) /\ G \in SUBSET (DOMAIN live)
      /\ K \cup G = DOMAIN live /\ K \cap G = {}
      /\ \A i \in G : GateOf(live[i]) # "keep"
      /\ \A i \in K, j \in G : live[i] # live[j]
  <2>1. \A i \in K, j \in G : live[i] # live[j]
    OBVIOUS
  <2> QED BY <2>1
<1> HIDE DEF K, G
<1>4. /\ keep \in Seq(Finding) /\ IsInjective(keep) /\ Range(keep) = {live[i] : i \in K}
      /\ gone \in Seq(Finding) /\ IsInjective(gone) /\ Range(gone) = {live[i] : i \in G}
  BY <1>2, <1>3, PickedLists
<1>5. Len(keep) + Len(gone) = Len(live) /\ Len(keep) \in Nat /\ Len(gone) \in Nat
  BY <1>2, <1>3, PickedSplit
<1>6. \A i \in DOMAIN gone : GateOf(gone[i]) # "keep"
  <2>1. \A i \in DOMAIN gone : gone[i] \in Range(gone)
    BY DEF Range
  <2> HIDE DEF gone
  <2> QED BY <1>3, <1>4, <2>1
<1>7. \A j \in DOMAIN keep : into[keep[j]] = NoOne /\ home[keep[j]] = keep[j]
  <2>1. \A f \in Range(live) : f \in Finding
    BY <1>2, LenProperties DEF Range
  <2>2. Range(keep) \subseteq Range(live)
    BY <1>3, <1>4 DEF Range
  <2>3. \A j \in DOMAIN keep : keep[j] \in Range(keep)
    BY DEF Range
  <2> HIDE DEF keep
  <2> QED BY <2>1, <2>2, <2>3 DEF IInv, HomeShape
<1> HIDE DEF keep, gone
<1>8. Backward(keep, canon)
  BY <1>4, TrivialBackward
<1>9. /\ d \in Seq(DropRecord) /\ Once(d) /\ Names(d) = Range(gone)
      /\ Len(d) = Len(gone)
      /\ \A i \in DOMAIN d : d[i].canonical = {}
  BY <1>4, <1>6, GatedLists
<1> HIDE DEF canon, d
<1>10. Names(d) \cap Range(keep) = {}
  BY <1>3, <1>4, <1>9
<1>11. /\ live' \in Seq(Finding) /\ IsInjective(live')
       /\ dropped' \in Seq(DropRecord) /\ Once(dropped')
       /\ Range(live') \cap Names(dropped') = {}
       /\ Len(live') + Len(dropped') = Len(keep) + Len(d)
       /\ Len(live') \in Nat /\ Len(dropped') \in Nat
       /\ home' \in [Finding -> Finding] /\ into' \in [Finding -> Finding \cup {NoOne}]
       /\ SitesKept'
       /\ \A f \in Range(live') : into'[f] = NoOne /\ home'[f] = f
       /\ \A i \in DOMAIN dropped' : \A c \in dropped'[i].canonical : FALSE
  BY <1>1, <1>4, <1>7, <1>8, <1>9, <1>10, RemovalKeeps
<1>12. Range(<<>>) = {} /\ IsInjective(<<>>) /\ Len(<<>>) = 0
  BY DEF Range, IsInjective
<1>13. TypeOK'
  BY <1>1, <1>11 DEF IInv, TypeOK
<1>14. ListShape'
  <2>1. Len(live') + Len(dropped') = Len(live)
    BY <1>5, <1>9, <1>11
  <2>2. raw = Len(live) + 0 + 0 /\ Len(live) \in Nat
    <3>1. Len(InHand) = 0 /\ Len(dropped) = 0
      BY <1>2, <1>12
    <3> QED BY <1>2, <3>1, LenProperties
  <2>3. raw' = Len(live') + 0 + Len(dropped')
    <3>1. raw' = raw
      BY <1>1
    <3>2. Len(live') + 0 + Len(dropped') = Len(live') + Len(dropped')
      BY <1>11
    <3>3. Len(live) + 0 + 0 = Len(live)
      BY <2>2
    <3> QED BY <2>1, <2>2, <3>1, <3>2, <3>3, Zenon
  <2>4. raw' = Len(live') + Len(InHand') + Len(dropped')
    BY <1>2, <1>12, <2>3
  <2> QED BY <1>2, <1>11, <1>12, <2>4 DEF ListShape
<1>15. HomeShape'
  BY <1>1, <1>2, <1>11, <1>12 DEF HomeShape
<1>16. StartShape' /\ ReportShape' /\ IndicesHome'
  BY <1>1 DEF IInv, StartShape, ReportShape, IndicesHome
<1>17. IndexShape'
  BY <1>11 DEF IndexShape
<1> QED BY <1>11, <1>13, <1>14, <1>15, <1>16, <1>17 DEF IInv

(* The enrichment changes no list.                                         *)
LEMMA EnrichKeeps ==
  ASSUME IInv, Enrich
  PROVE  IInv'
<1>1. /\ phase = "enrich" /\ phase' = "chain" /\ band' \in [Finding -> BaseBands]
      /\ UNCHANGED <<runs, chunk, live, verified, dropped, duplicates, report, raw,
                     into, home, meant>>
  BY DEF Enrich
<1>2. InHand' = InHand /\ Deduped /\ Deduped'
  BY <1>1 DEF InHand, Deduped
<1>3. TypeOK'
  BY <1>1 DEF IInv, TypeOK
<1>4. StartShape' /\ ReportShape' /\ IndicesHome' /\ SitesKept'
  BY <1>1 DEF IInv, StartShape, ReportShape, IndicesHome, SitesKept
<1>5. ListShape'
  BY <1>1, <1>2 DEF IInv, ListShape
<1>6. HomeShape' /\ IndexShape'
  BY <1>1, <1>2 DEF IInv, HomeShape, IndexShape
<1> QED BY <1>3, <1>4, <1>5, <1>6 DEF IInv

(* The report of a scan with findings, ranked by the model or not.         *)
LEMMA ReportKeeps ==
  ASSUME IInv, phase = "chain", phase' = "done",
         UNCHANGED <<runs, chunk, live, verified, duplicates, band, raw, into, home>>,
         NEW rank, Permutes(rank, Len(live)),
         NEW label \in [DOMAIN live -> Int], NEW steps \in Seq(Nat), NEW degraded,
         Hydrated(rank, label, steps, degraded)
  PROVE  IInv'
<1>1. /\ live \in Seq(Finding) /\ IsInjective(live) /\ dropped \in Seq(DropRecord)
      /\ InHand = <<>> /\ InHand' = <<>> /\ Deduped'
      /\ \A i \in DOMAIN dropped : \A c \in dropped[i].canonical :
           c + 1 \in DOMAIN live /\ live[c + 1] = home[dropped[i].finding]
  BY DEF IInv, TypeOK, ListShape, IndexShape, InHand, Deduped
<1>2. /\ report'.ranked \in Seq(Finding) /\ IsInjective(report'.ranked)
      /\ Range(report'.ranked) = Range(live)
      /\ Len(report'.ranked) = Len(live)
      /\ dropped' \in Seq(DropRecord) /\ DOMAIN dropped' = DOMAIN dropped
      /\ Len(dropped') = Len(dropped)
      /\ \A i \in DOMAIN dropped : dropped'[i].finding = dropped[i].finding
      /\ \A i \in DOMAIN dropped : \A c \in dropped'[i].canonical :
           report'.ranked[c + 1] = home[dropped[i].finding]
      /\ [i \in DOMAIN report'.chain |-> report'.ranked[report'.chain[i]]] = meant'
  BY <1>1, HydratedReport DEF IInv
<1>3. TypeOK'
  BY <1>2 DEF IInv, TypeOK
<1>4. StartShape' /\ SitesKept'
  BY DEF IInv, StartShape, SitesKept
<1>5. ListShape'
  <2>1. Names(dropped') = Names(dropped) /\ (Once(dropped) => Once(dropped'))
    <3>1. /\ DOMAIN dropped' = DOMAIN dropped
          /\ \A i \in DOMAIN dropped : dropped'[i].finding = dropped[i].finding
      BY <1>2
    <3>2. ASSUME NEW x \in Names(dropped') PROVE x \in Names(dropped)
      BY <3>1, <3>2 DEF Names
    <3>3. ASSUME NEW x \in Names(dropped) PROVE x \in Names(dropped')
      BY <3>1, <3>3 DEF Names
    <3>4. Once(dropped) => Once(dropped')
      BY <3>1 DEF Once
    <3> QED BY <3>2, <3>3, <3>4
  <2> QED BY <1>1, <1>2, <2>1 DEF IInv, ListShape
<1>6. HomeShape' /\ IndexShape'
  BY <1>1 DEF IInv, HomeShape, IndexShape
<1>7. ReportShape'
  BY <1>2 DEF ReportShape
<1>8. IndicesHome'
  <2>1. \A i \in DOMAIN dropped' : \A c \in dropped'[i].canonical :
          report'.ranked[c + 1] = home'[dropped'[i].finding]
    BY <1>2
  <2> QED BY <1>2, <2>1 DEF IndicesHome
<1> QED BY <1>3, <1>4, <1>5, <1>6, <1>7, <1>8 DEF IInv

(* S8.                                                                     *)
LEMMA ChainKeeps ==
  ASSUME IInv, NothingToChain \/ Chained \/ Unranked
  PROVE  IInv'
<1>1. live \in Seq(Finding) /\ DOMAIN live = 1 .. Len(live) /\ Len(live) \in Nat
      /\ Info \in Int
  BY FlowAssumption, LenProperties DEF IInv, TypeOK, Info
<1>2. CASE NothingToChain
  <2>1. /\ phase = "chain" /\ phase' = "done" /\ live = <<>>
        /\ report = NoReport /\ meant = <<>>
        /\ UNCHANGED <<runs, chunk, live, verified, dropped, duplicates, band, report, raw,
                       into, home, meant>>
    BY <1>2 DEF NothingToChain, IInv, StartShape
  <2>2. InHand' = InHand /\ Deduped /\ Deduped'
    BY <2>1 DEF InHand, Deduped
  <2>3. TypeOK' /\ StartShape' /\ SitesKept'
    BY <2>1 DEF IInv, TypeOK, StartShape, SitesKept
  <2>4. ListShape' /\ HomeShape'
    BY <2>1, <2>2 DEF IInv, ListShape, HomeShape
  <2>5. IndexShape'
    BY <2>1, <2>2 DEF IInv, IndexShape
  <2>6. ReportShape'
    BY <2>1, EmptySeq DEF ReportShape, NoReport, IsInjective
  <2>7. IndicesHome'
    <3>1. \A i \in DOMAIN dropped : \A c \in dropped[i].canonical : c + 1 \in DOMAIN live
      BY <2>1 DEF IInv, IndexShape
    <3>2. DOMAIN live = {}
      BY <2>1
    <3>3. [i \in DOMAIN report'.chain |-> report'.ranked[report'.chain[i]]] = meant'
      BY <2>1 DEF NoReport
    <3> QED BY <2>1, <3>1, <3>2, <3>3 DEF IndicesHome
  <2> QED BY <2>3, <2>4, <2>5, <2>6, <2>7 DEF IInv
<1>3. CASE Chained
  <2>1. PICK named \in NamedRankings, steps \in ChainReplies :
          \E label \in [1 .. Len(named) -> {1, Info}] :
            Hydrated(Completed(named),
                     [i \in 1 .. Len(live) |-> IF i <= Len(named) THEN label[i] ELSE Info],
                     steps, FALSE)
    BY <1>3 DEF Chained
  <2>2. PICK label \in [1 .. Len(named) -> {1, Info}] :
          Hydrated(Completed(named),
                   [i \in 1 .. Len(live) |-> IF i <= Len(named) THEN label[i] ELSE Info],
                   steps, FALSE)
    BY <2>1
  <2> DEFINE labels == [i \in 1 .. Len(live) |-> IF i <= Len(named) THEN label[i] ELSE Info]
  <2>3. Permutes(Completed(named), Len(live)) /\ named \in Seq(Nat)
    BY <1>1, CompletedPermutes
  <2>4. labels \in [DOMAIN live -> Int]
    <3>1. Len(named) \in Nat
      BY <2>3, LenProperties
    <3>2. \A i \in 1 .. Len(live) : i <= Len(named) => label[i] \in Int
      <4> TAKE i \in 1 .. Len(live)
      <4>1. i <= Len(named) => i \in 1 .. Len(named)
        BY <1>1, <3>1
      <4> QED BY <1>1, <4>1
    <3> QED BY <1>1, <3>2
  <2>5. steps \in Seq(Nat)
    <3>1. CASE steps = <<0>>
      <4>1. <<0>> \in Seq(Nat)
        OBVIOUS
      <4> QED BY <3>1, <4>1
    <3>2. ASSUME NEW a \in DOMAIN live, NEW b \in DOMAIN live, steps = <<a, 0, b>>
          PROVE  steps \in Seq(Nat)
      <4>1. a \in Nat /\ b \in Nat
        BY <1>1
      <4> QED BY <3>2, <4>1
    <3> QED BY <3>1, <3>2 DEF ChainReplies
  <2>6. Hydrated(Completed(named), labels, steps, FALSE)
    BY <2>2
  <2>7. /\ phase = "chain" /\ phase' = "done"
        /\ UNCHANGED <<runs, chunk, live, verified, duplicates, band, raw, into, home>>
    BY <1>3 DEF Chained
  <2> HIDE DEF labels
  <2> QED BY <2>3, <2>4, <2>5, <2>6, <2>7, ReportKeeps
<1>4. CASE Unranked
  <2> DEFINE rank == [i \in DOMAIN live |-> i]
             labels == [i \in DOMAIN live |-> Info]
  <2>1. Permutes(rank, Len(live)) /\ labels \in [DOMAIN live -> Int] /\ <<>> \in Seq(Nat)
    BY <1>1, EmptySeq DEF Permutes
  <2>2. Hydrated(rank, labels, <<>>, TRUE)
    BY <1>4 DEF Unranked
  <2>3. /\ phase = "chain" /\ phase' = "done"
        /\ UNCHANGED <<runs, chunk, live, verified, duplicates, band, raw, into, home>>
    BY <1>4 DEF Unranked
  <2> HIDE DEF rank, labels
  <2> QED BY <2>1, <2>2, <2>3, ReportKeeps
<1> QED BY <1>2, <1>3, <1>4

(* The invariant holds in every state of every scan.                       *)
LEMMA FlowInvariance == Spec => []IInv
<1>1. Init => IInv
  BY StartHolds
<1>2. IInv /\ [Next]_vars => IInv'
  <2> SUFFICES ASSUME IInv, [Next]_vars PROVE IInv'
    OBVIOUS
  <2>1. CASE UNCHANGED vars
    <3>1. UNCHANGED <<phase, chunk, runs, live, verified, dropped, duplicates, band, report,
                      raw, into, home, meant>>
      BY <2>1 DEF vars
    <3>2. InHand' = InHand /\ Deduped' = Deduped
      BY <3>1 DEF InHand, Deduped
    <3>3. TypeOK' /\ StartShape' /\ SitesKept' /\ ReportShape' /\ IndicesHome'
      BY <3>1 DEF IInv, TypeOK, StartShape, SitesKept, ReportShape, IndicesHome
    <3>4. ListShape' /\ HomeShape' /\ IndexShape'
      BY <3>1, <3>2 DEF IInv, ListShape, HomeShape, IndexShape
    <3> QED BY <3>3, <3>4 DEF IInv
  <2>2. CASE Next /\ ~UNCHANGED vars
    BY <2>2, DeepStepKeeps, CollapseKeeps, PrefilterKeeps, PreVerifyDedupKeeps, ConfirmKeeps,
       RefuteKeeps, DedupKeeps, EnrichKeeps, ChainKeeps DEF Next, Rest
  <2> QED BY <2>1, <2>2
<1> QED BY <1>1, <1>2, PTL DEF Spec

-----------------------------------------------------------------------------
(* The properties.                                                         *)

(* Entries of two disjoint sets of reasons are counted separately.         *)
LEMMA TallySplit ==
  ASSUME dropped \in Seq(DropRecord), NEW A, NEW B, A \cap B = {}
  PROVE  Tally(A) \in Nat /\ Tally(B) \in Nat /\ Tally(A \cup B) = Tally(A) + Tally(B)
<1> DEFINE At(S) == {i \in DOMAIN dropped : dropped[i].reason \in S}
<1>1. IsFiniteSet(DOMAIN dropped)
  BY LenProperties, IntervalSize
<1>2. /\ At(A) \in SUBSET (DOMAIN dropped) /\ At(B) \in SUBSET (DOMAIN dropped)
      /\ At(A) \cap At(B) = {} /\ At(A) \cup At(B) = At(A \cup B)
  OBVIOUS
<1>3. Tally(A) = Cardinality(At(A)) /\ Tally(B) = Cardinality(At(B))
      /\ Tally(A \cup B) = Cardinality(At(A \cup B))
  BY DEF Tally
<1> HIDE DEF At
<1>4. IsFiniteSet(At(A)) /\ IsFiniteSet(At(B))
  BY <1>1, <1>2, FS_Subset
<1>5. Cardinality(At(A)) \in Nat /\ Cardinality(At(B)) \in Nat
  BY <1>4, FS_CardinalityType
<1>6. Cardinality(At(A) \cup At(B))
        = Cardinality(At(A)) + Cardinality(At(B)) - Cardinality(At(A) \cap At(B))
  BY <1>4, FS_Union
<1>7. Cardinality(At(A) \cap At(B)) = 0
  BY <1>2, FS_EmptySet
<1>8. Cardinality(At(A \cup B)) = Cardinality(At(A)) + Cardinality(At(B))
  <2>1. Cardinality(At(A \cup B)) = Cardinality(At(A)) + Cardinality(At(B)) - 0
    BY <1>2, <1>6, <1>7, Zenon
  <2>2. Cardinality(At(A)) + Cardinality(At(B)) - 0
          = Cardinality(At(A)) + Cardinality(At(B))
    BY <1>5
  <2> QED BY <2>1, <2>2, Zenon
<1> QED BY <1>3, <1>5, <1>8

(* The counts of the report add up to the number of dropped findings.      *)
LEMMA CountsAddUp ==
  ASSUME dropped \in Seq(DropRecord)
  PROVE  Counts.fp + Counts.dup + Counts.verr + Counts.other = Len(dropped)
<1> DEFINE F == {"FALSE_POSITIVE"}
           D == {"DUPLICATE"}
           V == {"VERIFY_ERROR", "GUARDRAIL_BLOCKED"}
           O == {"EXCLUDED", "UNCONFIRMED"}
<1>1. /\ F \cap D = {} /\ (F \cup D) \cap V = {} /\ ((F \cup D) \cup V) \cap O = {}
      /\ Reasons = ((F \cup D) \cup V) \cup O
  BY DEF Reasons
<1>2. /\ Counts.fp = Tally(F) /\ Counts.dup = Tally(D) /\ Counts.verr = Tally(V)
      /\ Counts.other = Tally(O)
  BY DEF Counts
<1>3. Tally(Reasons) = Len(dropped)
  <2>1. {i \in DOMAIN dropped : dropped[i].reason \in Reasons} = DOMAIN dropped
    <3>1. ASSUME NEW i \in DOMAIN dropped PROVE dropped[i].reason \in Reasons
      <4>1. dropped[i] \in DropRecord
        BY LenProperties
      <4> QED BY <4>1 DEF DropRecord
    <3> QED BY <3>1
  <2> QED BY <2>1, LenProperties, IntervalSize DEF Tally
<1> HIDE DEF F, D, V, O
<1>4. Tally(F) \in Nat /\ Tally(D) \in Nat /\ Tally(F \cup D) = Tally(F) + Tally(D)
  BY <1>1, TallySplit
<1>5. Tally(V) \in Nat /\ Tally((F \cup D) \cup V) = Tally(F \cup D) + Tally(V)
  BY <1>1, TallySplit
<1>6. Tally(Reasons) = Tally((F \cup D) \cup V) + Tally(O)
  BY <1>1, TallySplit
<1> QED BY <1>2, <1>3, <1>4, <1>5, <1>6

(* From the end of S4 to the report no finding is lost, repeated or in two *)
(* places at once: the lists that run.py and the stages hand on, what S6   *)
(* has verified and the dropped entries are together the raw findings.     *)
THEOREM NothingLost == Spec => []ListShape
BY FlowInvariance, PTL DEF IInv

(* The counts of the report add up to the raw count, and a finding is      *)
(* reported once or dropped once, never both.                              *)
THEOREM FindingsAccounted == Spec => []Accounted
<1>1. IInv => Accounted
  <2> SUFFICES ASSUME IInv, phase = "done"
               PROVE  /\ raw = Counts.tp + Counts.fp + Counts.dup + Counts.verr + Counts.other
                      /\ Reported \cap DroppedOnes = {}
                      /\ Cardinality(DroppedOnes) = Len(dropped)
                      /\ IsInjective(report.ranked)
    BY DEF Accounted
  <2>1. /\ dropped \in Seq(DropRecord) /\ live \in Seq(Finding) /\ Once(dropped)
        /\ InHand = <<>> /\ Range(live) \cap Names(dropped) = {}
        /\ raw = Len(live) + Len(InHand) + Len(dropped)
        /\ IsInjective(report.ranked) /\ Range(report.ranked) = Range(live)
        /\ Len(report.ranked) = Len(live)
    BY DEF IInv, TypeOK, ListShape, ReportShape, InHand, Deduped
  <2>2. DOMAIN dropped = 1 .. Len(dropped) /\ Len(dropped) \in Nat /\ Len(live) \in Nat
    BY <2>1, LenProperties
  <2>3. Reported \cap DroppedOnes = {} /\ DroppedOnes = Names(dropped)
    BY <2>1 DEF Reported, DroppedOnes, Names
  <2>4. Cardinality(DroppedOnes) = Len(dropped)
    <3> DEFINE g == [i \in DOMAIN dropped |-> dropped[i].finding]
    <3>1. g \in [DOMAIN dropped -> Names(dropped)]
          /\ (\A i, j \in DOMAIN dropped : g[i] = g[j] => i = j)
          /\ (\A f \in Names(dropped) : \E i \in DOMAIN dropped : g[i] = f)
      BY <2>1 DEF Names, Once
    <3> HIDE DEF g
    <3>2. g \in Bijection(DOMAIN dropped, Names(dropped))
      BY <3>1, Fun_IsBij
    <3> QED BY <2>2, <2>3, <3>2, IntervalSize, FS_Bijection DEF ExistsBijection
  <2>5. raw = Counts.tp + Counts.fp + Counts.dup + Counts.verr + Counts.other
    <3>1. Counts.fp + Counts.dup + Counts.verr + Counts.other = Len(dropped)
      BY <2>1, CountsAddUp
    <3>2. Counts.tp = Len(live)
      BY <2>1 DEF Counts
    <3>3. /\ Counts.fp \in Nat /\ Counts.dup \in Nat
          /\ Counts.verr \in Nat /\ Counts.other \in Nat
      <4>1. \A A : Tally(A) \in Nat
        <5> TAKE A
        <5>1. A \cap {} = {}
          OBVIOUS
        <5> QED BY <2>1, <5>1, TallySplit
      <4> QED BY <4>1 DEF Counts
    <3>4. raw = Len(live) + Len(dropped)
      <4>1. Len(InHand) = 0
        BY <2>1
      <4> QED BY <2>1, <2>2, <4>1
    <3>5. Len(live) + (Counts.fp + Counts.dup + Counts.verr + Counts.other)
            = Len(live) + Counts.fp + Counts.dup + Counts.verr + Counts.other
      BY <2>2, <3>3
    <3> QED BY <3>1, <3>2, <3>4, <3>5, Zenon
  <2> QED BY <2>1, <2>3, <2>4, <2>5
<1> QED BY <1>1, FlowInvariance, PTL

(* "DUP of #N" names the finding that absorbed the duplicate in the end,   *)
(* and a chain's steps are the findings the model meant: S7's indices and  *)
(* the model's survive the sort of S8.                                     *)
THEOREM PlacesFollow == Spec => []IndicesHome
BY FlowInvariance, PTL DEF IInv

(* No call site is lost with its duplicate, through up to three removals:  *)
(* an absorbed finding is a call site of the one that stands for it in the *)
(* end, or overlaps the one that absorbed it.                              *)
THEOREM SitesSurvive == Spec => []SitesKept
BY FlowInvariance, PTL DEF IInv

(* P1 and P2 stand for exploitable from outside: offensive_priority_for    *)
(* gives them only when the CMDB says that the application is exposed,     *)
(* whatever the vector and the keywords.                                   *)
THEOREM ExposureNeeded == Spec => []ExposureBacked
<1>1. IInv => ExposureBacked
  <2>1. \A f : OffensivePriority(f) <= 2 => app = "external"
    BY DEF OffensivePriority
  <2> QED BY <2>1 DEF ExposureBacked
<1> QED BY <1>1, FlowInvariance, PTL


-----------------------------------------------------------------------------
(* Analysis: sets that are listed in an order.                             *)

(* A list that puts every member of a finite ordered set where its place   *)
(* is: it names each of them once.                                         *)
LEMMA PlacedList ==
  ASSUME NEW S, IsFiniteSet(S), NEW before, Ordered(S, before),
         NEW list \in [1 .. Cardinality(S) -> S],
         \A p \in 1 .. Cardinality(S) : Cardinality(before[list[p]]) = p - 1
  PROVE  /\ list \in Seq(S) /\ Len(list) = Cardinality(S) /\ Range(list) = S
         /\ IsInjective(list) /\ DOMAIN list = 1 .. Len(list) /\ Len(list) \in Nat
<1> DEFINE n == Cardinality(S)
<1>1. n \in Nat /\ Placed(S, before)
  BY FS_CardinalityType, PlacesTaken
<1>2. list \in Seq(S) /\ Len(list) = n /\ DOMAIN list = 1 .. n
  BY <1>1, AsList
<1> HIDE DEF n
<1>3. ASSUME NEW p \in 1 .. n, NEW q \in 1 .. n, list[p] = list[q] PROVE p = q
  <2>1. p - 1 = q - 1
    BY <1>3 DEF n
  <2> QED BY <1>1, <2>1
<1>4. ASSUME NEW x \in S PROVE \E p \in 1 .. n : list[p] = x
  <2> DEFINE p == Cardinality(before[x]) + 1
  <2>1. Cardinality(before[x]) \in 0 .. n - 1
    BY <1>1 DEF Placed, n
  <2>2. p \in 1 .. n /\ p - 1 = Cardinality(before[x])
    BY <1>1, <2>1
  <2> HIDE DEF p
  <2>3. list[p] \in S /\ Cardinality(before[list[p]]) = Cardinality(before[x])
    BY <1>1, <2>2 DEF n
  <2>4. list[p] = x
    BY <1>1, <2>3 DEF Placed
  <2> QED BY <2>2, <2>4
<1>5. Range(list) = S
  BY <1>2, <1>4 DEF Range
<1>6. IsInjective(list)
  BY <1>2, <1>3 DEF IsInjective
<1> QED BY <1>1, <1>2, <1>5, <1>6 DEF n

(* Every file has a rank of its own.                                       *)
LEMMA FilesRanked ==
  /\ IsFiniteSet(ToSet(Files)) /\ DOMAIN Files \in SUBSET Nat
  /\ \A f \in ToSet(Files) : FileRank(f) \in DOMAIN Files /\ Files[FileRank(f)] = f
<1>1. DOMAIN Files = 1 .. Len(Files) /\ Len(Files) \in Nat
  BY SeedAssumption, LenProperties DEF SeedAssumption
<1>2. IsFiniteSet(DOMAIN Files)
  BY <1>1, IntervalSize
<1>3. ToSet(Files) = {Files[i] : i \in DOMAIN Files}
  BY DEF ToSet
<1>4. IsFiniteSet(ToSet(Files))
  <2> DEFINE g == [i \in DOMAIN Files |-> Files[i]]
  <2>1. g \in Surjection(DOMAIN Files, ToSet(Files))
    BY <1>3 DEF Surjection
  <2> HIDE DEF g
  <2> QED BY <1>2, <2>1, FS_Surjection
<1>5. \A f \in ToSet(Files) : \E i \in DOMAIN Files : Files[i] = f
  BY <1>3
<1> QED BY <1>1, <1>4, <1>5 DEF FileRank

(* Files in the order of their names.                                      *)
LEMMA SortedLists ==
  ASSUME NEW S \in SUBSET ToSet(Files)
  PROVE  Sorted(S) \in Seq(S) /\ Range(Sorted(S)) = S /\ IsInjective(Sorted(S))
<1> DEFINE before == [x \in S |-> {y \in S : FileRank(y) < FileRank(x)}]
           n == Cardinality(S)
<1>1. IsFiniteSet(S) /\ n \in Nat
  BY FilesRanked, FS_Subset, FS_CardinalityType
<1>2. before \in [S -> SUBSET S] /\ \A x, y \in S : y \in before[x] <=> FileRank(y) < FileRank(x)
  OBVIOUS
<1>3. \A x \in S : FileRank(x) \in Nat
  BY FilesRanked
<1>4. \A x, y \in S : x # y => FileRank(x) # FileRank(y)
  BY FilesRanked
<1> HIDE DEF before
<1>5. Ordered(S, before)
  BY <1>2, <1>3, <1>4 DEF Ordered
<1>6. Placed(S, before)
  BY <1>1, <1>5, PlacesTaken
<1> DEFINE Nth(p) == CHOOSE x \in S : Cardinality({y \in S : FileRank(y) < FileRank(x)}) = p - 1
<1>7. Sorted(S) = [p \in 1 .. n |-> Nth(p)]
  BY DEF Sorted, InOrder
<1>8. ASSUME NEW p \in 1 .. n PROVE Nth(p) \in S /\ Cardinality(before[Nth(p)]) = p - 1
  <2>1. p - 1 \in 0 .. n - 1
    BY <1>1
  <2>2. PICK x \in S : Cardinality(before[x]) = p - 1
    BY <1>6, <2>1 DEF Placed
  <2>3. \A z \in S : before[z] = {y \in S : FileRank(y) < FileRank(z)}
    BY DEF before
  <2>4. Nth(p) \in S /\ Cardinality({y \in S : FileRank(y) < FileRank(Nth(p))}) = p - 1
    BY <2>2, <2>3
  <2> HIDE DEF Nth
  <2> QED BY <2>3, <2>4
<1> HIDE DEF Nth
<1>9. Sorted(S) \in [1 .. n -> S] /\ \A p \in 1 .. n : Cardinality(before[Sorted(S)[p]]) = p - 1
  BY <1>7, <1>8
<1> HIDE DEF n
<1>10. Sorted(S) \in [1 .. Cardinality(S) -> S]
       /\ \A p \in 1 .. Cardinality(S) : Cardinality(before[Sorted(S)[p]]) = p - 1
  BY <1>9 DEF n
<1>11. /\ Sorted(S) \in Seq(S) /\ Len(Sorted(S)) = Cardinality(S) /\ Range(Sorted(S)) = S
       /\ IsInjective(Sorted(S)) /\ DOMAIN Sorted(S) = 1 .. Len(Sorted(S)) 
       /\ Len(Sorted(S)) \in Nat
  <2> DEFINE list == Sorted(S)
  <2>1. list \in [1 .. Cardinality(S) -> S]
        /\ \A p \in 1 .. Cardinality(S) : Cardinality(before[list[p]]) = p - 1
    BY <1>10
  <2> HIDE DEF list
  <2>2. /\ list \in Seq(S) /\ Len(list) = Cardinality(S) /\ Range(list) = S
        /\ IsInjective(list) /\ DOMAIN list = 1 .. Len(list) /\ Len(list) \in Nat
    BY <1>1, <1>5, <2>1, PlacedList
  <2> QED BY <2>2 DEF list
<1> QED BY <1>11

-----------------------------------------------------------------------------
(* Analysis: the collapse of configuration files.                          *)

(* The members of a cluster in the order in which they stand for it: each  *)
(* of them once.                                                           *)
LEMMA MembersListed ==
  ASSUME NEW S \in SUBSET ToSet(Files)
  PROVE  LET members == InOrder(S, RepBefore)
         IN  /\ members \in Seq(S) /\ Len(members) = Cardinality(S) /\ Range(members) = S
             /\ IsInjective(members) /\ DOMAIN members = 1 .. Len(members)
             /\ Len(members) \in Nat
<1> DEFINE before == [x \in S |-> {y \in S : RepBefore(y, x)}]
           n == Cardinality(S)
           members == InOrder(S, RepBefore)
<1>1. IsFiniteSet(S) /\ n \in Nat
  BY FilesRanked, FS_Subset, FS_CardinalityType
<1>2. before \in [S -> SUBSET S] /\ \A x, y \in S : y \in before[x] <=> RepBefore(y, x)
  OBVIOUS
<1>3. \A x \in S : FileRank(x) \in Nat /\ Bytes[x] \in Nat /\ EnvRank(x) \in Nat
  BY FilesRanked, SeedAssumption DEF SeedAssumption, EnvRank
<1>4. \A x, y \in S : x # y => FileRank(x) # FileRank(y)
  BY FilesRanked
<1> HIDE DEF before
<1>5. Ordered(S, before)
  <2>1. \A x, y, z \in S : RepBefore(x, y) /\ RepBefore(y, z) => RepBefore(x, z)
    BY <1>3 DEF RepBefore
  <2>2. \A x, y \in S : ~RepBefore(x, x) /\ (x # y => RepBefore(x, y) \/ RepBefore(y, x))
    BY <1>3, <1>4 DEF RepBefore
  <2> QED BY <1>2, <2>1, <2>2 DEF Ordered
<1>6. Placed(S, before)
  BY <1>1, <1>5, PlacesTaken
<1> DEFINE Nth(p) == CHOOSE x \in S : Cardinality({y \in S : RepBefore(y, x)}) = p - 1
<1>7. members = [p \in 1 .. n |-> Nth(p)]
  BY DEF InOrder
<1> HIDE DEF members
<1>8. ASSUME NEW p \in 1 .. n PROVE Nth(p) \in S /\ Cardinality(before[Nth(p)]) = p - 1
  <2>1. p - 1 \in 0 .. n - 1
    BY <1>1
  <2>2. PICK x \in S : Cardinality(before[x]) = p - 1
    BY <1>6, <2>1 DEF Placed
  <2>3. \A z \in S : before[z] = {y \in S : RepBefore(y, z)}
    BY DEF before
  <2>4. Nth(p) \in S /\ Cardinality({y \in S : RepBefore(y, Nth(p))}) = p - 1
    BY <2>2, <2>3
  <2> HIDE DEF Nth
  <2> QED BY <2>3, <2>4
<1> HIDE DEF Nth
<1>9. members \in [1 .. n -> S] /\ \A p \in 1 .. n : Cardinality(before[members[p]]) = p - 1
  BY <1>7, <1>8
<1>10. /\ members \in Seq(S) /\ Len(members) = Cardinality(S) /\ Range(members) = S
       /\ IsInjective(members) /\ DOMAIN members = 1 .. Len(members) /\ Len(members) \in Nat
  <2>1. members \in [1 .. Cardinality(S) -> S]
        /\ \A p \in 1 .. Cardinality(S) : Cardinality(before[members[p]]) = p - 1
    BY <1>9
  <2> HIDE DEF n
  <2> QED BY <1>1, <1>5, <2>1, PlacedList
<1> QED BY <1>10 DEF members

(* What a member that is dropped holds, one that is kept holds too: the    *)
(* first to hold it in the order of the cluster, or one that stands for it.*)
LEMMA ClusterKeeps ==
  ASSUME NEW S \in SUBSET ToSet(Files), S # {}, NEW conf,
         NEW f \in ClusterDrops(S, conf), NEW x \in conf[f].signals
  PROVE  f \in S /\ \E g \in S \ ClusterDrops(S, conf) : x \in conf[g].signals
<1> DEFINE members == InOrder(S, RepBefore)
           reps == Representatives(members)
           n == Len(members)
<1>1. /\ DOMAIN members = 1 .. n /\ n \in Nat /\ n > 0
      /\ \A i \in 1 .. n : members[i] \in S
      /\ \A i, j \in 1 .. n : members[i] = members[j] => i = j
  <2>1. /\ members \in Seq(S) /\ Range(members) = S
        /\ IsInjective(members) /\ DOMAIN members = 1 .. n /\ n \in Nat
    BY MembersListed
  <2> HIDE DEF members, n
  <2>2. n > 0
    BY <2>1 DEF Range
  <2>3. \A i \in 1 .. n : members[i] \in S
    BY <2>1
  <2> QED BY <2>1, <2>2, <2>3 DEF IsInjective
<1>2. \A g : g \in ClusterDrops(S, conf) <=>
        \E i \in DOMAIN members : /\ g = members[i] /\ members[i] \notin reps
                                  /\ conf[members[i]].stays
                                  /\ BringsNothing(members, i, conf)
  BY DEF ClusterDrops
<1> HIDE DEF members, n
<1>3. reps \subseteq S
  <2>1. 1 \in DOMAIN members
    BY <1>1
  <2> QED BY <1>1, <2>1 DEF Representatives
<1> HIDE DEF reps
<1> DEFINE Holds(i) == conf[members[i]].stays /\ x \in conf[members[i]].signals
           holders == {i \in 1 .. n : Holds(i)}
<1>4. PICK i \in 1 .. n : /\ f = members[i] /\ BringsNothing(members, i, conf)
                          /\ conf[f].stays
  BY <1>1, <1>2
<1>5. PICK k \in holders : \A j \in holders : k <= j
  <2>1. holders \in SUBSET Nat /\ i \in holders
    BY <1>1, <1>4
  <2> HIDE DEF holders
  <2> QED BY <2>1, LeastNumber
<1>6. \A j \in 1 .. n : BringsNothing(members, j, conf) /\ x \in conf[members[j]].signals =>
        \/ \E g \in reps : x \in conf[g].signals
        \/ \E h \in 1 .. j - 1 : Holds(h)
  BY DEF BringsNothing, SignalsBefore, SignalsIn, reps
<1>7. CASE \E g \in reps : x \in conf[g].signals
  <2>1. PICK g \in reps : x \in conf[g].signals
    BY <1>7
  <2>2. g \notin ClusterDrops(S, conf)
    BY <1>2, <2>1
  <2> QED BY <1>1, <1>3, <1>4, <2>1, <2>2
<1>8. CASE ~ \E g \in reps : x \in conf[g].signals
  <2>1. k \in 1 .. n /\ x \in conf[members[k]].signals
    OBVIOUS
  <2>2. ~ \E h \in 1 .. k - 1 : Holds(h)
    BY <1>1, <1>5, <2>1
  <2>3. ~BringsNothing(members, k, conf)
    BY <1>6, <1>8, <2>1, <2>2
  <2>4. members[k] \notin ClusterDrops(S, conf)
    BY <1>1, <1>2, <2>1, <2>3
  <2> QED BY <1>1, <1>4, <2>1, <2>4
<1> QED BY <1>7, <1>8

(* The same over all clusters: a file that is left out is a configuration  *)
(* file, and what it holds is held by one of its shape that is kept.       *)
LEMMA DropsKeep ==
  ASSUME NEW conf, NEW f \in Walked \ Inventory(conf), NEW x \in conf[f].signals
  PROVE  \E g \in Inventory(conf) : /\ Ext[g] \in ConfigExts /\ Shape[g] = Shape[f]
                                    /\ x \in conf[g].signals
<1> DEFINE candidates == {g \in Walked : Ext[g] \in ConfigExts}
           Of(h) == {g \in candidates : Shape[g] = h}
           large == {Of(h) : h \in {Shape[g] : g \in candidates} \ {""}}
<1>1. Walked \subseteq ToSet(Files)
  BY DEF Walked
<1>2. /\ f \in ConfigDrops(Walked, conf)
      /\ \A g : g \in ConfigDrops(Walked, conf) =>
           \E c \in large : Cardinality(c) >= MinCluster /\ g \in ClusterDrops(c, conf)
  BY DEF Inventory, ConfigDrops
<1>3. PICK c \in large : Cardinality(c) >= MinCluster /\ f \in ClusterDrops(c, conf)
  BY <1>2
<1>4. PICK h : c = Of(h)
  OBVIOUS
<1>5. c \in SUBSET ToSet(Files) /\ c # {}
  <2>1. Cardinality({}) = 0 /\ MinCluster \in Nat \ {0}
    BY FS_EmptySet, ScopeAssumption DEF ScopeAssumption
  <2>2. c # {}
    BY <1>3, <2>1
  <2> QED BY <1>1, <1>4, <2>2
<1>6. f \in c /\ \E g \in c \ ClusterDrops(c, conf) : x \in conf[g].signals
  BY <1>3, <1>5, ClusterKeeps
<1>7. PICK g \in c : g \notin ClusterDrops(c, conf) /\ x \in conf[g].signals
  BY <1>6
<1>8. Shape[g] = h /\ Shape[f] = h /\ g \in candidates
  BY <1>4, <1>6
<1>9. ASSUME g \in ConfigDrops(Walked, conf) PROVE FALSE
  <2>1. PICK d \in large : g \in ClusterDrops(d, conf) /\ Cardinality(d) >= MinCluster
    BY <1>2, <1>9
  <2>2. PICK i \in DOMAIN InOrder(d, RepBefore) : g = InOrder(d, RepBefore)[i]
    BY <2>1 DEF ClusterDrops
  <2>3. g \in d
    <3>1. d \in SUBSET ToSet(Files)
      BY <1>1
    <3>2. Range(InOrder(d, RepBefore)) = d
      <4> HIDE DEF large
      <4> QED BY <3>1, MembersListed
    <3> HIDE DEF large
    <3> QED BY <2>2, <3>2 DEF Range
  <2>4. d = c
    <3>1. PICK k : d = Of(k)
      OBVIOUS
    <3> QED BY <1>4, <1>8, <2>3, <3>1
  <2> QED BY <1>7, <2>1, <2>4
<1>10. g \in Inventory(conf)
  BY <1>8, <1>9 DEF Inventory
<1> QED BY <1>7, <1>8, <1>10

(* The package names the inventory, in the order of the file names.        *)
ScopeShape == stage \in {"plan", "read"} => ctx.files = Sorted(Inventory(case.conf))

(* The inventory S1 hands on is the one it has collapsed.                  *)
LEMMA ScopeInvariance == AnalysisSpec => []ScopeShape
<1>1. AnalysisInit => ScopeShape
  BY DEF AnalysisInit, ScopeShape
<1>2. ScopeShape /\ [AnalysisNext]_analysisVars => ScopeShape'
  <2> SUFFICES ASSUME ScopeShape, [AnalysisNext]_analysisVars PROVE ScopeShape'
    OBVIOUS
  <2>1. CASE BuildSeed
    BY <2>1 DEF BuildSeed, ScopeShape
  <2>2. CASE MapRepo
    <3>1. \A prog, conf, sd, answer :
            Context(prog, conf, sd, answer).files = Sorted(Inventory(conf))
      BY DEF Context, Mapped, WithGraph, Package
    <3> QED BY <2>2, <3>1 DEF MapRepo, ScopeShape
  <2>3. CASE PlanChunks
    BY <2>3 DEF PlanChunks, ScopeShape
  <2>4. CASE LoadCode
    BY <2>4 DEF LoadCode, ScopeShape
  <2>5. CASE Done \/ UNCHANGED analysisVars
    BY <2>5 DEF Done, analysisVars, ScopeShape
  <2> QED BY <2>1, <2>2, <2>3, <2>4, <2>5 DEF AnalysisNext
<1> QED BY <1>1, <1>2, PTL DEF AnalysisSpec

(* Collapsing configuration files loses no suspicious value, whatever the  *)
(* files hold and however they cluster (_dedup_configs).                   *)
THEOREM SignalsSurvive == AnalysisSpec => []SignalsKept
<1>1. ScopeShape => SignalsKept
  <2> SUFFICES ASSUME ScopeShape, stage = "plan",
                      NEW f \in Walked \ ToSet(ctx.files), NEW x \in case.conf[f].signals
               PROVE  \E g \in ToSet(ctx.files) :
                        /\ Ext[g] \in ConfigExts /\ Shape[g] = Shape[f]
                        /\ x \in case.conf[g].signals
    BY DEF SignalsKept
  <2>1. Inventory(case.conf) \in SUBSET ToSet(Files)
    BY DEF Inventory, Walked
  <2>2. Range(Sorted(Inventory(case.conf))) = Inventory(case.conf)
    BY <2>1, SortedLists
  <2>3. ToSet(ctx.files) = Inventory(case.conf)
    BY <2>2 DEF ScopeShape, Range, ToSet
  <2> QED BY <2>3, DropsKeep
<1> QED BY <1>1, ScopeInvariance, PTL

-----------------------------------------------------------------------------
(* Analysis: nothing falls between the passes of S3.                       *)

(* What edges lead to in so many steps: the start is among it, and else    *)
(* only ends of edges.                                                     *)
LEMMA WithinHolds ==
  ASSUME NEW edges, NEW set, NEW steps \in Nat
  PROVE  /\ set \subseteq Within(edges, set, steps)
         /\ Within(edges, set, steps) \subseteq set \cup {e[2] : e \in edges}
<1> DEFINE Body(g, n) == IF n = 0 THEN set
                         ELSE g[n - 1] \cup StepFrom(edges, g[n - 1])
           Solves(g, m) == g = [n \in 0 .. m |-> Body(g, n)]
           stuck == {m \in Nat : \A g : ~Solves(g, m)}
<1>1. stuck = {}
  <2> SUFFICES ASSUME stuck # {} PROVE FALSE
    OBVIOUS
  <2>1. PICK m \in stuck : \A k \in stuck : m <= k
    <3>1. stuck \in SUBSET Nat
      OBVIOUS
    <3> HIDE DEF stuck
    <3> QED BY <3>1, LeastNumber
  <2>2. m # 0
    <3> DEFINE g == [n \in 0 .. 0 |-> set]
    <3>1. \A n \in 0 .. 0 : Body(g, n) = set
      OBVIOUS
    <3>2. Solves(g, 0)
      BY <3>1
    <3> QED BY <3>2
  <2>3. m - 1 \in Nat /\ m - 1 \notin stuck
    <3>1. m \in Nat
      OBVIOUS
    <3>2. m - 1 \in Nat /\ ~(m <= m - 1)
      BY <2>2, <3>1
    <3> HIDE DEF stuck
    <3> QED BY <2>1, <3>2
  <2>4. PICK g : Solves(g, m - 1)
    BY <2>3
  <2> DEFINE h == [n \in 0 .. m |-> Body(g, n)]
  <2>5. \A n \in 0 .. m : Body(h, n) = Body(g, n)
    <3> TAKE n \in 0 .. m
    <3>1. CASE n = 0
      BY <3>1
    <3>2. CASE n # 0
      <4>1. n - 1 \in 0 .. m - 1 /\ n - 1 \in 0 .. m
        BY <2>3, <3>2
      <4>2. h[n - 1] = g[n - 1]
        BY <2>4, <4>1
      <4> QED BY <3>2, <4>2
    <3> QED BY <3>1, <3>2
  <2>6. Solves(h, m)
    BY <2>5
  <2> QED BY <2>1, <2>6
<1>2. \E g : Solves(g, steps)
  <2> HIDE DEF Solves
  <2> QED BY <1>1
<1> DEFINE within == CHOOSE g : g = [n \in 0 .. steps |-> Body(g, n)]
<1>3. within = [n \in 0 .. steps |-> Body(within, n)]
  BY <1>2
<1>4. Within(edges, set, steps) = within[steps]
  BY DEF Within
<1> HIDE DEF within
<1> DEFINE all == set \cup {e[2] : e \in edges}
           Good(n) == set \subseteq within[n] /\ within[n] \subseteq all
           bad == {n \in 0 .. steps : ~Good(n)}
<1>5. bad = {}
  <2> SUFFICES ASSUME bad # {} PROVE FALSE
    OBVIOUS
  <2>1. PICK n \in bad : \A k \in bad : n <= k
    <3>1. bad \in SUBSET Nat
      OBVIOUS
    <3> HIDE DEF bad
    <3> QED BY <3>1, LeastNumber
  <2>2. CASE n = 0
    BY <1>3, <2>1, <2>2
  <2>3. CASE n # 0
    <3>1. n - 1 \in 0 .. steps /\ ~(n <= n - 1)
      BY <2>1, <2>3
    <3>2. Good(n - 1)
      BY <2>1, <3>1
    <3>3. within[n] = within[n - 1] \cup StepFrom(edges, within[n - 1])
      BY <1>3, <2>1, <2>3
    <3>4. StepFrom(edges, within[n - 1]) \subseteq all
      BY DEF StepFrom
    <3> QED BY <2>1, <3>2, <3>3, <3>4
  <2> QED BY <2>2, <2>3
<1>6. Good(steps)
  BY <1>5
<1> QED BY <1>4, <1>6

(* Cutting a group into buckets loses no file of it, wherever it is cut.   *)
LEMMA PackCovers ==
  ASSUME NEW T, NEW files \in Seq(T), NEW maxLoc, NEW maxFiles, NEW f \in ToSet(files)
  PROVE  \E bucket \in PackGroup(files, maxLoc, maxFiles) : f \in ToSet(bucket)
<1> DEFINE start == BucketStarts(files, maxLoc, maxFiles)
<1>1. PICK j \in DOMAIN files : files[j] = f
  BY DEF ToSet
<1> DEFINE places == {k \in DOMAIN files : start[k] = start[j]}
<1>2. Bucket(files, start, start[j]) \in PackGroup(files, maxLoc, maxFiles)
  BY DEF PackGroup
<1> HIDE DEF start
<1>3. Range(Picked(files, places)) = {files[k] : k \in places}
  <2>1. places \in SUBSET (DOMAIN files)
    OBVIOUS
  <2> HIDE DEF places
  <2> QED BY <2>1, PickedLists
<1>4. f \in ToSet(Picked(files, places))
  BY <1>1, <1>3 DEF Range, ToSet
<1> QED BY <1>2, <1>4 DEF Bucket

(* Lists of lists, as the modules of an answer are.                        *)
ListOfLists(modules) ==
  /\ modules \in Seq(ToSet(modules))
  /\ \A i \in DOMAIN modules : modules[i] \in Seq(ToSet(modules[i]))

(* A file that modules name is in the group of the first that does.        *)
LEMMA ModuleGroupsCover ==
  ASSUME NEW modules, ListOfLists(modules), NEW files, NEW f \in files,
         f \in UNION {ToSet(m) : m \in ToSet(modules)}
  PROVE  \E g \in ModuleGroups(modules, files) : g \in Seq(ToSet(g)) /\ f \in ToSet(g)
<1> DEFINE at == {i \in DOMAIN modules : f \in ToSet(modules[i])}
           Earlier(i) == UNION {ToSet(modules[j]) : j \in {h \in DOMAIN modules : h < i}}
           Places(i) == {k \in DOMAIN modules[i] : modules[i][k] \in files \ Earlier(i)}
<1>1. at # {} /\ at \in SUBSET Nat
  <2>1. DOMAIN modules = 1 .. Len(modules) /\ Len(modules) \in Nat
    BY LenProperties DEF ListOfLists
  <2> QED BY <2>1 DEF ToSet
<1>2. PICK i \in at : \A k \in at : i <= k
  <2> HIDE DEF at
  <2> QED BY <1>1, LeastNumber
<1>3. f \notin Earlier(i)
  <2>1. \A h \in DOMAIN modules : h < i => f \notin ToSet(modules[h])
    <3> TAKE h \in DOMAIN modules
    <3>1. h \in Nat /\ i \in Nat
      <4>1. DOMAIN modules = 1 .. Len(modules) /\ Len(modules) \in Nat
        BY LenProperties DEF ListOfLists
      <4> QED BY <1>1, <1>2, <4>1
    <3>2. h < i => ~(i <= h)
      BY <3>1
    <3> QED BY <1>2, <3>2
  <2> QED BY <2>1
<1>4. PICK k \in DOMAIN modules[i] : modules[i][k] = f
  BY <1>2 DEF ToSet
<1> DEFINE g == Picked(modules[i], Places(i))
<1>5. g \in ModuleGroups(modules, files)
  BY <1>2 DEF ModuleGroups
<1>6. k \in Places(i) /\ Places(i) \in SUBSET (DOMAIN modules[i])
  BY <1>3, <1>4
<1>7. modules[i] \in Seq(ToSet(modules[i]))
  BY <1>2 DEF ListOfLists
<1> HIDE DEF Places
<1>8. /\ g \in Seq(ToSet(modules[i])) /\ Cardinality(Places(i)) \in Nat
      /\ DOMAIN g = 1 .. Cardinality(Places(i))
      /\ Range(g) = {modules[i][h] : h \in Places(i)}
  BY <1>6, <1>7, PickedLists
<1> HIDE DEF g
<1>9. f \in ToSet(g)
  BY <1>4, <1>6, <1>8 DEF Range, ToSet
<1>10. g \in Seq(ToSet(g))
  <2>1. g \in [1 .. Cardinality(Places(i)) -> ToSet(g)]
    <3>1. g = [p \in DOMAIN g |-> g[p]]
      BY <1>8, LenProperties
    <3> QED BY <1>8, <3>1 DEF ToSet
  <2> QED BY <1>8, <2>1, AsList
<1> QED BY <1>5, <1>9, <1>10

(* Files in their order, as a list that can be cut.                        *)
LEMMA SortedGroup ==
  ASSUME NEW S \in SUBSET ToSet(Files)
  PROVE  Sorted(S) \in Seq(ToSet(Sorted(S))) /\ ToSet(Sorted(S)) = S
<1>1. Sorted(S) \in Seq(S) /\ Range(Sorted(S)) = S
  BY SortedLists
<1>2. ToSet(Sorted(S)) = S
  BY <1>1 DEF Range, ToSet
<1> QED BY <1>1, <1>2

(* Grouping loses no file: it is in the group of a module, of a component  *)
(* of the call graph, or of its directory.                                 *)
LEMMA GroupsCover ==
  ASSUME NEW c, ListOfLists(c.modules), NEW files \in SUBSET ToSet(Files), NEW f \in files
  PROVE  \E g \in CohesiveGroups(c, files) : g \in Seq(ToSet(g)) /\ f \in ToSet(g)
<1> DEFINE pending == files \ UNION {ToSet(m) : m \in ToSet(c.modules)}
           both == FileEdges(c) \cup {<<e[2], e[1]>> : e \in FileEdges(c)}
           among == {e \in both : e[1] \in pending /\ e[2] \in pending}
           linked == {h \in pending : \E e \in both : e[1] = h}
           rest == pending \ linked
           Start(h) == SubSeq(Path[h], 1, 2)
           near == Within(among, {f}, Len(Files))
           alike == {g \in rest : Start(g) = Start(f)}
<1>1. CASE f \in UNION {ToSet(m) : m \in ToSet(c.modules)}
  BY <1>1, ModuleGroupsCover DEF CohesiveGroups
<1>2. CASE f \in linked
  <2>1. f \in near /\ near \subseteq ToSet(Files)
    <3>1. Len(Files) \in Nat
      BY SeedAssumption, LenProperties DEF SeedAssumption
    <3>2. {f} \subseteq near /\ near \subseteq {f} \cup {e[2] : e \in among}
      <4> HIDE DEF among
      <4> QED BY <3>1, WithinHolds
    <3>3. {e[2] : e \in among} \subseteq files
      OBVIOUS
    <3> HIDE DEF near, among
    <3> QED BY <3>2, <3>3
  <2>2. Sorted(near) \in CohesiveGroups(c, files)
    BY <1>2 DEF CohesiveGroups
  <2> HIDE DEF near
  <2> QED BY <2>1, <2>2, SortedGroup
<1>3. CASE f \in rest
  <2>1. f \in alike /\ alike \subseteq ToSet(Files)
    BY <1>3
  <2>2. Sorted(alike) \in CohesiveGroups(c, files)
    BY <1>3 DEF CohesiveGroups
  <2> HIDE DEF alike
  <2> QED BY <2>1, <2>2, SortedGroup
<1> QED BY <1>1, <1>2, <1>3

(* Nor does cutting the groups.                                            *)
LEMMA BucketsCover ==
  ASSUME NEW c, ListOfLists(c.modules), NEW files \in SUBSET ToSet(Files), NEW f \in files,
         NEW maxLoc, NEW maxFiles
  PROVE  \E bucket \in Pack(CohesiveGroups(c, files), maxLoc, maxFiles) : f \in ToSet(bucket)
<1>1. PICK g \in CohesiveGroups(c, files) : g \in Seq(ToSet(g)) /\ f \in ToSet(g)
  BY GroupsCover
<1>2. PICK bucket \in PackGroup(g, maxLoc, maxFiles) : f \in ToSet(bucket)
  BY <1>1, PackCovers
<1> QED BY <1>1, <1>2 DEF Pack

(* What modules name stays a list of lists when what is out of scope goes. *)
LEMMA ModulesListed ==
  ASSUME NEW modules, ListOfLists(modules), NEW keep
  PROVE  ListOfLists(ModulesInScope(modules, keep))
<1> DEFINE Known1(m) == {j \in DOMAIN m : ResolvePath(m[j], keep) # {}}
           Kept(m) == Picked(m, Known1(m))
           Resolved(paths) ==
             [j \in DOMAIN paths |-> CHOOSE f \in ResolvePath(paths[j], keep) : TRUE]
           out == [i \in DOMAIN modules |-> Resolved(Kept(modules[i]))]
<1>1. ModulesInScope(modules, keep) = out
  BY DEF ModulesInScope
<1>2. DOMAIN modules = 1 .. Len(modules) /\ Len(modules) \in Nat
  BY LenProperties DEF ListOfLists
<1>3. ASSUME NEW i \in DOMAIN modules PROVE out[i] \in Seq(ToSet(out[i]))
  <2>1. Known1(modules[i]) \in SUBSET (DOMAIN modules[i])
    OBVIOUS
  <2> HIDE DEF Known1
  <2>2. /\ DOMAIN Kept(modules[i]) = 1 .. Cardinality(Known1(modules[i]))
        /\ Cardinality(Known1(modules[i])) \in Nat
    BY <2>1, PickedLists DEF ListOfLists
  <2> HIDE DEF Kept
  <2>3. /\ out[i] = [j \in DOMAIN Kept(modules[i]) |-> out[i][j]]
        /\ DOMAIN out[i] = DOMAIN Kept(modules[i])
    OBVIOUS
  <2> HIDE DEF out
  <2>4. out[i] \in [1 .. Cardinality(Known1(modules[i])) -> ToSet(out[i])]
    BY <2>2, <2>3 DEF ToSet
  <2> QED BY <2>2, <2>4, AsList
<1>4. DOMAIN out = DOMAIN modules /\ out = [i \in DOMAIN modules |-> out[i]]
  OBVIOUS
<1> HIDE DEF out
<1>5. out \in Seq(ToSet(out))
  <2>1. out \in [1 .. Len(modules) -> ToSet(out)]
    BY <1>2, <1>4 DEF ToSet
  <2> QED BY <1>2, <2>1, AsList
<1> QED BY <1>1, <1>3, <1>4, <1>5 DEF ListOfLists

(* What Covered says of a context and a manifest.                          *)
CoverShape(c, m) ==
  /\ \A f \in ToSet(c.files) : CatchallEligible(f) =>
       \/ f \in m.unreachable
       \/ \E d \in m.chunks : f \in ToSet(d.files)
  /\ \A f \in m.unreachable :
       /\ \A e \in ToSet(c.entryPoints) : e.file # f
       /\ \A s \in ToSet(c.sinks) : s.file # f
       /\ \A p \in ToSet(c.paths) : f \notin ToSet(FilesOf(p))

(* The passes of S3 cover a context, whatever the strategist has planned   *)
(* and however the chunks were split.                                      *)
LEMMA ManifestCovers ==
  ASSUME NEW c, ListOfLists(c.modules), ToSet(c.files) \subseteq ToSet(Files),
         NEW plan, NEW gate
  PROVE  CoverShape(c, Manifest(c, plan, gate))
<1> DEFINE before == RiskChunks(c, plan) \cup ToSet(TaintChunks(c))
           split == SplitChunks(c, before)
           m == Manifest(c, plan, gate)
           out == Unreachable(c, split, gate)
           left == Leftover(c, split)
<1>1. /\ m.unreachable = out
      /\ \A d \in split \cup CatchallChunks(c, split, gate) : KnownThreat(d) \in m.chunks
  BY DEF Manifest, ManifestOf, KnownThreats, WithFallback, WithSpecialists
<1>2. ASSUME NEW d \in split PROVE KnownThreat(d).files = d.files
  <2>1. PICK k, files : d = WithFiles(k, files)
    BY DEF SplitChunks, Fits
  <2> HIDE DEF split
  <2> QED BY <2>1 DEF WithFiles, KnownThreat
<1>3. \A bucket : KnownThreat(ReviewChunk("catchall", bucket, {}, NoThreat)).files = bucket
  BY DEF KnownThreat, ReviewChunk
<1> HIDE DEF m, split
<1>4. ASSUME NEW f \in ToSet(c.files), CatchallEligible(f), f \notin out
      PROVE  \E d \in m.chunks : f \in ToSet(d.files)
  <2>1. CASE \E d \in split : f \in ToSet(d.files)
    BY <1>1, <1>2, <2>1
  <2>2. CASE \A d \in split : f \notin ToSet(d.files)
    <3>1. f \in left \ out
      BY <1>4, <2>2 DEF Leftover
    <3>2. left \ out \in SUBSET ToSet(Files)
      BY DEF Leftover
    <3>3. PICK bucket \in Pack(CohesiveGroups(c, left \ out), CatchLoc, CatchFiles) :
            f \in ToSet(bucket)
      <4> HIDE DEF left, out
      <4> QED BY <3>1, <3>2, BucketsCover
    <3>4. ReviewChunk("catchall", bucket, {}, NoThreat) \in CatchallChunks(c, split, gate)
      BY DEF CatchallChunks
    <3> QED BY <1>1, <1>3, <3>3, <3>4
  <2> QED BY <2>1, <2>2
<1>5. ASSUME NEW f \in out
      PROVE  /\ \A e \in ToSet(c.entryPoints) : e.file # f
             /\ \A s \in ToSet(c.sinks) : s.file # f
             /\ \A p \in ToSet(c.paths) : f \notin ToSet(FilesOf(p))
  <2>1. f \notin ReachableFiles(c)
    BY DEF Unreachable
  <2> DEFINE eps == {e.file : e \in ToSet(c.entryPoints)}
             sinks == {s.file : s \in ToSet(c.sinks)}
             seeded == UNION {ToSet(FilesOf(p)) : p \in ToSet(c.paths)}
  <2>2. Len(Files) \in Nat
    BY SeedAssumption, LenProperties DEF SeedAssumption
  <2>3. \A edges, set : set \subseteq Within(edges, set, Len(Files))
    BY <2>2, WithinHolds
  <2>4. eps \cup sinks \cup seeded \subseteq ReachableFiles(c)
    BY <2>3 DEF ReachableFiles
  <2> QED BY <2>1, <2>4
<1> QED BY <1>1, <1>4, <1>5 DEF CoverShape, m

(* S1 hands on a package that can be grouped, and S3 covers it.            *)
CoverInv ==
  /\ ScopeShape
  /\ stage = "plan" => ListOfLists(ctx.modules)
  /\ stage = "read" => CoverShape(ctx, manifest)

(* Every step of the scan keeps this.                                      *)
LEMMA CoverInvariance == AnalysisSpec => []CoverInv
<1>1. AnalysisInit => CoverInv
  BY DEF AnalysisInit, CoverInv, ScopeShape
<1>2. CoverInv /\ ScopeShape' /\ [AnalysisNext]_analysisVars => CoverInv'
  <2> SUFFICES ASSUME CoverInv, ScopeShape', [AnalysisNext]_analysisVars PROVE CoverInv'
    OBVIOUS
  <2>1. CASE BuildSeed
    BY <2>1 DEF BuildSeed, CoverInv
  <2>2. CASE MapRepo
    <3>1. PICK answer \in MapAnswers \cup {NoAnswer} :
            ctx' = Context(Prog(case.on), case.conf, seed, answer)
      BY <2>2 DEF MapRepo
    <3>2. ctx'.modules = ModulesInScope(answer.modules, Inventory(case.conf))
      BY <3>1 DEF Context, Mapped, WithGraph, Package
    <3>3. ListOfLists(answer.modules)
      <4>1. CASE answer \in MapAnswers
        BY <4>1, ScopeAssumption DEF ScopeAssumption, ListOfLists, ToSet
      <4>2. CASE answer = NoAnswer
        <5>1. answer.modules = <<>>
          BY <4>2 DEF NoAnswer
        <5> QED BY <5>1 DEF ListOfLists
      <4> QED BY <4>1, <4>2
    <3>4. ListOfLists(ctx'.modules)
      BY <3>2, <3>3, ModulesListed
    <3> QED BY <2>2, <3>4 DEF MapRepo, CoverInv
  <2>3. CASE PlanChunks
    <3>1. PICK plan : manifest' = Manifest(ctx, plan, case.profile.gate)
      BY <2>3 DEF PlanChunks
    <3>2. ctx.files = Sorted(Inventory(case.conf)) /\ ListOfLists(ctx.modules)
      BY <2>3 DEF PlanChunks, CoverInv, ScopeShape
    <3>3. ToSet(ctx.files) \subseteq ToSet(Files)
      <4>1. Inventory(case.conf) \in SUBSET ToSet(Files)
        BY DEF Inventory, Walked
      <4> QED BY <3>2, <4>1, SortedGroup
    <3>4. CoverShape(ctx, manifest')
      BY <3>1, <3>2, <3>3, ManifestCovers
    <3> QED BY <2>3, <3>4 DEF PlanChunks, CoverInv
  <2>4. CASE LoadCode
    BY <2>4 DEF LoadCode, CoverInv
  <2>5. CASE Done \/ UNCHANGED analysisVars
    BY <2>5 DEF Done, analysisVars, CoverInv, ScopeShape
  <2> QED BY <2>1, <2>2, <2>3, <2>4, <2>5 DEF AnalysisNext
<1> QED BY <1>1, <1>2, ScopeInvariance, PTL DEF AnalysisSpec

(* No file falls between the passes of S3: for any repository and any      *)
(* answers, what may be swept up is in a chunk or on the list of the files *)
(* left out, and none of those holds an entry point, a sink or a flow.     *)
THEOREM NoFileLost == AnalysisSpec => []Covered
<1>1. CoverInv => Covered
  BY DEF CoverInv, CoverShape, Covered
<1> QED BY <1>1, CoverInvariance, PTL
=============================================================================
