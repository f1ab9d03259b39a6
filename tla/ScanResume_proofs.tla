-------------------------- MODULE ScanResume_proofs --------------------------
(***************************************************************************)
(* Theorems about ScanResume: what --resume guarantees, for every set of   *)
(* oversize stages and --stop-after values, and every number of scans,     *)
(* crashes and lost rows.                                                  *)
(***************************************************************************)
EXTENDS ScanResume, Integers, TLAPS

Working == {"load", "run", "save"}

(* Before the first stage, and between scans, the process holds nothing.   *)
IdleShape ==
  doing \in {"off", "reset", "overlay"} => stage = 0 /\ mem = Empty(Stage)

(* A scan with --resume does not reset; one without has reset the run.     *)
ResetShape == doing = "reset" => ~resume

(* Nothing is kept from before the last fresh scan.                        *)
GenShape ==
  /\ \A s \in Stage : Has(mem[s]) => mem[s].gen = gen
  /\ \A s \in Rows : Has(ckpt[s]) => ckpt[s].gen = gen

(* The scan holds the results of the stages of the chain behind it, and of *)
(* the one it is about to save, and no other.                              *)
MemShape ==
  doing \in Working =>
    /\ \A s \in Chain : s < stage => Has(mem[s])
    /\ \A s \in Chain : s > stage => mem[s] = Nothing
    /\ stage \in Chain => (Has(mem[stage]) <=> doing = "save")

(* A scan looks for S5's row and for those of the stages that have one;    *)
(* S6 and S7 are entered without a look.                                   *)
StepShape ==
  /\ doing = "load" => stage \in Stage \ {6, 7}
  /\ doing = "save" => stage \in Rows

(* The rows are a prefix of the chain, each made from the one before it.   *)
RowShape ==
  \A s \in Chain \ {0} :
    Has(ckpt[s]) => Has(ckpt[Before(s)]) /\ ckpt[s].up = ckpt[Before(s)].n

(* What the scan holds is what the table holds, one stage behind while a   *)
(* stage is being saved.                                                   *)
AgreeShape ==
  doing \in Working =>
    \A s \in Chain : s < stage => ckpt[s] = mem[s]

(* What the scan holds fits together.                                      *)
ChainShape == \A s \in Chain \ {0} : Has(mem[s]) => mem[s].up = mem[Before(s)].n

(* No row is ahead of a scan that executes a stage of the chain, or that   *)
(* does not resume.                                                        *)
AheadShape ==
  (\/ doing = "overlay" /\ ~resume
   \/ doing \in Working /\ ~resume
   \/ doing \in {"run", "save"} /\ stage \notin {2, 9})
  => \A s \in Chain : s >= stage => ~Has(ckpt[s])

(* What holds of the table whatever the process does.                      *)
TableShape ==
  /\ \A s \in Rows : Has(ckpt[s]) => ckpt[s].gen = gen
  /\ lost = 0 => RowShape

(* The inductive invariant.                                                *)
IInv ==
  /\ TypeOK
  /\ IdleShape
  /\ ResetShape
  /\ GenShape
  /\ StopHonoured
  /\ MemShape
  /\ StepShape
  /\ lost = 0 => RowShape /\ AgreeShape /\ ChainShape /\ AheadShape

-----------------------------------------------------------------------------
(* Every stage but S0 has one of the chain right before it.                *)
LEMMA ChainOrder ==
  \A s \in Stage \ {0} :
    /\ Before(s) \in Chain /\ Before(s) < s
    /\ \A u \in Chain : u < s => u <= Before(s)
<1> DEFINE Prev(s, t) == t \in Chain /\ t < s /\ \A u \in Chain : u < s => u <= t
<1>1. /\ Prev(1, 0) /\ Prev(2, 1) /\ Prev(3, 1) /\ Prev(4, 3) /\ Prev(5, 4)
      /\ Prev(6, 4) /\ Prev(7, 4) /\ Prev(8, 7) /\ Prev(9, 8)
  BY DEF Chain
<1>2. \A s \in Stage \ {0} : \E t \in Chain : t < s /\ \A u \in Chain : u < s => u <= t
  <2> TAKE s \in Stage \ {0}
  <2>1. \E t : Prev(s, t)
    <3>1. s \in {1, 2, 3, 4, 5, 6, 7, 8, 9}
      BY DEF Stage
    <3> HIDE DEF Prev
    <3> QED BY <1>1, <3>1
  <2> QED BY <2>1
<1> QED BY <1>2 DEF Before

(* The stages one by one: the provers reason about a set better than about *)
(* an interval.                                                            *)
LEMMA StageSet == Stage = {0, 1, 2, 3, 4, 5, 6, 7, 8, 9}
BY DEF Stage

(* The stages of the chain have a row, and what has a row is a stage.      *)
LEMMA StageShape == Chain \subseteq Rows /\ Rows \subseteq Stage /\ Stage \subseteq Nat
BY DEF Chain, Rows, Stage

(* An empty table or memory has no result.                                 *)
LEMMA EmptyHasNothing == \A S : \A s \in S : ~Has(Empty(S)[s]) /\ Empty(S)[s] = Nothing
BY DEF Empty, Has, Nothing

(* An empty table or memory is one of results.                             *)
LEMMA EmptyType == \A S : Empty(S) \in [S -> Result]
BY DEF Empty, Nothing, Result

-----------------------------------------------------------------------------
(* A process that ends leaves only the table behind.                       *)
LEMMA ExitIInv ==
  ASSUME TypeOK', TableShape', Exit
  PROVE  IInv'
<1> USE DEF Exit
<1>1. IdleShape' /\ ResetShape' /\ MemShape' /\ StepShape'
  BY DEF IdleShape, ResetShape, MemShape, StepShape, Working
<1>2. \A s \in Stage : ~Has(mem'[s])
  BY EmptyHasNothing
<1>3. GenShape'
  BY <1>2 DEF GenShape, TableShape
<1>4. StopHonoured'
  BY DEF StopHonoured
<1>5. ChainShape'
  BY <1>2, StageShape DEF ChainShape
<1>6. AgreeShape' /\ AheadShape'
  BY DEF AgreeShape, AheadShape, Working
<1> QED BY <1>1, <1>3, <1>4, <1>5, <1>6 DEF IInv, TableShape

(* What the next stage needs of the results m that stage s leaves.         *)
Handover(s, m) ==
  /\ \A c \in Chain : c <= s => Has(m[c])
  /\ \A c \in Chain : c > s => m[c] = Nothing
  /\ \A x \in Stage : Has(m[x]) => m[x].gen = gen
  /\ lost' = 0 =>
       /\ \A c \in Chain : c <= s => ckpt'[c] = m[c]
       /\ \A c \in Chain \ {0} : Has(m[c]) => m[c].up = m[Before(c)].n
       /\ ~resume \/ s \in {5, 6} => \A c \in Chain : c > s => ~Has(ckpt'[c])

(* Leaving a stage with results that can be handed over keeps the          *)
(* invariant.                                                              *)
LEMMA AdvanceIInv ==
  ASSUME TypeOK, TypeOK', TableShape', UNCHANGED gen,
         NEW s \in Stage, s <= stop, NEW m, Advance(s, m), Handover(s, m)
  PROVE  IInv'
<1>1. CASE stop = s \/ s = 9
  BY <1>1, ExitIInv DEF Advance
<1>2. CASE ~(stop = s \/ s = 9)
  <2>1. /\ stage' = s + 1 /\ mem' = m /\ UNCHANGED args
        /\ doing' = IF s + 1 \in {6, 7} THEN "run" ELSE "load"
    BY <1>2 DEF Advance, GoOn
  <2>2. doing' \in {"run", "load"} /\ (doing' = "run" <=> s \in {5, 6})
    BY <2>1 DEF Stage
  <2>3. IdleShape' /\ ResetShape'
    BY <2>2 DEF IdleShape, ResetShape
  <2>8. StepShape'
    BY <1>2, <2>1, <2>2, StageSet DEF StepShape
  <2>4. GenShape'
    BY <2>1 DEF GenShape, TableShape, Handover
  <2>5. StopHonoured'
    BY <1>2, <2>1 DEF StopHonoured, TypeOK, Stage, NoStop, args
  <2>6. MemShape'
    <3>1. \A c \in Chain : c \in Nat /\ (c < s + 1 <=> c <= s) /\ (c >= s + 1 <=> c > s)
      BY StageShape DEF Chain, Stage
    <3> QED BY <2>1, <2>2, <3>1, StageShape DEF MemShape, Handover, Stage, Has, Nothing
  <2>7. ASSUME lost' = 0
        PROVE  AgreeShape' /\ ChainShape' /\ AheadShape'
    <3>1. \A c \in Chain : (c < s + 1 <=> c <= s) /\ (c >= s + 1 => c > s)
      BY DEF Chain, Stage
    <3>2. AgreeShape'
      BY <2>1, <2>7, <3>1 DEF AgreeShape, Handover
    <3>3. ChainShape'
      BY <2>1, <2>7 DEF ChainShape, Handover
    <3>4. AheadShape'
      BY <2>1, <2>2, <2>7, <3>1 DEF AheadShape, Handover, args, Working
    <3> QED BY <3>2, <3>3, <3>4
  <2> QED BY <2>3, <2>4, <2>5, <2>6, <2>7, <2>8 DEF IInv, TableShape
<1> QED BY <1>1, <1>2

-----------------------------------------------------------------------------
(* Type correctness.                                                       *)

(* What a process that ends leaves of its variables has their types.       *)
LEMMA ExitType ==
  ASSUME Exit
  PROVE  /\ doing' = "off" /\ stage' \in Stage /\ resume' \in BOOLEAN
         /\ stop' \in Stage \cup {NoStop} /\ mem' \in [Stage -> Result] /\ layered' \in Nat
<1>1. mem' \in [Stage -> Result]
  BY EmptyType DEF Exit
<1>2. stage' \in Stage
  BY StageSet DEF Exit
<1> QED BY <1>1, <1>2 DEF Exit

(* So has what a stage that is over leaves.                                *)
LEMMA LeaveType ==
  ASSUME TypeOK, NEW s \in Stage, NEW m \in [Stage -> Result], Advance(s, m)
  PROVE  /\ doing' \in {"off", "load", "run"} /\ stage' \in Stage /\ resume' \in BOOLEAN
         /\ stop' \in Stage \cup {NoStop} /\ mem' \in [Stage -> Result] /\ layered' \in Nat
<1>1. CASE stop = s \/ s = 9
  BY <1>1, ExitType DEF Advance
<1>2. CASE ~(stop = s \/ s = 9)
  <2>1. stage' = s + 1 /\ mem' = m /\ UNCHANGED args /\ layered' = layered
    BY <1>2 DEF Advance, GoOn
  <2>2. doing' \in {"load", "run"}
    BY <1>2 DEF Advance, GoOn
  <2>3. s + 1 \in Stage
    BY <1>2, StageSet
  <2> QED BY <2>1, <2>2, <2>3 DEF TypeOK, args
<1> QED BY <1>1, <1>2

(* A stage that is executed makes a result of the current fresh scan.      *)
LEMMA ProductType ==
  ASSUME TypeOK, NEW s \in Stage
  PROVE  Product(s) \in Result /\ Has(Product(s)) /\ Product(s).gen = gen
<1>1. gen \in Nat /\ runs[s] + 1 \in Nat /\ runs[s] + 1 # 0
  BY DEF TypeOK
<1>2. (IF s = 0 THEN 0 ELSE mem[Before(s)].n) \in Nat
  <2>1. CASE s = 0
    BY <2>1
  <2>2. CASE s # 0
    <3>1. Before(s) \in Stage
      BY <2>2, ChainOrder, StageShape
    <3> QED BY <2>2, <3>1 DEF TypeOK, Result
  <2> QED BY <2>1, <2>2
<1> QED BY <1>1, <1>2 DEF Product, Result, Has

(* The row a stage looks for exists and is not behind it.                  *)
LEMMA RowOfType ==
  \A s \in Stage \ {6} : RowOf(s) \in Rows /\ RowOf(s) \in Stage /\ RowOf(s) >= s
<1> TAKE s \in Stage \ {6}
<1>1. CASE s = 5
  BY <1>1, StageSet DEF RowOf, Rows, Chain
<1>2. CASE s # 5
  BY <1>2, StageSet DEF RowOf, Rows, Chain
<1> QED BY <1>1, <1>2

(* Every step keeps the types.                                             *)
LEMMA TypeStep == TypeOK /\ StepShape /\ [Next]_vars => TypeOK'
<1> SUFFICES ASSUME TypeOK, StepShape, [Next]_vars PROVE TypeOK'
  OBVIOUS
<1> USE ScanAssumption
<1>1. CASE Start
  BY <1>1 DEF Start, TypeOK, Stage, NoStop
<1>2. CASE ResetRun
  BY <1>2, EmptyType DEF ResetRun, TypeOK, args, Stage
<1>3. CASE DeriveOverlay
  BY <1>3 DEF DeriveOverlay, Derived, TypeOK, args, history
<1>4. CASE Load
  <2> DEFINE row == RowOf(stage)
             m == [mem EXCEPT ![row] = ckpt[row]]
  <2>1. row \in Stage /\ row \in Rows
    BY <1>4, RowOfType DEF Load, StepShape
  <2>2. UNCHANGED <<ckpt, overlay, gen, runs, crashes, scans, lost>>
    BY <1>4 DEF Load
  <2>3. CASE ~(resume /\ stage # 9 /\ Has(ckpt[row]))
    BY <1>4, <2>2, <2>3 DEF Load, GoOn, TypeOK, args
  <2>4. CASE (resume /\ stage # 9 /\ Has(ckpt[row])) /\ stage = 5 /\ stop \in {5, 6}
    <3>1. Exit
      BY <1>4, <2>4 DEF Load
    <3> QED BY <2>2, <3>1, ExitType DEF TypeOK
  <2>5. CASE (resume /\ stage # 9 /\ Has(ckpt[row])) /\ ~(stage = 5 /\ stop \in {5, 6})
    <3>1. m \in [Stage -> Result]
      BY <2>1, <2>5 DEF TypeOK
    <3>2. Advance(row, m)
      BY <1>4, <2>5 DEF Load
    <3> QED BY <2>1, <2>2, <3>1, <3>2, LeaveType DEF TypeOK
  <2> QED BY <2>3, <2>4, <2>5
<1>5. CASE LoadRejected
  BY <1>5 DEF LoadRejected, GoOn, TypeOK, args
<1>6. CASE Run
  <2> DEFINE m == [mem EXCEPT ![stage] = Product(stage)]
  <2>1. stage \in Stage /\ m \in [Stage -> Result]
    BY ProductType DEF TypeOK
  <2>2. runs' \in [Stage -> Nat] /\ UNCHANGED <<ckpt, overlay, gen, crashes, scans, lost>>
    BY <1>6 DEF Run, TypeOK
  <2>3. CASE stage \in {5, 6}
    <3>1. Advance(stage, m)
      BY <1>6, <2>3 DEF Run
    <3> QED BY <2>1, <2>2, <3>1, LeaveType DEF TypeOK
  <2>4. CASE stage \notin {5, 6}
    <3>1. GoOn(stage, "save", m)
      BY <1>6, <2>4 DEF Run
    <3> QED BY <2>1, <2>2, <3>1 DEF GoOn, TypeOK, args
  <2> QED BY <2>3, <2>4
<1>7. CASE ThreatModelFails
  <2>1. runs' \in [Stage -> Nat] /\ UNCHANGED <<ckpt, overlay, gen, crashes, scans, lost>>
    BY <1>7 DEF ThreatModelFails, TypeOK
  <2>2. 2 \in Stage /\ Advance(2, mem) /\ mem \in [Stage -> Result]
    BY <1>7 DEF ThreatModelFails, Stage, TypeOK
  <2> QED BY <2>1, <2>2, LeaveType DEF TypeOK
<1>8. CASE Save \/ SaveOversize
  <2>1. ckpt' \in [Rows -> Result] /\ lost' \in 0..MaxLost
    BY <1>8, StageShape DEF Save, SaveOversize, TypeOK
  <2>2. Advance(stage, mem) /\ UNCHANGED <<overlay, gen, runs, crashes, scans>>
    BY <1>8 DEF Save, SaveOversize
  <2> QED BY <2>1, <2>2, LeaveType DEF TypeOK
<1>9. CASE Crash
  <2>1. Exit /\ UNCHANGED <<ckpt, overlay, gen, runs, scans, lost>> /\ crashes' \in 0..MaxCrashes
    BY <1>9 DEF Crash, TypeOK
  <2> QED BY <2>1, ExitType DEF TypeOK
<1>10. CASE GcRun
  BY <1>10, EmptyType DEF GcRun, TypeOK, args
<1>11. CASE Rest \/ UNCHANGED vars
  BY <1>11 DEF Rest, vars, args, history, TypeOK
<1> QED BY <1>1, <1>2, <1>3, <1>4, <1>5, <1>6, <1>7, <1>8, <1>9, <1>10, <1>11 DEF Next

-----------------------------------------------------------------------------
(* The invariant is inductive.                                             *)

(* The invariant holds initially.                                          *)
LEMMA InitIInv == Init => IInv
<1> SUFFICES ASSUME Init PROVE IInv
  OBVIOUS
<1> USE DEF Init
<1>1. TypeOK
  <2>1. ckpt \in [Rows -> Result] /\ mem \in [Stage -> Result]
    BY EmptyType
  <2>2. stage \in Stage /\ runs \in [Stage -> Nat]
    BY StageSet
  <2>3. crashes \in 0..MaxCrashes /\ scans \in 0..MaxScans /\ lost \in 0..MaxLost
    BY ScanAssumption
  <2>4. overlay \in Nat /\ layered \in Nat /\ gen \in Nat \ {0}
    OBVIOUS
  <2>5. resume \in BOOLEAN
    OBVIOUS
  <2>6. doing = "off" /\ stop = NoStop
    OBVIOUS
  <2> HIDE DEF Init
  <2> QED BY <2>1, <2>2, <2>3, <2>4, <2>5, <2>6 DEF TypeOK
<1>2. IdleShape /\ ResetShape /\ StopHonoured /\ MemShape /\ StepShape
  BY DEF IdleShape, ResetShape, StopHonoured, MemShape, StepShape, Working
<1>3. GenShape
  BY EmptyHasNothing DEF GenShape
<1>4. RowShape /\ ChainShape
  BY EmptyHasNothing, StageShape DEF RowShape, ChainShape
<1>5. AgreeShape /\ AheadShape
  BY DEF AgreeShape, AheadShape, Working
<1> QED BY <1>1, <1>2, <1>3, <1>4, <1>5 DEF IInv

(* The rows being a prefix of the chain, none is there behind a missing    *)
(* one.                                                                    *)
LEMMA PrefixClosed ==
  ASSUME RowShape, NEW r \in Chain, ~Has(ckpt[r])
  PROVE  \A c \in Chain : c >= r => ~Has(ckpt[c])
<1>1. Before(1) = 0 /\ Before(3) = 1 /\ Before(4) = 3 /\ Before(7) = 4 /\ Before(8) = 7
  BY ChainOrder DEF Chain, Stage
<1>2. /\ Has(ckpt[1]) => Has(ckpt[0])
      /\ Has(ckpt[3]) => Has(ckpt[1])
      /\ Has(ckpt[4]) => Has(ckpt[3])
      /\ Has(ckpt[7]) => Has(ckpt[4])
      /\ Has(ckpt[8]) => Has(ckpt[7])
  BY <1>1 DEF RowShape, Chain
<1> QED BY <1>2 DEF Chain

(* Between the stage that looks for a row and the row's own stage there is *)
(* none of the chain.                                                      *)
LEMMA NoneBetween ==
  ASSUME NEW s \in Stage \ {6, 7}, NEW c \in Chain, c >= s
  PROVE  c >= RowOf(s) /\ (s \notin {2, 9} => RowOf(s) \in Chain)
BY StageSet DEF RowOf, Chain

(* Looking for a row keeps the invariant, whether it is there or not.      *)
LEMMA LoadIInv == IInv /\ TypeOK' /\ Load => IInv'
<1> SUFFICES ASSUME IInv, TypeOK', Load PROVE IInv'
  OBVIOUS
<1> DEFINE row == RowOf(stage)
           m == [mem EXCEPT ![row] = ckpt[row]]
<1>1. /\ doing = "load" /\ stage \in Stage \ {6, 7} /\ row \in Rows /\ row \in Stage /\ row >= stage
      /\ mem \in [Stage -> Result] /\ stage <= stop
      /\ UNCHANGED <<ckpt, overlay, gen, runs, crashes, scans, lost>>
  BY RowOfType DEF Load, IInv, StepShape, StopHonoured, TypeOK
<1>2. TableShape'
  BY <1>1 DEF TableShape, IInv, GenShape, RowShape
<1>3. CASE ~(resume /\ stage # 9 /\ Has(ckpt[row]))
  <2>1. stage' = stage /\ doing' = "run" /\ mem' = mem /\ UNCHANGED <<resume, stop, layered>>
    BY <1>3 DEF Load, GoOn, args
  <2>2. IdleShape' /\ ResetShape' /\ StepShape' /\ StopHonoured' /\ GenShape' /\ MemShape'
    BY <1>1, <1>2, <2>1
    DEF IInv, IdleShape, ResetShape, StepShape, StopHonoured, GenShape, MemShape, TableShape, Working
  <2>3. ASSUME lost' = 0 PROVE AgreeShape' /\ ChainShape' /\ AheadShape'
    <3>1. RowShape /\ AgreeShape /\ ChainShape /\ AheadShape
      BY <1>1, <2>3 DEF IInv
    <3>2. AgreeShape' /\ ChainShape'
      BY <1>1, <2>1, <3>1 DEF AgreeShape, ChainShape, Working
    <3>3. AheadShape'
      <4>1. CASE ~resume
        BY <1>1, <2>1, <3>1, <4>1 DEF AheadShape, Working
      <4>2. CASE resume
        <5> SUFFICES ASSUME stage \notin {2, 9}
                     PROVE  \A c \in Chain : c >= stage => ~Has(ckpt[c])
          BY <1>1, <2>1, <4>2 DEF AheadShape
        <5>1. ~Has(ckpt[row])
          BY <1>3, <4>2
        <5>2. ASSUME NEW c \in Chain, c >= stage PROVE c >= row /\ row \in Chain
          BY <1>1, <5>2, NoneBetween
        <5> HIDE DEF row
        <5> QED BY <3>1, <5>1, <5>2, PrefixClosed
      <4> QED BY <4>1, <4>2
    <3> QED BY <3>2, <3>3
  <2> QED BY <1>2, <2>2, <2>3 DEF IInv, TableShape
<1>4. CASE (resume /\ stage # 9 /\ Has(ckpt[row])) /\ stage = 5 /\ stop \in {5, 6}
  BY <1>2, <1>4, ExitIInv DEF Load
<1>5. CASE (resume /\ stage # 9 /\ Has(ckpt[row])) /\ ~(stage = 5 /\ stop \in {5, 6})
  <2>1. Advance(row, m)
    BY <1>5 DEF Load
  <2>2. row <= stop
    <3>1. CASE stage = 5
      BY <1>1, <1>5, <3>1 DEF RowOf, IInv, TypeOK, Stage, NoStop
    <3>2. CASE stage # 5
      BY <1>1, <3>2 DEF RowOf
    <3> QED BY <3>1, <3>2
  <2>3. \A c \in Chain : /\ c \in Nat /\ c \in Stage
                         /\ c <= row => c < stage \/ c = row
                         /\ c > row => c > stage
    BY <1>1, StageSet DEF Chain, RowOf
  <2>4. \A x \in Stage : m[x] = IF x = row THEN ckpt[row] ELSE mem[x]
    BY <1>1
  <2>5. (\A c \in Chain : c <= row => Has(m[c])) /\ (\A c \in Chain : c > row => m[c] = Nothing)
    <3>1. /\ \A c \in Chain : c < stage => Has(mem[c])
          /\ \A c \in Chain : c > stage => mem[c] = Nothing
      BY <1>1 DEF IInv, MemShape, Working
    <3> HIDE DEF m, row
    <3> QED BY <1>1, <1>5, <2>3, <2>4, <3>1 DEF Stage
  <2>6. \A x \in Stage : Has(m[x]) => m[x].gen = gen
    BY <1>1, <2>4 DEF IInv, GenShape
  <2>7. ASSUME lost' = 0
        PROVE  /\ \A c \in Chain : c <= row => ckpt'[c] = m[c]
               /\ \A c \in Chain \ {0} : Has(m[c]) => m[c].up = m[Before(c)].n
    <3>1. RowShape /\ AgreeShape /\ ChainShape
      BY <1>1, <2>7 DEF IInv
    <3>2. \A c \in Chain : c <= row => ckpt[c] = m[c]
      BY <1>1, <2>3, <2>4, <3>1 DEF AgreeShape, Working
    <3>3. ASSUME NEW c \in Chain \ {0}, Has(m[c])
          PROVE  m[c].up = m[Before(c)].n
      <4>1. c <= row
        BY <1>1, <2>3, <2>5, <3>3 DEF Has, Nothing, Stage
      <4>2. Before(c) \in Chain /\ Before(c) <= row /\ Before(c) < c
        BY <1>1, <2>3, <4>1, ChainOrder DEF Stage
      <4>3. ckpt[c] = m[c] /\ ckpt[Before(c)] = m[Before(c)]
        BY <3>2, <4>1, <4>2
      <4> HIDE DEF m, row
      <4> QED BY <3>1, <3>3, <4>3 DEF RowShape
    <3> QED BY <1>1, <3>2, <3>3
  <2>8. Handover(row, m)
    <3>1. row \notin {5, 6}
      BY <1>1, StageSet DEF Rows, Chain
    <3> HIDE DEF m, row
    <3> QED BY <1>5, <2>5, <2>6, <2>7, <3>1 DEF Handover
  <2> HIDE DEF m, row
  <2> QED BY <1>1, <1>2, <2>1, <2>2, <2>8, AdvanceIInv DEF IInv
<1> QED BY <1>3, <1>4, <1>5

(* Executing a stage keeps the invariant.                                  *)
LEMMA RunIInv == IInv /\ TypeOK' /\ Run => IInv'
<1> SUFFICES ASSUME IInv, TypeOK', Run PROVE IInv'
  OBVIOUS
<1> DEFINE m == [mem EXCEPT ![stage] = Product(stage)]
<1>1. /\ doing = "run" /\ stage \in Stage /\ mem \in [Stage -> Result] /\ stage <= stop
      /\ UNCHANGED <<ckpt, overlay, gen, crashes, scans, lost>>
  BY DEF Run, IInv, TypeOK, StopHonoured
<1>2. TableShape'
  BY <1>1 DEF TableShape, IInv, GenShape, RowShape
<1>3. /\ \A x \in Stage : m[x] = IF x = stage THEN Product(stage) ELSE mem[x]
      /\ Has(Product(stage)) /\ Product(stage).gen = gen
  BY <1>1, ProductType DEF IInv
<1>4. /\ \A c \in Chain : c < stage => Has(mem[c])
      /\ \A c \in Chain : c > stage => mem[c] = Nothing
  BY <1>1 DEF IInv, MemShape, Working
<1>5. \A x \in Stage : Has(m[x]) => m[x].gen = gen
  BY <1>1, <1>3 DEF IInv, GenShape
<1>6. ASSUME lost' = 0
      PROVE  /\ RowShape /\ AgreeShape /\ ChainShape /\ AheadShape
             /\ \A c \in Chain \ {0} : Has(m[c]) => m[c].up = m[Before(c)].n
  <2>1. RowShape /\ AgreeShape /\ ChainShape /\ AheadShape
    BY <1>1, <1>6 DEF IInv
  <2>2. ASSUME NEW c \in Chain \ {0}, Has(m[c])
        PROVE  m[c].up = m[Before(c)].n
    <3>1. Before(c) \in Stage /\ Before(c) < c /\ c \in Stage /\ c \in Nat
      BY ChainOrder, StageShape
    <3>2. c <= stage
      <4>1. CASE c > stage
        BY <1>1, <1>3, <1>4, <2>2, <3>1, <4>1 DEF Has, Nothing
      <4> QED BY <1>1, <3>1, <4>1, StageShape
    <3>3. m[Before(c)] = mem[Before(c)]
      BY <1>1, <1>3, <3>1, <3>2, StageShape
    <3>4. CASE c = stage
      BY <1>3, <3>1, <3>3, <3>4 DEF Product
    <3>5. CASE c # stage
      BY <1>3, <2>1, <2>2, <3>1, <3>3, <3>5 DEF ChainShape
    <3> QED BY <3>4, <3>5
  <2> QED BY <2>1, <2>2
<1> HIDE DEF m
<1>7. CASE stage \in {5, 6}
  <2>1. Advance(stage, m)
    BY <1>7 DEF Run, m
  <2>2. stage \notin Chain /\ stage \notin {2, 9}
    BY <1>7 DEF Chain
  <2>3. \A c \in Chain : c \in Stage /\ c # stage /\ (c <= stage => c < stage) /\ (c > stage => c >= stage)
    BY <1>1, <2>2, StageShape DEF Stage
  <2>4. Handover(stage, m)
    BY <1>1, <1>3, <1>4, <1>5, <1>6, <2>2, <2>3 DEF Handover, AgreeShape, AheadShape, Working
  <2> QED BY <1>1, <1>2, <2>1, <2>4, AdvanceIInv DEF IInv
<1>8. CASE stage \notin {5, 6}
  <2>1. stage' = stage /\ doing' = "save" /\ mem' = m /\ UNCHANGED <<resume, stop, layered>>
    BY <1>8 DEF Run, GoOn, args, m
  <2>2. IdleShape' /\ ResetShape' /\ StopHonoured'
    BY <1>1, <2>1 DEF IdleShape, ResetShape, StopHonoured
  <2>3. StepShape'
    BY <1>1, <1>8, <2>1, StageSet DEF StepShape, Rows, Chain
  <2>4. GenShape'
    BY <1>1, <1>2, <1>5, <2>1 DEF GenShape, TableShape
  <2>5. MemShape'
    <3>1. \A c \in Chain : c \in Stage /\ (c < stage => c # stage) /\ (c > stage => c # stage)
      BY <1>1, StageShape DEF Stage
    <3> QED BY <1>1, <1>3, <1>4, <2>1, <3>1 DEF MemShape
  <2>6. ASSUME lost' = 0 PROVE AgreeShape' /\ ChainShape' /\ AheadShape'
    <3>1. \A c \in Chain : c \in Stage /\ (c < stage => c # stage)
      BY <1>1, StageShape DEF Stage
    <3>2. AgreeShape'
      BY <1>1, <1>3, <1>6, <2>1, <2>6, <3>1 DEF AgreeShape, Working
    <3>3. ChainShape'
      BY <1>6, <2>1, <2>6 DEF ChainShape
    <3>4. AheadShape'
      BY <1>1, <1>6, <2>1, <2>6 DEF AheadShape, Working
    <3> QED BY <3>2, <3>3, <3>4
  <2> QED BY <1>2, <2>2, <2>3, <2>4, <2>5, <2>6 DEF IInv, TableShape
<1> QED BY <1>7, <1>8

(* Saving a result, or going on without saving it, keeps the invariant.    *)
LEMMA SaveIInv == IInv /\ TypeOK' /\ (Save \/ SaveOversize \/ ThreatModelFails) => IInv'
<1> SUFFICES ASSUME IInv, TypeOK', Save \/ SaveOversize \/ ThreatModelFails PROVE IInv'
  OBVIOUS
<1>1. /\ doing \in {"run", "save"} /\ stage \in Rows /\ stage \in Stage /\ stage <= stop
      /\ Advance(stage, mem) /\ UNCHANGED gen /\ mem \in [Stage -> Result]
      /\ ckpt \in [Rows -> Result] /\ lost \in Nat
  BY ScanAssumption, StageSet
  DEF Save, SaveOversize, ThreatModelFails, IInv, StepShape, StopHonoured, TypeOK, Rows
<1>2. /\ \A c \in Chain : c <= stage => Has(mem[c])
      /\ \A c \in Chain : c > stage => mem[c] = Nothing
  <2>1. stage \in Chain => doing = "save"
    BY DEF Save, SaveOversize, ThreatModelFails, Chain
  <2>2. \A c \in Chain : c <= stage => c < stage \/ c = stage
    BY <1>1, StageShape DEF Stage
  <2> QED BY <1>1, <2>1, <2>2 DEF IInv, MemShape, Working
<1>3. ASSUME lost' = 0
      PROVE  /\ lost = 0 /\ RowShape /\ AgreeShape /\ ChainShape /\ AheadShape
             /\ \/ stage \notin Chain /\ UNCHANGED ckpt
                \/ Save
  BY <1>1, <1>3 DEF Save, SaveOversize, ThreatModelFails, IInv, Chain
<1>4. /\ \A s \in Rows : s # stage => ckpt'[s] = ckpt[s]
      /\ ckpt'[stage] \in {ckpt[stage], mem[stage]}
      /\ Save => ckpt'[stage] = mem[stage]
  BY <1>1 DEF Save, SaveOversize, ThreatModelFails
<1>5. \A s \in Rows : Has(ckpt'[s]) => ckpt'[s].gen = gen'
  BY <1>1, <1>4 DEF IInv, GenShape
<1>6. ASSUME lost' = 0 PROVE \A c \in Chain : c <= stage => ckpt'[c] = mem[c]
  <2>1. \A c \in Chain : c \in Rows /\ (c <= stage => c < stage \/ c = stage)
    BY <1>1, StageShape DEF Stage
  <2> QED BY <1>1, <1>3, <1>4, <1>6, <2>1 DEF AgreeShape, Working
<1>7. ASSUME lost' = 0 PROVE RowShape'
  <2> SUFFICES ASSUME NEW c \in Chain \ {0}, Has(ckpt'[c])
               PROVE  Has(ckpt'[Before(c)]) /\ ckpt'[c].up = ckpt'[Before(c)].n
    BY DEF RowShape
  <2>1. Before(c) \in Chain /\ Before(c) < c /\ c \in Rows /\ c \in Nat /\ Before(c) \in Nat /\ stage \in Nat
    BY <1>1, ChainOrder, StageShape
  <2>2. CASE c <= stage
    BY <1>2, <1>3, <1>6, <1>7, <2>1, <2>2 DEF ChainShape
  <2>3. CASE c > stage
    <3>1. c # stage /\ ckpt'[c] = ckpt[c]
      BY <1>4, <2>1, <2>3
    <3>2. stage \notin Chain
      <4> SUFFICES ASSUME stage \in Chain PROVE FALSE
        OBVIOUS
      <4>1. stage \notin {2, 9} /\ c >= stage
        BY <2>1, <2>3 DEF Chain
      <4> QED BY <1>1, <1>3, <1>7, <2>1, <3>1, <4>1 DEF AheadShape
    <3>3. ckpt'[Before(c)] = ckpt[Before(c)]
      BY <1>4, <2>1, <3>2, StageShape
    <3> QED BY <1>3, <1>7, <3>1, <3>3 DEF RowShape
  <2> QED BY <2>1, <2>2, <2>3
<1>8. ASSUME lost' = 0, ~resume \/ stage \in {5, 6}
      PROVE  \A c \in Chain : c > stage => ~Has(ckpt'[c])
  <2>1. ~resume
    BY <1>1, <1>8, StageSet DEF Rows, Chain
  <2>2. \A c \in Chain : c \in Rows /\ (c > stage => c >= stage /\ c # stage)
    BY <1>1, StageShape DEF Stage
  <2> QED BY <1>1, <1>3, <1>4, <1>8, <2>1, <2>2 DEF AheadShape, Working
<1>9. Handover(stage, mem)
  BY <1>1, <1>2, <1>3, <1>6, <1>8 DEF Handover, IInv, GenShape, ChainShape
<1>10. TableShape'
  BY <1>5, <1>7 DEF TableShape
<1> QED BY <1>1, <1>9, <1>10, AdvanceIInv DEF IInv

(* Every step keeps the invariant.                                         *)
LEMMA NextIInv == IInv /\ [Next]_vars => IInv'
<1> SUFFICES ASSUME IInv, [Next]_vars PROVE IInv'
  OBVIOUS
<1>0. TypeOK' /\ TypeOK
  BY TypeStep DEF IInv
<1>1. CASE Start
  <2>1. /\ stage' = 0 /\ stage = 0 /\ mem' = mem /\ mem = Empty(Stage)
        /\ doing' = IF resume' THEN "overlay" ELSE "reset"
        /\ UNCHANGED <<ckpt, gen, lost>>
    BY <1>1 DEF Start, IInv, IdleShape
  <2>2. doing' \in {"overlay", "reset"} /\ (doing' = "reset" <=> ~resume')
    BY <1>0, <2>1 DEF TypeOK
  <2>3. IdleShape' /\ ResetShape' /\ MemShape' /\ StepShape'
    BY <2>1, <2>2 DEF IdleShape, ResetShape, MemShape, StepShape, Working
  <2>4. StopHonoured'
    BY <1>0, <2>1 DEF StopHonoured, TypeOK, Stage, NoStop
  <2>5. GenShape'
    BY <2>1 DEF IInv, GenShape
  <2>6. ASSUME lost' = 0 PROVE RowShape' /\ AgreeShape' /\ ChainShape' /\ AheadShape'
    <3>1. RowShape /\ ChainShape
      BY <2>1, <2>6 DEF IInv
    <3> QED BY <2>1, <2>2, <3>1 DEF RowShape, AgreeShape, ChainShape, AheadShape, Working
  <2> QED BY <1>0, <2>3, <2>4, <2>5, <2>6 DEF IInv
<1>2. CASE ResetRun
  <2>1. /\ doing' = "overlay" /\ stage' = 0 /\ mem' = Empty(Stage) /\ ckpt' = Empty(Rows)
        /\ UNCHANGED <<resume, stop>>
    BY <1>2 DEF ResetRun, IInv, IdleShape, args
  <2>2. (\A s \in Stage : ~Has(mem'[s])) /\ (\A s \in Rows : ~Has(ckpt'[s]))
    BY <2>1, EmptyHasNothing
  <2>3. IdleShape' /\ ResetShape' /\ MemShape' /\ StepShape' /\ GenShape'
    BY <2>1, <2>2 DEF IdleShape, ResetShape, MemShape, StepShape, GenShape, Working
  <2>4. StopHonoured'
    BY <1>0, <2>1 DEF StopHonoured, TypeOK, Stage, NoStop
  <2>5. RowShape' /\ ChainShape'
    BY <2>2, StageShape DEF RowShape, ChainShape
  <2>6. AgreeShape' /\ AheadShape'
    BY <2>1, <2>2, StageShape DEF AgreeShape, AheadShape, Working
  <2> QED BY <1>0, <2>3, <2>4, <2>5, <2>6 DEF IInv
<1>3. CASE DeriveOverlay
  <2>1. /\ doing = "overlay" /\ doing' = "load" /\ stage' = 0 /\ stage = 0 /\ mem = Empty(Stage)
        /\ UNCHANGED <<mem, ckpt, gen, lost, resume, stop>>
    BY <1>3 DEF DeriveOverlay, Derived, IInv, IdleShape, args, history
  <2>2. \A s \in Stage : mem[s] = Nothing /\ ~Has(mem[s])
    BY <2>1, EmptyHasNothing
  <2>3. \A s \in Chain : ~(s < 0) /\ s \in Stage
    BY DEF Chain, Stage
  <2>4. IdleShape' /\ ResetShape' /\ StepShape' /\ GenShape'
    BY <2>1, StageSet DEF IInv, IdleShape, ResetShape, StepShape, GenShape
  <2>5. MemShape'
    BY <2>1, <2>2, <2>3 DEF MemShape
  <2>6. StopHonoured'
    BY <1>0, <2>1 DEF StopHonoured, TypeOK, Stage, NoStop
  <2>7. ASSUME lost' = 0 PROVE RowShape' /\ AgreeShape' /\ ChainShape' /\ AheadShape'
    <3>1. RowShape /\ ChainShape /\ AheadShape
      BY <2>1, <2>7 DEF IInv
    <3> QED BY <2>1, <2>3, <3>1 DEF RowShape, AgreeShape, ChainShape, AheadShape, Working
  <2> QED BY <1>0, <2>4, <2>5, <2>6, <2>7 DEF IInv
<1>4. CASE Load
  BY <1>0, <1>4, LoadIInv
<1>5. CASE LoadRejected
  <2>1. /\ doing = "load" /\ doing' = "run" /\ stage' = stage /\ mem' = mem
        /\ UNCHANGED <<resume, stop, ckpt, gen>> /\ lost' # 0
    BY <1>0, <1>5, ScanAssumption DEF LoadRejected, GoOn, TypeOK, args
  <2> QED BY <1>0, <2>1
          DEF IInv, IdleShape, ResetShape, GenShape, StopHonoured, MemShape, StepShape, Working
<1>6. CASE Run
  BY <1>0, <1>6, RunIInv
<1>7. CASE ThreatModelFails \/ Save \/ SaveOversize
  BY <1>0, <1>7, SaveIInv
<1>8. CASE Crash
  <2>1. Exit /\ UNCHANGED <<ckpt, gen, lost>>
    BY <1>8 DEF Crash
  <2>2. TableShape'
    BY <2>1 DEF IInv, GenShape, TableShape, RowShape
  <2> QED BY <1>0, <2>1, <2>2, ExitIInv
<1>9. CASE GcRun
  <2>1. ckpt' = Empty(Rows) /\ UNCHANGED <<doing, stage, resume, stop, mem, gen>>
        /\ (lost' = 0 => doing = "off")
    BY <1>0, <1>9, ScanAssumption DEF GcRun, TypeOK, args
  <2>2. \A s \in Rows : ~Has(ckpt'[s])
    BY <2>1, EmptyHasNothing
  <2>3. /\ IdleShape' /\ ResetShape' /\ MemShape' /\ StepShape' /\ StopHonoured' /\ GenShape'
    BY <2>1, <2>2 DEF IInv, IdleShape, ResetShape, MemShape, StepShape, StopHonoured, GenShape
  <2>4. RowShape'
    BY <2>2, StageShape DEF RowShape
  <2>5. ASSUME lost' = 0 PROVE AgreeShape' /\ ChainShape' /\ AheadShape'
    <3>1. doing' = "off" /\ \A s \in Stage : ~Has(mem'[s])
      BY <2>1, <2>5, EmptyHasNothing DEF IInv, IdleShape
    <3> QED BY <3>1, StageShape DEF AgreeShape, ChainShape, AheadShape, Working
  <2> QED BY <1>0, <2>3, <2>4, <2>5 DEF IInv
<1>10. CASE Rest \/ UNCHANGED vars
  <2>1. UNCHANGED <<ckpt, doing, stage, resume, stop, mem, gen, lost>>
    BY <1>10 DEF Rest, vars, args, history
  <2> QED BY <1>0, <2>1
          DEF IInv, IdleShape, ResetShape, GenShape, StopHonoured, MemShape, StepShape,
              RowShape, AgreeShape, ChainShape, AheadShape
<1> QED BY <1>1, <1>2, <1>3, <1>4, <1>5, <1>6, <1>7, <1>8, <1>9, <1>10 DEF Next

-----------------------------------------------------------------------------
(* The theorems.                                                           *)

(* Every reachable state satisfies the inductive invariant.                *)
THEOREM ResumeInvariance == Spec => []IInv
BY InitIInv, NextIInv, PTL DEF Spec

(* The scan and its checkpoint table keep their types (scan_repo,          *)
(* save_ckpt, load_ckpt).                                                  *)
THEOREM ScanTypeCorrect == Spec => []TypeOK
<1>1. IInv => TypeOK
  BY DEF IInv
<1> QED BY <1>1, ResumeInvariance, PTL

(* A fresh scan never inherits stale results: whatever a scan works with   *)
(* was made since store.reset_run last ran, however many scans died since. *)
THEOREM FreshScanIsFresh == Spec => []FreshSlate
<1>1. IInv => FreshSlate
  BY DEF IInv, GenShape, FreshSlate
<1> QED BY <1>1, ResumeInvariance, PTL

(* Every mix of resumed and recomputed stages fits together, unless a row  *)
(* was not saved, rejected by load_ckpt or evicted while a scan ran.       *)
THEOREM ResumeIsCoherent == Spec => []Coherent
<1>1. IInv => Coherent
  BY DEF IInv, ChainShape, Coherent
<1> QED BY <1>1, ResumeInvariance, PTL

(* No stage behind the one named by --stop-after is loaded or executed.    *)
THEOREM StopIsHonoured == Spec => []StopHonoured
<1>1. IInv => StopHonoured
  BY DEF IInv
<1> QED BY <1>1, ResumeInvariance, PTL

-----------------------------------------------------------------------------
(* What a crash costs.                                                     *)

(* The executions of stage s whose result is not at hand any more: neither *)
(* in the table nor about to be saved.                                     *)
Held(s) == IF Has(ckpt[s]) \/ (doing = "save" /\ stage = s) THEN 1 ELSE 0
Wasted(s) == runs[s] - Held(s)

(* Each of them was lost to a crash of its own.                            *)
CostShape ==
  lost = 0 =>
    /\ \A s \in Chain : Wasted(s) >= 0
    /\ Wasted(0) + Wasted(1) + Wasted(3) + Wasted(4) + Wasted(7) + Wasted(8) <= crashes

(* A step that wastes nothing.                                             *)
LEMMA NothingWasted ==
  ASSUME CostShape, UNCHANGED <<lost, crashes>>,
         lost = 0 => \A s \in Chain : Wasted(s)' = Wasted(s)
  PROVE  CostShape'
BY DEF CostShape, Chain

(* Every step keeps the account.                                           *)
LEMMA CostStep == IInv /\ CostShape /\ [Next]_vars => CostShape'
<1> SUFFICES ASSUME IInv, CostShape, [Next]_vars, lost' = 0 PROVE CostShape'
  BY DEF CostShape
<1>0. /\ TypeOK /\ TypeOK' /\ StepShape /\ MemShape
      /\ Chain \subseteq Rows /\ Chain \subseteq Stage
  BY TypeStep, StageShape DEF IInv
<1>1. ASSUME UNCHANGED <<ckpt, runs, lost, crashes>>, doing # "save", doing' # "save"
      PROVE  CostShape'
  <2>1. \A s \in Chain : Wasted(s)' = Wasted(s)
    BY <1>1 DEF Wasted, Held
  <2> QED BY <1>1, <2>1, NothingWasted
(* A stage without a row of the chain does not count.                      *)
<1>2. \A s \in Chain : s \notin {2, 5, 6, 9}
  BY DEF Chain
<1>3. \A s, m : Advance(s, m) => doing' # "save"
  BY DEF Advance, Exit, GoOn
<1>4. CASE Start \/ DeriveOverlay \/ Load
  <2>1. UNCHANGED <<ckpt, runs, lost, crashes>> /\ doing # "save" /\ doing' # "save"
    BY <1>3, <1>4 DEF Start, DeriveOverlay, Load, Exit, GoOn, history
  <2> QED BY <1>1, <2>1
<1>5. CASE ResetRun \/ (GcRun /\ doing = "off")
  <2>1. /\ ckpt' = Empty(Rows) /\ runs' = [s \in Stage |-> 0] /\ crashes' = 0
        /\ doing' # "save"
    BY <1>5 DEF ResetRun, GcRun
  <2>2. \A s \in Chain : Wasted(s)' = 0
    BY <1>0, <2>1, EmptyHasNothing DEF Wasted, Held
  <2> QED BY <2>1, <2>2 DEF CostShape, Chain
<1>6. CASE LoadRejected \/ SaveOversize \/ (GcRun /\ doing # "off")
  BY <1>0, <1>6, ScanAssumption DEF LoadRejected, SaveOversize, GcRun, TypeOK
<1>7. CASE Run
  <2>1. UNCHANGED <<ckpt, lost, crashes>> /\ runs' = [runs EXCEPT ![stage] = @ + 1]
    BY <1>7 DEF Run
  <2>2. CASE stage \in Chain
    <3>1. /\ doing = "run" /\ doing' = "save" /\ stage' = stage
          /\ \A s \in Chain : s = stage => ~Has(ckpt[s])
      <4>1. doing = "run" /\ doing' = "save" /\ stage' = stage
        BY <1>2, <1>7, <2>2 DEF Run, GoOn
      <4>2. AheadShape
        BY <2>1 DEF IInv
      <4> QED BY <1>0, <1>2, <2>2, <4>1, <4>2 DEF AheadShape, Working, Stage
    <3>2. \A s \in Chain : Wasted(s)' = Wasted(s)
      BY <1>0, <2>1, <3>1 DEF Wasted, Held, TypeOK
    <3> QED BY <2>1, <3>2, NothingWasted
  <2>3. CASE stage \notin Chain
    <3>1. doing = "run" /\ (doing' = "save" => stage' = stage)
      BY <1>3, <1>7 DEF Run, GoOn
    <3>2. \A s \in Chain : Wasted(s)' = Wasted(s)
      BY <1>0, <2>1, <2>3, <3>1 DEF Wasted, Held, TypeOK
    <3> QED BY <2>1, <3>2, NothingWasted
  <2> QED BY <2>2, <2>3
<1>8. CASE ThreatModelFails
  <2>1. /\ UNCHANGED <<ckpt, lost, crashes>> /\ runs' = [runs EXCEPT ![2] = @ + 1]
        /\ doing = "run" /\ doing' # "save"
    BY <1>3, <1>8 DEF ThreatModelFails
  <2>2. \A s \in Chain : Wasted(s)' = Wasted(s)
    BY <1>0, <1>2, <2>1 DEF Wasted, Held, TypeOK
  <2> QED BY <2>1, <2>2, NothingWasted
<1>9. CASE Save
  <2>1. /\ UNCHANGED <<runs, lost, crashes>> /\ ckpt' = [ckpt EXCEPT ![stage] = mem[stage]]
        /\ doing = "save" /\ doing' # "save"
    BY <1>3, <1>9 DEF Save
  <2>2. stage \in Chain => Has(mem[stage])
    BY <1>0, <2>1 DEF MemShape, Working
  <2>3. \A s \in Chain : Wasted(s)' = Wasted(s)
    BY <1>0, <2>1, <2>2 DEF Wasted, Held, TypeOK
  <2> QED BY <2>1, <2>3, NothingWasted
(* The execution whose result was about to be saved is wasted.             *)
<1>10. CASE Crash
  <2>1. UNCHANGED <<ckpt, runs, lost>> /\ crashes' = crashes + 1 /\ doing' # "save"
    BY <1>10 DEF Crash, Exit
  <2>2. \A s \in Chain : /\ s # stage => Wasted(s)' = Wasted(s)
                         /\ Wasted(s)' = Wasted(s) \/ Wasted(s)' = Wasted(s) + 1
    BY <1>0, <2>1 DEF Wasted, Held, TypeOK
  <2>3. \A s \in Chain : Wasted(s) \in Int
    BY <1>0 DEF Wasted, Held, TypeOK
  <2>4. 0 \in Chain /\ 1 \in Chain /\ 3 \in Chain /\ 4 \in Chain /\ 7 \in Chain /\ 8 \in Chain
    BY DEF Chain
  <2>5. crashes \in Nat
    BY <1>0, ScanAssumption DEF TypeOK
  <2> HIDE DEF Wasted
  <2> QED BY <2>1, <2>2, <2>3, <2>4, <2>5 DEF CostShape
<1>11. CASE Rest \/ UNCHANGED vars
  <2>1. UNCHANGED <<ckpt, runs, lost, crashes, doing, stage>>
    BY <1>11 DEF Rest, vars, history
  <2>2. \A s \in Chain : Wasted(s)' = Wasted(s)
    BY <2>1 DEF Wasted, Held
  <2> QED BY <2>1, <2>2, NothingWasted
<1> QED BY <1>4, <1>5, <1>6, <1>7, <1>8, <1>9, <1>10, <1>11 DEF Next

(* A crash costs the execution it hits and no other: unless rows were      *)
(* lost, resumed scans execute a stage again at most once for each crash   *)
(* (scan_repo's load_ckpt before and save_ckpt after every stage).         *)
THEOREM CrashIsCheap == Spec => []CrashCostsOneStage
<1>1. Init => CostShape
  <2> SUFFICES ASSUME Init PROVE CostShape
    OBVIOUS
  <2>1. \A s \in Chain : Wasted(s) = 0
    BY StageShape, EmptyHasNothing DEF Init, Wasted, Held
  <2> QED BY <2>1 DEF Init, CostShape, Chain
<1>2. IInv /\ CostShape => CrashCostsOneStage
  <2> SUFFICES ASSUME IInv, CostShape PROVE CrashCostsOneStage
    OBVIOUS
  <2> DEFINE again(s) == IF runs[s] = 0 THEN 0 ELSE runs[s] - 1
  <2>1. \A s \in Chain : s \in Stage /\ runs[s] \in Nat
    BY StageShape DEF IInv, TypeOK
  <2>2. ASSUME lost = 0, NEW s \in Chain
        PROVE  again(s) <= Wasted(s) /\ again(s) \in Int /\ Wasted(s) \in Int
    BY <2>1, <2>2 DEF CostShape, Wasted, Held
  <2>3. 0 \in Chain /\ 1 \in Chain /\ 3 \in Chain /\ 4 \in Chain /\ 7 \in Chain /\ 8 \in Chain
    BY DEF Chain
  <2>4. crashes \in Nat
    BY ScanAssumption DEF IInv, TypeOK
  <2>5. lost = 0 => again(0) + again(1) + again(3) + again(4) + again(7) + again(8) <= crashes
    <3> HIDE DEF again
    <3> QED BY <2>2, <2>3, <2>4 DEF CostShape
  <2> QED BY <2>5 DEF CrashCostsOneStage
<1> QED BY <1>1, <1>2, CostStep, ResumeInvariance, PTL DEF Spec
=============================================================================
