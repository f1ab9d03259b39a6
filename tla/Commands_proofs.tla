--------------------------- MODULE Commands_proofs ---------------------------
(***************************************************************************)
(* Proofs about the two programs a user starts: the batch driver, for      *)
(* every manifest, any number of batches and any number of faults          *)
(* (BatchStaging), and the commands scan, setup and doctor, for any        *)
(* profiles, machines and command lines (ScanCommand).                     *)
(*                                                                         *)
(* Batches.  As long as nothing was cut off, the marker of a directory     *)
(* speaks of the code in it, except while an entry is being marked, and a  *)
(* folder of reports stands where some entry's marker is; so what is       *)
(* reused is the entry's own, and what is removed held no reports that a   *)
(* lone entry needs.  Where two entries of a group share a directory, its  *)
(* marker names the last of them that was staged.                          *)
(*                                                                         *)
(* Commands.  What the preflight and doctor call ready can do what         *)
(* detection needs, what only the stages after detection lack stops no     *)
(* scan, and S10's unforced edits are made at the commit the report was    *)
(* built at.                                                               *)
(***************************************************************************)
EXTENDS BatchStaging, ScanCommand, TLAPS

(***************************************************************************)
(* The batch driver.                                                       *)
(***************************************************************************)

(* In a group the reports stand beside the members.                        *)
GroupShape == grouped => \A d \in Entry : ~tree[d].reports

(* Code is whole, and of the entry the marker names, but for the one       *)
(* directory that was just copied.                                         *)
CodeShape ==
  \A d \in Entry : tree[d].code # "none" =>
    /\ tree[d].code = "full"
    /\ \/ tree[d].of = marker[d]
       \/ doing = "marking" /\ \E e \in todo : First(e) /\ d = Dest(e)

(* The directory of the entry at hand was emptied, then filled.            *)
CopyShape ==
  \A e \in todo : First(e) =>
    /\ doing = "copying" => tree[Dest(e)] = Absent
    /\ doing = "marking" => tree[Dest(e)] = Whole(e)

(* A staged entry's directory has its marker, and in a group its code, if  *)
(* no entry after it was staged into the same directory, or was to be.     *)
StagedShape ==
  doing \in {"stage", "copying", "marking", "scanning"} =>
    \A e \in staged :
      \/ InPlace(e)
      \/ /\ marker[Dest(e)] \in {e} \cup (Later(e) \cap staged)
         /\ grouped => tree[Dest(e)].code # "none" \/ Later(e) \ staged # {}

(* The entries of a unit are staged in the order of the manifest.          *)
OrderShape == \A e \in staged, f \in todo : e < f

(* Reports stand in a directory that some entry's marker claims.           *)
KeptShape ==
  \A d \in Entry : tree[d].reports => \E e \in Entry : Dest(e) = d /\ marker[d] = e

IInv ==
  /\ TypeOK
  /\ GroupShape
  /\ OrderShape
  /\ faults = 0 => CodeShape /\ CopyShape /\ StagedShape /\ KeptShape

-----------------------------------------------------------------------------
(* Entries have directories and units; an entry on its own shares no       *)
(* directory with another of its unit, and a group stays in its folder.    *)
LEMMA Places ==
  ASSUME TypeOK
  PROVE  /\ \A e \in Entry : Dest(e) \in Entry /\ UnitOf(e) \in Nat \ {0}
         /\ \A e \in Members(unit) : e \in Entry /\ (grouped => Dest(e) \in Members(unit))
         /\ ~grouped => \A e, f \in Members(unit) : e = f
         /\ \A e, f \in Entry : First(e) /\ First(f) => e = f
  <1>1. \A e \in Entry : Dest(e) \in Entry /\ UnitOf(e) \in Nat \ {0}
    <2>1. \A e \in Entry : e \in Nat \ {0}
      BY BatchAssumption DEF Entry
    <2>2. CASE grouped
      BY <2>2, BatchAssumption DEF Dest, UnitOf
    <2>3. CASE ~grouped
      BY <2>1, <2>3, BatchAssumption DEF Dest, UnitOf
    <2> QED BY <2>2, <2>3
  <1>2. /\ \A e \in Members(unit) : e \in Entry /\ (grouped => Dest(e) \in Members(unit))
        /\ ~grouped => \A e, f \in Members(unit) : e = f
    <2>1. \A e \in Members(unit) : e \in Entry
      BY DEF Members
    <2>2. CASE grouped
      BY <2>1, <2>2, BatchAssumption DEF Dest, UnitOf, Members
    <2>3. CASE ~grouped
      BY <2>1, <2>3 DEF UnitOf, Members
    <2> QED BY <2>1, <2>2, <2>3
  <1>3. \A e, f \in Entry : First(e) /\ First(f) => e = f
    BY BatchAssumption DEF First, Entry
  <1> QED BY <1>1, <1>2, <1>3

(* What is left of a tree is a tree.                                       *)
LEMMA PrunedType ==
  ASSUME NEW t \in Tree, NEW c \in {"none", "partial", "full"}, NEW r \in BOOLEAN
  PROVE  Pruned(t, c, r) \in Tree /\ Pruned(t, c, r).reports = r
  BY DEF Tree, Pruned, Absent

(* Copies are trees.                                                       *)
LEMMA CopyType ==
  ASSUME NEW e \in Entry
  PROVE  \A t \in {Absent, Whole(e), Part(e)} : t \in Tree /\ ~t.reports
  <1>1. Absent \in Tree /\ ~Absent.reports
    BY DEF Tree, Absent
  <1>2. Whole(e) \in Tree /\ ~Whole(e).reports
    BY DEF Tree, Whole
  <1>3. Part(e) \in Tree /\ ~Part(e).reports
    BY DEF Tree, Whole, Part
  <1> QED BY <1>1, <1>2, <1>3

(* A fault happened, whatever happened before.                             *)
LEMMA FaultCounts ==
  ASSUME TypeOK
  PROVE  /\ Fault => faults' \in 1..MaxFaults
         /\ Calm => faults' = faults
  BY BatchAssumption DEF TypeOK, Fault, Calm

(* The invariant holds initially.                                          *)
LEMMA InitIInv == Init => IInv
  <1> SUFFICES ASSUME Init PROVE IInv
    OBVIOUS
  <1>1. \A d \in Entry : tree[d] = Absent /\ Absent \in Tree
    BY DEF Init, Absent, Tree
  <1>2. TypeOK
    <2>1. tree \in [Entry -> Tree] /\ marker \in [Entry -> Entry \cup {NoEntry}]
      BY <1>1 DEF Init
    <2>2. batches \in 0..MaxBatches /\ faults \in 0..MaxFaults
      BY BatchAssumption DEF Init
    <2> QED BY <2>1, <2>2 DEF Init, TypeOK, Modes
  <1>3. /\ GroupShape /\ CodeShape /\ CopyShape /\ KeptShape /\ StagedShape /\ OrderShape
    BY <1>1 DEF Init, GroupShape, CodeShape, CopyShape, StagedShape, KeptShape, OrderShape, Absent
  <1> QED BY <1>2, <1>3 DEF IInv

(* A staged entry keeps its directory, or leaves it to the one at hand.    *)
LEMMA StagedStep ==
  ASSUME TypeOK, OrderShape, StagedShape, NEW e \in todo, Dest(e) \in Entry,
         doing \in {"stage", "copying", "marking"}, UNCHANGED <<grouped, unit>>,
         staged' \in {staged, staged \cup {e}},
         \A d \in Entry \ {Dest(e)} : marker'[d] = marker[d] /\ tree'[d].code = tree[d].code,
         e \notin staged' => marker' = marker,
         e \in staged' =>
           InPlace(e) \/ (marker'[Dest(e)] = e /\ (grouped => tree'[Dest(e)].code # "none"))
  PROVE  StagedShape'
  <1>1. /\ e \in Members(unit) /\ e \in Entry /\ e \notin staged
        /\ \A f \in staged : f \in Members(unit) /\ f \in Entry /\ Dest(f) \in Entry /\ f < e
    BY Places DEF TypeOK, OrderShape
  <1>2. \A f \in Entry : Dest(f)' = Dest(f) /\ InPlace(f)' = InPlace(f) /\ Later(f)' = Later(f)
    BY DEF Dest, InPlace, Later, Members, UnitOf
  <1>3. \A f \in staged : e \in Later(f) <=> Dest(e) = Dest(f)
    BY <1>1 DEF Later
  <1>4. InPlace(e) => staged = {}
    BY <1>1, Places DEF InPlace
  <1>5. ASSUME NEW f \in staged', ~InPlace(f)
        PROVE  /\ marker'[Dest(f)] \in {f} \cup (Later(f) \cap staged')
               /\ grouped => tree'[Dest(f)].code # "none" \/ Later(f) \ staged' # {}
    <2>1. CASE f = e
      BY <1>5, <2>1
    <2>2. CASE f # e
      <3>1. /\ f \in staged
            /\ marker[Dest(f)] \in {f} \cup (Later(f) \cap staged)
            /\ grouped => tree[Dest(f)].code # "none" \/ Later(f) \ staged # {}
        BY <1>5, <2>2 DEF StagedShape
      <3>2. CASE Dest(f) # Dest(e)
        BY <1>1, <1>3, <3>1, <3>2
      <3>3. CASE Dest(f) = Dest(e) /\ e \in staged'
        BY <1>3, <1>4, <3>1, <3>3
      <3>4. CASE Dest(f) = Dest(e) /\ e \notin staged'
        BY <1>3, <3>1, <3>4
      <3> QED BY <3>2, <3>3, <3>4
    <2> QED BY <2>1, <2>2
  <1> QED BY <1>1, <1>2, <1>5 DEF StagedShape

(* A step of the staging of an entry preserves it.                         *)
LEMMA StageIInv ==
  ASSUME IInv, NEW e \in Entry, Stage(e)
  PROVE  IInv'
  <1> USE DEF IInv
  <1>1. /\ Dest(e) \in Entry
        /\ tree \in [Entry -> Tree]
        /\ tree[Dest(e)] \in Tree
    BY Places DEF TypeOK
  <1>2. /\ \A t \in {Absent, Whole(e), Part(e)} : t \in Tree /\ ~t.reports
        /\ \A c \in {tree[Dest(e)].code, "partial"} :
           \A r \in {tree[Dest(e)].reports, FALSE} :
             LET t == Pruned(tree[Dest(e)], c, r)
             IN  t \in Tree /\ (t.reports => tree[Dest(e)].reports)
    <2>1. \A t \in {Absent, Whole(e), Part(e)} : t \in Tree /\ ~t.reports
      BY CopyType
    <2>2. ASSUME NEW c \in {tree[Dest(e)].code, "partial"},
                 NEW r \in {tree[Dest(e)].reports, FALSE}
          PROVE  LET t == Pruned(tree[Dest(e)], c, r)
                 IN  t \in Tree /\ (t.reports => tree[Dest(e)].reports)
      <3>1. /\ c \in {"none", "partial", "full"}
            /\ r \in BOOLEAN /\ (r => tree[Dest(e)].reports)
        BY <1>1, <2>2 DEF Tree
      <3> QED BY <1>1, <3>1, PrunedType
    <2> QED BY <2>1, <2>2
  <1>3. e \in todo /\ e \notin staged /\ First(e)
    BY DEF Stage, TypeOK, SourceGone, UseInPlace, Reuse, Clear, ClearFails, Copy,
           CopyFails, CopyBreaks, Mark, MarkFails, First
  <1>4. /\ UNCHANGED <<grouped, mode, unit, ending, batches>>
        /\ doing' \in {"stage", "copying", "marking"}
        /\ todo' \in {todo, todo \ {e}}
        /\ staged' \in {staged, staged \cup {e}}
        /\ e \in todo' => staged' = staged
    BY <1>3 DEF Stage, SourceGone, UseInPlace, Reuse, Clear, ClearFails, Copy,
           CopyFails, CopyBreaks, Mark, MarkFails, Settle, unitVars
  <1>5. marker' \in [Entry -> Entry \cup {NoEntry}]
    BY <1>1 DEF Stage, TypeOK, SourceGone, UseInPlace, Reuse, Clear, ClearFails, Copy,
           CopyFails, CopyBreaks, Mark, MarkFails
  <1>6. \/ tree' = tree
        \/ \E t \in Tree : Put(Dest(e), t) /\ (t.reports => tree[Dest(e)].reports)
    BY <1>2 DEF Stage, SourceGone, UseInPlace, Reuse, Clear, ClearFails, Copy,
           CopyFails, CopyBreaks, Mark, MarkFails
  <1>7. faults' \in 0..MaxFaults
    <2>1. Fault \/ Calm
      BY DEF Stage, SourceGone, UseInPlace, Reuse, Clear, ClearFails, Copy,
             CopyFails, CopyBreaks, Mark, MarkFails
    <2> QED BY <2>1, FaultCounts DEF TypeOK
  <1>8. TypeOK'
    <2>1. tree' \in [Entry -> Tree]
      BY <1>1, <1>6 DEF Put
    <2>2. Members(unit)' = Members(unit)
      BY <1>4 DEF Members, UnitOf
    <2> QED BY <1>3, <1>4, <1>5, <1>7, <2>1, <2>2 DEF TypeOK
  <1>9. GroupShape'
    BY <1>1, <1>4, <1>6 DEF GroupShape, Put
  <1>12. OrderShape'
    <2>1. \A f \in todo : f \in Entry /\ (f # e => e < f)
      <3>1. \A f \in todo : f \in Entry
        BY Places DEF TypeOK
      <3> QED BY <1>3, <3>1, BatchAssumption DEF First, Entry
    <2>2. CASE e \in todo'
      BY <1>4, <2>2 DEF OrderShape
    <2>3. CASE e \notin todo'
      <3>1. todo' = todo \ {e}
        BY <1>3, <1>4, <2>3
      <3> QED BY <1>4, <2>1, <3>1 DEF OrderShape
    <2> QED BY <2>2, <2>3
  <1>10. CASE faults' # 0
    BY <1>8, <1>9, <1>10, <1>12
  <1>11. CASE faults' = 0
    <2>1. faults = 0 /\ \/ SourceGone(e) \/ UseInPlace(e) \/ Reuse(e) \/ Clear(e)
                        \/ Copy(e) \/ CopyFails(e) \/ Mark(e)
      <3>1. ~Fault
        BY <1>11, FaultCounts
      <3>2. \/ SourceGone(e) \/ UseInPlace(e) \/ Reuse(e) \/ Clear(e)
            \/ Copy(e) \/ CopyFails(e) \/ Mark(e)
        BY <3>1 DEF Stage, ClearFails, CopyBreaks, MarkFails
      <3>3. Calm
        BY <3>2 DEF SourceGone, UseInPlace, Reuse, Clear, Copy, CopyFails, Mark
      <3> QED BY <1>11, <3>2, <3>3, FaultCounts
    <2>2. CodeShape /\ CopyShape /\ StagedShape /\ KeptShape
      BY <2>1
    <2>4. \A f \in Entry : /\ Dest(f)' = Dest(f) /\ InPlace(f)' = InPlace(f)
                           /\ Whole(f)' = Whole(f)
      BY <1>4 DEF Dest, InPlace, Whole
    <2>5. /\ \A d \in Entry \ {Dest(e)} : marker'[d] = marker[d] /\ tree'[d].code = tree[d].code
          /\ e \notin staged' => marker' = marker
          /\ e \in staged' =>
               InPlace(e) \/ (marker'[Dest(e)] = e /\ (grouped => tree'[Dest(e)].code # "none"))
          => StagedShape'
      <3>1. doing \in {"stage", "copying", "marking"}
        BY <2>1 DEF SourceGone, UseInPlace, Reuse, Clear, Copy, CopyFails, Mark
      <3> QED BY <1>1, <1>3, <1>4, <2>2, <3>1, StagedStep
    <2>6. \A f \in todo : First(f) => f = e
      BY <1>3, Places DEF TypeOK, Members
    <2>7. todo' = todo => (First(e))' 
      BY <1>3 DEF First
    <2>8. CASE SourceGone(e) \/ UseInPlace(e) \/ Reuse(e) \/ CopyFails(e)
      <3>1. /\ tree' = tree /\ marker' = marker /\ doing' = "stage"
            /\ doing \in {"stage", "copying"}
        BY <2>8 DEF SourceGone, UseInPlace, Reuse, CopyFails, Settle
      <3>2. CodeShape' /\ CopyShape' /\ KeptShape'
        BY <2>2, <2>4, <3>1 DEF CodeShape, CopyShape, KeptShape
      <3>3. \/ staged' = staged
            \/ InPlace(e)
            \/ marker[Dest(e)] = e /\ HasContent(Dest(e))
        BY <2>8 DEF SourceGone, UseInPlace, Reuse, CopyFails, Settle, Bound
      <3>4. StagedShape'
        BY <1>1, <1>3, <2>5, <3>1, <3>3 DEF HasContent, GroupShape
      <3> QED BY <1>8, <1>9, <1>12, <3>2, <3>4
    <2>9. CASE Clear(e)
      <3>1. /\ tree' = [tree EXCEPT ![Dest(e)] = Absent] /\ marker' = marker
            /\ doing = "stage" /\ doing' = "copying" /\ todo' = todo /\ staged' = staged
        BY <2>9 DEF Clear, Put, unitVars
      <3>2. CodeShape'
        BY <1>1, <2>2, <3>1 DEF CodeShape, Absent
      <3>3. CopyShape'
        BY <1>1, <2>4, <2>6, <3>1 DEF CopyShape, First
      <3>4. StagedShape'
        BY <1>1, <1>3, <2>5, <3>1
      <3>5. KeptShape'
        BY <1>1, <2>2, <2>4, <3>1 DEF KeptShape, Absent
      <3> QED BY <1>8, <1>9, <1>12, <3>2, <3>3, <3>4, <3>5
    <2>10. CASE Copy(e)
      <3>1. /\ tree' = [tree EXCEPT ![Dest(e)] = Whole(e)] /\ marker' = marker
            /\ doing = "copying" /\ doing' = "marking" /\ todo' = todo /\ staged' = staged
        BY <2>10 DEF Copy, Put, unitVars
      <3>2. CodeShape'
        BY <1>1, <1>3, <2>2, <2>4, <2>7, <3>1 DEF CodeShape, Whole
      <3>3. CopyShape'
        BY <1>1, <2>4, <2>6, <3>1 DEF CopyShape, First
      <3>4. StagedShape'
        BY <1>1, <1>3, <2>5, <3>1
      <3>5. KeptShape'
        BY <1>1, <2>2, <2>4, <3>1 DEF KeptShape, Whole
      <3> QED BY <1>8, <1>9, <1>12, <3>2, <3>3, <3>4, <3>5
    <2>11. CASE Mark(e)
      <3>1. /\ marker' = [marker EXCEPT ![Dest(e)] = e] /\ tree' = tree
            /\ doing = "marking" /\ doing' = "stage"
            /\ todo' = todo \ {e} /\ staged' = staged \cup {e}
        BY <2>11 DEF Mark, Settle
      <3>2. tree[Dest(e)] = Whole(e)
        BY <1>3, <2>2, <3>1 DEF CopyShape
      <3>3. \A d \in Entry : marker'[d] = IF d = Dest(e) THEN e ELSE marker[d]
        BY <1>1, <3>1 DEF TypeOK
      <3>4. CodeShape'
        BY <2>2, <2>6, <3>1, <3>2, <3>3 DEF CodeShape, Whole
      <3>5. CopyShape' /\ KeptShape'
        BY <2>2, <2>4, <3>1, <3>2, <3>3 DEF CopyShape, KeptShape, Whole
      <3>6. StagedShape'
        BY <1>1, <1>3, <2>5, <3>1, <3>2, <3>3 DEF Whole
      <3> QED BY <1>8, <1>9, <1>12, <3>4, <3>5, <3>6
    <2> QED BY <2>1, <2>8, <2>9, <2>10, <2>11
  <1> QED BY <1>10, <1>11

(* A step that stages nothing preserves the types.                         *)
LEMMA UnitTypeOK ==
  ASSUME TypeOK,
         \/ StartBatch \/ NextUnit \/ EndBatch \/ StartScan \/ NoScan \/ EndScan
         \/ Purge \/ PurgeFails \/ BreakOff \/ BreakOffCopy \/ BreakOffPurge
  PROVE  TypeOK'
  <1>1. faults' \in 0..MaxFaults
    <2>1. Fault \/ Calm
      BY DEF StartBatch, NextUnit, EndBatch, StartScan, NoScan, EndScan, Goto, Purge,
             PurgeFails, BreakOff, BreakOffCopy, BreakOffPurge
    <2> QED BY <2>1, FaultCounts DEF TypeOK
  <1>2. /\ grouped' = grouped /\ marker' = marker
        /\ batches' \in 0..MaxBatches
        /\ mode' \in Modes
        /\ ending' \in BOOLEAN
        /\ doing' \in {"off", "next", "stage", "scanning", "purging"}
    <2> USE DEF StartBatch, NextUnit, EndBatch, StartScan, NoScan, EndScan, Goto, Purge,
                PurgeFails, BreakOff, BreakOffCopy, BreakOffPurge, AfterPurge
    <2>1. grouped' = grouped /\ marker' = marker
      OBVIOUS
    <2>2. batches' = batches \/ (batches < MaxBatches /\ batches' = batches + 1)
      OBVIOUS
    <2>3. batches' \in 0..MaxBatches
      BY <2>2, BatchAssumption DEF TypeOK
    <2>4. mode' \in Modes
      BY DEF TypeOK
    <2>5. ending' = ending \/ ending' = FALSE \/ ending' = TRUE
      OBVIOUS
    <2>6. doing' \in {"off", "next", "stage", "scanning", "purging"}
      OBVIOUS
    <2> QED BY <2>1, <2>3, <2>4, <2>5, <2>6 DEF TypeOK
  <1>3. tree' \in [Entry -> Tree]
    <2>1. CASE UNCHANGED tree
      BY <2>1 DEF TypeOK
    <2>2. CASE StartScan
      BY <2>2 DEF StartScan, TypeOK, Tree
    <2>3. CASE \E left \in [Entry -> {"none", "partial", "full"}] : PurgeTo(left)
      <3>1. PICK left \in [Entry -> {"none", "partial", "full"}] : PurgeTo(left)
        BY <2>3
      <3>2. \A d \in Entry : Pruned(tree[d], left[d], tree[d].reports) \in Tree
        BY PrunedType DEF TypeOK, Tree
      <3> QED BY <3>1, <3>2 DEF PurgeTo, TypeOK
    <2>4. CASE BreakOffCopy
      <3>1. \A e \in todo : e \in Entry /\ Part(e) \in Tree /\ Dest(e) \in Entry
        BY CopyType, Places DEF TypeOK, Members
      <3> QED BY <2>4, <3>1 DEF BreakOffCopy, Put, TypeOK
    <2>5. Purge => \E left \in [Entry -> {"none", "partial", "full"}] : PurgeTo(left)
      BY DEF Purge
    <2> QED BY <2>1, <2>2, <2>3, <2>4, <2>5
            DEF StartBatch, NextUnit, EndBatch, NoScan, EndScan, PurgeFails, BreakOff,
                BreakOffPurge
  <1>4. (unit' \in Nat /\ todo' \subseteq Members(unit)' /\ staged' \subseteq Members(unit)' \ todo')
    <2>1. CASE UNCHANGED unitVars
      BY <1>2, <2>1 DEF TypeOK, unitVars, Members, UnitOf
    <2>2. CASE StartBatch
      BY <2>2 DEF StartBatch
    <2>3. CASE NextUnit
      BY <1>2, <2>3, Places DEF NextUnit, UnitsLeft, Members, UnitOf
    <2> QED BY <2>1, <2>2, <2>3
            DEF EndBatch, StartScan, NoScan, EndScan, Goto, Purge, PurgeFails, BreakOff,
                BreakOffCopy, BreakOffPurge, AfterPurge
  <1> QED BY <1>1, <1>2, <1>3, <1>4 DEF TypeOK

(* A step that stages nothing preserves the invariant.                     *)
LEMMA UnitIInv ==
  ASSUME IInv,
         \/ StartBatch \/ NextUnit \/ EndBatch \/ StartScan \/ NoScan \/ EndScan
         \/ Purge \/ PurgeFails \/ BreakOff \/ BreakOffCopy \/ BreakOffPurge
  PROVE  IInv'
  <1>1. TypeOK /\ TypeOK'
    BY UnitTypeOK DEF IInv
  <1>2. grouped' = grouped /\ marker' = marker /\ doing' \notin {"copying", "marking"}
    BY DEF StartBatch, NextUnit, EndBatch, StartScan, NoScan, EndScan,
       Goto, Purge, PurgeFails, BreakOff, BreakOffCopy, BreakOffPurge, AfterPurge
  <1>3. \A d \in Entry : tree'[d].reports => tree[d].reports \/ StartScan
    <2>1. \A t \in Tree, c \in {"none", "partial", "full"} : Pruned(t, c, t.reports).reports = t.reports
      BY PrunedType DEF Tree
    <2>2. \A e \in todo : Dest(e) \in Entry /\ ~Part(e).reports
      BY <1>1, Places, CopyType DEF TypeOK, Members
    <2>3. CASE \E left \in [Entry -> {"none", "partial", "full"}] : PurgeTo(left)
      <3>1. PICK left \in [Entry -> {"none", "partial", "full"}] : PurgeTo(left)
        BY <2>3
      <3> QED BY <1>1, <2>1, <3>1 DEF PurgeTo, TypeOK
    <2>4. CASE BreakOffCopy
      BY <1>1, <2>2, <2>4 DEF BreakOffCopy, Put, TypeOK
    <2> QED BY <2>3, <2>4 DEF StartBatch, NextUnit, EndBatch, NoScan, EndScan, Purge,
               PurgeFails, BreakOff, BreakOffPurge
  <1>4. GroupShape'
    <2>1. grouped /\ StartScan => \A d \in Entry : tree'[d].reports = tree[d].reports
      BY <1>1 DEF StartScan, TypeOK, Tree
    <2> QED BY <1>2, <1>3, <2>1 DEF GroupShape, IInv
  <1>7. OrderShape'
    <2>1. staged' = {} \/ UNCHANGED <<staged, todo>>
      BY DEF StartBatch, NextUnit, EndBatch, StartScan, NoScan, EndScan, Goto, Purge,
             PurgeFails, BreakOff, BreakOffCopy, BreakOffPurge, AfterPurge, unitVars
    <2> QED BY <2>1 DEF OrderShape, IInv
  <1>5. CASE faults' # 0
    BY <1>1, <1>4, <1>5, <1>7 DEF IInv
  <1>6. CASE faults' = 0
    <2>1. /\ faults = 0
          /\ \/ StartBatch \/ NextUnit \/ EndBatch \/ StartScan \/ NoScan \/ EndScan
             \/ Purge \/ BreakOff
      <3>1. ~Fault
        BY <1>1, <1>6, FaultCounts
      <3>2. \/ StartBatch \/ NextUnit \/ EndBatch \/ StartScan \/ NoScan \/ EndScan
            \/ Purge \/ BreakOff
        BY <3>1 DEF PurgeFails, BreakOffCopy, BreakOffPurge
      <3>3. Calm
        BY <3>2 DEF StartBatch, NextUnit, EndBatch, StartScan, NoScan, EndScan, Goto,
                    Purge, BreakOff
      <3> QED BY <1>1, <1>6, <3>2, <3>3, FaultCounts
    <2>2. /\ CodeShape /\ CopyShape /\ StagedShape /\ KeptShape
          /\ doing \notin {"copying", "marking"}
      BY <2>1 DEF IInv, StartBatch, NextUnit, EndBatch, StartScan, NoScan, EndScan, Goto,
                  Purge, PurgeTo, BreakOff
    <2>3. \A d \in Entry : tree'[d].code # "none" =>
            tree'[d].code = tree[d].code /\ tree'[d].of = tree[d].of
      <3>1. CASE UNCHANGED tree
        BY <3>1
      <3>2. CASE StartScan
        BY <1>1, <3>2 DEF StartScan, TypeOK, Tree
      <3>3. CASE Purge
        BY <1>1, <3>3 DEF Purge, PurgeTo, Pruned, Absent, TypeOK, Tree
      <3> QED BY <2>1, <3>1, <3>2, <3>3
              DEF StartBatch, NextUnit, EndBatch, NoScan, EndScan, BreakOff
    <2>4. CodeShape' /\ CopyShape'
      BY <1>2, <2>2, <2>3 DEF CodeShape, CopyShape
    <2>5. KeptShape'
      <3>1. CASE StartScan
        <4>1. \A d \in Entry : tree'[d].reports =>
                tree[d].reports \/ (~grouped /\ \E e \in staged \ Local : Dest(e) = d)
          BY <1>1, <3>1 DEF StartScan, TypeOK, Tree
        <4>2. ~grouped => \A e \in staged \ Local : e \in Entry /\ marker[Dest(e)] = e
          BY <1>1, <2>2, <3>1, Places DEF StagedShape, InPlace, StartScan, Goto, TypeOK, Later
        <4> QED BY <1>2, <2>2, <4>1, <4>2 DEF KeptShape, Dest
      <3>2. CASE ~StartScan
        BY <1>2, <1>3, <2>2, <3>2 DEF KeptShape, Dest
      <3> QED BY <3>1, <3>2
    <2>6. StagedShape'
      <3>1. CASE NextUnit
        BY <3>1 DEF NextUnit, StagedShape
      <3>2. CASE StartScan
        <4>1. /\ staged' = staged /\ doing = "stage"
              /\ \A d \in Entry : tree'[d].code = tree[d].code
          BY <1>1, <3>2 DEF StartScan, Goto, unitVars, TypeOK, Tree
        <4>2. \A e \in staged : e \in Entry /\ Dest(e) \in Entry
          BY <1>1, Places DEF TypeOK
        <4>3. \A e \in Entry : Dest(e)' = Dest(e) /\ InPlace(e)' = InPlace(e) /\ Later(e)' = Later(e)
          BY <1>2, <3>2 DEF Dest, InPlace, Later, Members, UnitOf, StartScan, Goto, unitVars
        <4> QED BY <1>2, <2>2, <4>1, <4>2, <4>3 DEF StagedShape
      <3>3. CASE doing' \in {"off", "next", "purging"}
        BY <3>3 DEF StagedShape
      <3> QED BY <2>1, <3>1, <3>2, <3>3 DEF StartBatch, EndBatch, NoScan, EndScan, Goto,
              Purge, AfterPurge, BreakOff
    <2> QED BY <1>1, <1>4, <1>7, <2>4, <2>5, <2>6 DEF IInv
  <1> QED BY <1>5, <1>6

(* Every step preserves the invariant.                                     *)
LEMMA NextIInv == IInv /\ [Next]_vars => IInv'
  <1> SUFFICES ASSUME IInv, [Next]_vars PROVE IInv'
    OBVIOUS
  <1>1. CASE UNCHANGED vars
    BY <1>1 DEF vars, unitVars, IInv, TypeOK, GroupShape, CodeShape, CopyShape, StagedShape,
       KeptShape, OrderShape, Members, Later, UnitOf, First, Dest, InPlace, Whole
  <1>2. CASE Next
    BY <1>1, <1>2, StageIInv, UnitIInv DEF Next, Rest
  <1> QED BY <1>1, <1>2

-----------------------------------------------------------------------------
(* Theorems                                                                *)

(* The inductive invariant holds of every sequence of batches.             *)
THEOREM StagingInvariance == Spec => []IInv
  <1> QED BY InitIInv, NextIInv, PTL DEF Spec

(* The batch driver's variables keep their types; in particular an entry   *)
(* is staged at most once in its unit (run_batch, _run_batch_grouped).     *)
THEOREM StagingTypeCorrect == Spec => []TypeOK
  <1>1. IInv => TypeOK BY DEF IInv
  <1> QED BY <1>1, StagingInvariance, PTL

(* Without accidents a scan is given the whole of the repository it was    *)
(* asked for, or the remains of its own purged checkout, and never the     *)
(* code of another, but for entries of a group whose slugs name the same   *)
(* directory: then it finds a later one of them, or nothing (_acquire_repo,*)
(* _stage_repo, _stage_dir_bound, _assign_slugs).                          *)
THEOREM ScansAreOwn == Spec => []ScansOwnCode
  <1>1. IInv => ScansOwnCode
    <2> SUFFICES ASSUME IInv, faults = 0, doing = "scanning", NEW e \in staged, ~InPlace(e)
                 PROVE  LET t == tree[Dest(e)]
                        IN  \/ t.code = "full" /\ t.of \in {e} \cup (Later(e) \cap staged)
                            \/ t.code = "none" /\ (grouped => Later(e) \ staged # {})
      BY DEF ScansOwnCode
    <2>1. /\ Dest(e) \in Entry
          /\ marker[Dest(e)] \in {e} \cup (Later(e) \cap staged)
          /\ grouped => tree[Dest(e)].code # "none" \/ Later(e) \ staged # {}
      BY Places DEF IInv, StagedShape, TypeOK
    <2> QED BY <2>1 DEF IInv, CodeShape
  <1> QED BY <1>1, StagingInvariance, PTL

(* Without accidents the reports of an entry that shares its directory     *)
(* with no other are never deleted (_purge_clone keeps them, _acquire_repo *)
(* takes them for a checkout).                                             *)
THEOREM ReportsAreKept == Spec => ReportsKept
  <1>1. IInv /\ [Next]_vars =>
          \A d \in Entry :
            /\ faults' = 0
            /\ \A e, f \in Entry : Dest(e) = d /\ Dest(f) = d => e = f
            /\ tree[d].reports
            => tree'[d].reports
    <2> SUFFICES ASSUME IInv, Next, NEW d \in Entry, faults' = 0, tree[d].reports,
                        \A e, f \in Entry : Dest(e) = d /\ Dest(f) = d => e = f
                 PROVE  tree'[d].reports
      BY DEF vars
    <2>1. ~Fault /\ TypeOK /\ (Calm => faults = 0)
      BY FaultCounts DEF IInv
    <2>2. CASE UNCHANGED tree
      BY <2>2
    <2>3. CASE StartScan
      BY <2>1, <2>3 DEF StartScan, TypeOK, Tree
    <2>4. CASE Purge
      <3>1. tree[d] \in Tree /\ Pruned(tree[d], "none", tree[d].reports).reports = tree[d].reports
        BY <2>1, PrunedType DEF TypeOK, Tree
      <3> QED BY <2>4, <3>1 DEF Purge, PurgeTo
    <2>5. ASSUME NEW e \in Entry, Clear(e) \/ Copy(e) PROVE tree'[d].reports
      <3>1. /\ faults = 0 /\ First(e) /\ e \in todo /\ Dest(e) \in Entry
            /\ (Clear(e) => ~(HasContent(Dest(e)) /\ Bound(e)))
            /\ (Copy(e) => doing = "copying")
            /\ \E t \in Tree : Put(Dest(e), t)
        BY <2>1, <2>5, Places, CopyType DEF Clear, Copy, First
      <3>2. d # Dest(e)
        <4>1. CASE Clear(e)
          BY <3>1, <4>1 DEF IInv, KeptShape, HasContent, Bound
        <4>2. CASE Copy(e)
          BY <3>1, <4>2 DEF IInv, CopyShape, Absent
        <4> QED BY <2>5, <4>1, <4>2
      <3> QED BY <2>1, <3>1, <3>2 DEF Put, TypeOK
    <2> QED BY <2>1, <2>2, <2>3, <2>4, <2>5
            DEF Next, Stage, SourceGone, UseInPlace, Reuse, ClearFails, CopyFails, CopyBreaks,
                Mark, MarkFails, StartBatch, NextUnit, EndBatch, NoScan, EndScan, PurgeFails,
                BreakOff, BreakOffCopy, BreakOffPurge, Rest, vars
  <1> QED BY <1>1, StagingInvariance, PTL DEF ReportsKept, Spec

-----------------------------------------------------------------------------
(* What a batch leaves behind.                                             *)

Tidy(e) == InPlace(e) \/ tree[Dest(e)].code = "none"

(* No source code stands where a unit before the one at hand was staged,   *)
(* unless the unit at hand stages there too; nor, once an entry of its own *)
(* was given up, where that would have been.                               *)
BehindShape ==
  /\ \A e \in Entry : UnitOf(e) < unit =>
       Tidy(e) \/ \E f \in Members(unit) : ~InPlace(f) /\ Dest(f) = Dest(e)
  /\ ~grouped => \A e \in Members(unit) \ (todo \cup staged) : Tidy(e)

(* The account of a batch that deletes its copies and runs to its end.     *)
TidyShape ==
  faults = 0 /\ mode = "scan" /\ ~ending /\ batches > 0 =>
    /\ doing = "off" => \A e \in Entry : Tidy(e)
    /\ doing = "next" => \A e \in Entry : UnitOf(e) <= unit => Tidy(e)
    /\ doing \notin {"off", "next"} => BehindShape
    /\ doing \in {"scanning", "purging"} => todo = {}
    /\ doing \in {"copying", "marking"} => \A e \in todo : First(e) => ~InPlace(e)

(* An entry that stages leaves other directories alone; what it gives up   *)
(* has no code.                                                            *)
LEMMA StageTidy ==
  ASSUME IInv, TidyShape, NEW e \in Entry, Stage(e),
         faults' = 0, mode' = "scan", ~ending', batches' > 0
  PROVE  TidyShape'
  <1>1. TypeOK /\ Dest(e) \in Entry /\ e \in todo /\ First(e) /\ e \in Members(unit)
    BY Places DEF IInv, TypeOK, Stage, SourceGone, UseInPlace, Reuse, Clear, ClearFails,
                  Copy, CopyFails, CopyBreaks, Mark, MarkFails, First
  <1>2. /\ faults = 0
        /\ \/ SourceGone(e) \/ UseInPlace(e) \/ Reuse(e) \/ Clear(e)
           \/ Copy(e) \/ CopyFails(e) \/ Mark(e)
    <2>1. ~Fault /\ (Calm => faults' = faults)
      BY <1>1, FaultCounts
    <2> QED BY <2>1
            DEF Stage, SourceGone, UseInPlace, Reuse, Clear, ClearFails, Copy, CopyFails,
                CopyBreaks, Mark, MarkFails
  <1>3. /\ UNCHANGED <<grouped, mode, unit, ending, batches>>
        /\ doing \in {"stage", "copying", "marking"}
        /\ doing' \in {"stage", "copying", "marking"}
    BY <1>2 DEF SourceGone, UseInPlace, Reuse, Clear, Copy, CopyFails, Mark, Settle, unitVars
  <1>4. BehindShape /\ (doing \in {"copying", "marking"} => ~InPlace(e))
    BY <1>1, <1>2, <1>3 DEF TidyShape
  <1>5. \A f \in Entry : /\ Dest(f)' = Dest(f) /\ InPlace(f)' = InPlace(f)
                         /\ UnitOf(f)' = UnitOf(f) /\ Dest(f) \in Entry
    BY <1>1, <1>3, Places DEF Dest, InPlace, UnitOf
  <1>6. Members(unit)' = Members(unit) /\ Members(unit) \subseteq Entry
    BY <1>3 DEF Members, UnitOf
  <1>7. \A d \in Entry : d # Dest(e) \/ InPlace(e) => tree'[d] = tree[d]
    BY <1>1, <1>2, <1>4
       DEF SourceGone, UseInPlace, Reuse, Clear, Copy, CopyFails, Mark, Put, IInv, TypeOK
  <1>8. \A f \in Entry : UnitOf(f) < unit =>
          Tidy(f)' \/ \E g \in Members(unit) : ~InPlace(g) /\ Dest(g) = Dest(f)
    BY <1>1, <1>4, <1>5, <1>7 DEF BehindShape, Tidy
  <1>9. ASSUME ~grouped, NEW f \in Members(unit) \ (todo' \cup staged') PROVE Tidy(f)'
    <2>1. f = e
      BY <1>1, <1>9 DEF Members, UnitOf
    <2>2. \/ SourceGone(e) \/ CopyFails(e)
      BY <1>1, <1>2, <1>9, <2>1 DEF UseInPlace, Reuse, Clear, Copy, Mark, Settle, unitVars
    <2>3. CASE SourceGone(e)
      BY <1>5, <1>9, <2>1, <2>3 DEF SourceGone, InPlace, Tidy
    <2>4. CASE CopyFails(e)
      BY <1>1, <1>2, <1>5, <2>1, <2>4 DEF CopyFails, IInv, CopyShape, Absent, Tidy
    <2> QED BY <2>2, <2>3, <2>4
  <1>10. BehindShape'
    BY <1>3, <1>5, <1>6, <1>8, <1>9 DEF BehindShape
  <1>11. ASSUME doing' \in {"copying", "marking"}, NEW f \in todo', First(f)'
         PROVE  ~InPlace(f)'
    <2>1. Clear(e) \/ Copy(e)
      BY <1>2, <1>11 DEF SourceGone, UseInPlace, Reuse, CopyFails, Mark, Settle
    <2>2. todo' = todo /\ First(f) /\ ~InPlace(e)
      BY <1>4, <1>11, <2>1 DEF Clear, Copy, unitVars, First
    <2>3. f = e
      BY <1>1, <1>11, <2>2, Places DEF Members, IInv, TypeOK
    <2> QED BY <1>1, <1>5, <2>2, <2>3
  <1> QED BY <1>3, <1>10, <1>11 DEF TidyShape

(* The purge of a unit empties every directory it staged into.             *)
LEMMA PurgeTidy ==
  ASSUME IInv, TidyShape, Purge,
         faults' = 0, mode' = "scan", ~ending', batches' > 0
  PROVE  TidyShape'
  <1>1. /\ TypeOK /\ faults = 0 /\ doing = "purging" /\ doing' = "next"
        /\ UNCHANGED <<grouped, mode, unit, todo, staged, ending, batches>>
    BY FaultCounts DEF IInv, Purge, PurgeTo, AfterPurge, unitVars
  <1>2. BehindShape /\ todo = {}
    BY <1>1 DEF TidyShape
  <1>3. \A d \in Entry : tree'[d].code # "none" => d \notin Purged /\ tree'[d] = tree[d]
    BY <1>1 DEF Purge, PurgeTo, Pruned, Absent
  <1>4. \A f \in Entry : /\ Dest(f)' = Dest(f) /\ InPlace(f)' = InPlace(f)
                         /\ UnitOf(f)' = UnitOf(f) /\ Dest(f) \in Entry
    BY <1>1, Places DEF Dest, InPlace, UnitOf
  <1>5. ASSUME NEW f \in Members(unit), ~InPlace(f) PROVE tree'[Dest(f)].code = "none"
    <2>1. f \in Entry /\ Dest(f) \in Entry
      BY <1>4 DEF Members
    <2>2. CASE grouped
      BY <1>1, <1>3, <1>5, <2>1, <2>2, Places DEF Purged
    <2>3. CASE ~grouped /\ f \in staged
      BY <1>1, <1>3, <1>5, <2>1, <2>3 DEF Purged, InPlace
    <2>4. CASE ~grouped /\ f \notin staged
      BY <1>2, <1>3, <1>5, <2>1, <2>4 DEF BehindShape, Tidy
    <2> QED BY <2>2, <2>3, <2>4
  <1>6. ASSUME NEW f \in Entry, UnitOf(f) <= unit PROVE Tidy(f)'
    <2>1. CASE f \in Members(unit)
      BY <1>4, <1>5, <2>1 DEF Tidy
    <2>2. CASE f \notin Members(unit)
      <3>1. UnitOf(f) < unit
        BY <1>1, <1>6, <2>2, Places DEF Members, TypeOK
      <3>2. CASE Tidy(f)
        BY <1>3, <1>4, <3>2 DEF Tidy
      <3>3. CASE \E g \in Members(unit) : ~InPlace(g) /\ Dest(g) = Dest(f)
        BY <1>4, <1>5, <3>3 DEF Tidy
      <3> QED BY <1>2, <3>1, <3>2, <3>3 DEF BehindShape
    <2> QED BY <2>1, <2>2
  <1> QED BY <1>1, <1>4, <1>6 DEF TidyShape

(* Every step keeps the account.                                           *)
LEMMA TidyStep == IInv /\ TidyShape /\ [Next]_vars => TidyShape'
  <1> SUFFICES ASSUME IInv, TidyShape, [Next]_vars,
                      faults' = 0, mode' = "scan", ~ending', batches' > 0
               PROVE  TidyShape'
    BY DEF TidyShape
  <1>1. TypeOK /\ ~Fault /\ (Calm => faults = 0)
    BY FaultCounts DEF IInv
  <1>2. \A f \in Entry : UnitOf(f) \in Nat \ {0} /\ Dest(f) \in Entry
    BY <1>1, Places
  <1>3. CASE StartBatch
    <2>1. unit' = 0 /\ doing' = "next" /\ \A f \in Entry : UnitOf(f)' = UnitOf(f)
      BY <1>3 DEF StartBatch, UnitOf
    <2> QED BY <1>2, <2>1 DEF TidyShape
  <1>4. CASE NextUnit
    <2>1. /\ faults = 0 /\ doing = "next" /\ doing' = "stage" /\ todo' = Members(unit')
          /\ UNCHANGED <<grouped, tree, mode, ending, batches>>
      BY <1>1, <1>4 DEF NextUnit
    <2>2. /\ \A f \in Entry : Dest(f)' = Dest(f) /\ InPlace(f)' = InPlace(f)
                              /\ UnitOf(f)' = UnitOf(f) /\ Tidy(f)' = Tidy(f)
          /\ Members(unit)' = Members(unit')
      BY <2>1 DEF Dest, InPlace, UnitOf, Tidy, Members
    <2>3. ASSUME NEW f \in Entry, UnitOf(f) < unit' PROVE Tidy(f)
      <3>1. unit' \in UnitsLeft /\ \A v \in UnitsLeft : unit' <= v
        BY <1>4 DEF NextUnit
      <3>2. UnitOf(f) \notin UnitsLeft
        BY <1>2, <2>3, <3>1 DEF UnitsLeft
      <3>3. UnitOf(f) <= unit
        BY <1>1, <1>2, <3>2 DEF UnitsLeft, TypeOK
      <3> QED BY <2>1, <3>3 DEF TidyShape
    <2>4. BehindShape'
      BY <2>1, <2>2, <2>3 DEF BehindShape
    <2> QED BY <2>1, <2>4 DEF TidyShape
  <1>5. CASE EndBatch
    <2>1. /\ faults = 0 /\ doing = "next" /\ doing' = "off" /\ UnitsLeft = {}
          /\ UNCHANGED <<grouped, tree, mode, ending, batches>>
      BY <1>1, <1>5 DEF EndBatch
    <2>2. \A f \in Entry : Tidy(f)' = Tidy(f)
      BY <2>1 DEF Dest, InPlace, Tidy
    <2>3. \A f \in Entry : UnitOf(f) <= unit
      BY <1>1, <1>2, <2>1 DEF UnitsLeft, TypeOK
    <2> QED BY <2>1, <2>2, <2>3 DEF TidyShape
  <1>6. CASE StartScan \/ NoScan \/ EndScan
    <2>1. /\ faults = 0 /\ doing \in {"stage", "scanning"} /\ doing' \in {"scanning", "purging"}
          /\ UNCHANGED <<grouped, mode, unit, todo, staged, batches, ending>>
          /\ doing = "stage" => todo = {}
      BY <1>1, <1>6 DEF StartScan, NoScan, EndScan, Goto, unitVars
    <2>2. todo = {} /\ BehindShape
      BY <2>1 DEF TidyShape
    <2>3. \A d \in Entry : tree'[d].code = tree[d].code
      BY <1>1, <1>6 DEF StartScan, NoScan, EndScan, TypeOK, Tree
    <2>4. /\ \A f \in Entry : Dest(f)' = Dest(f) /\ InPlace(f)' = InPlace(f)
                              /\ UnitOf(f)' = UnitOf(f) /\ Tidy(f)' = Tidy(f)
          /\ Members(unit)' = Members(unit)
      BY <1>2, <2>1, <2>3 DEF Dest, InPlace, UnitOf, Tidy, Members
    <2>5. BehindShape'
      <3>1. \A f \in Members(unit) : f \in Entry
        BY DEF Members
      <3> QED BY <2>1, <2>2, <2>4, <3>1 DEF BehindShape
    <2> QED BY <2>1, <2>2, <2>5 DEF TidyShape
  <1>7. CASE Purge
    BY <1>7, PurgeTidy
  <1>8. CASE BreakOff \/ PurgeFails \/ BreakOffCopy \/ BreakOffPurge
    BY <1>1, <1>8 DEF BreakOff, PurgeFails, BreakOffCopy, BreakOffPurge
  <1>9. CASE \E e \in Entry : Stage(e)
    BY <1>9, StageTidy
  <1>10. CASE UNCHANGED vars
    BY <1>10
       DEF vars, unitVars, TidyShape, BehindShape, Tidy, Members, UnitOf, Dest, InPlace, First
  <1> QED BY <1>3, <1>4, <1>5, <1>6, <1>7, <1>8, <1>9, <1>10 DEF Next, Rest

(* A batch that deletes its copies and ends without an accident or an      *)
(* interruption leaves no source code in the workspace, whatever earlier   *)
(* batches left there and whichever of its entries failed (the `finally`   *)
(* clauses of run_batch and _run_batch_grouped, _purge_clone).             *)
THEOREM NothingIsLeft == Spec => []NothingLeft
  <1>1. Init => TidyShape
    BY DEF Init, TidyShape
  <1>2. TidyShape => NothingLeft
    BY DEF TidyShape, NothingLeft, Tidy
  <1> QED BY <1>1, <1>2, TidyStep, StagingInvariance, PTL DEF Spec

(***************************************************************************)
(* The commands.                                                           *)
(***************************************************************************)
-----------------------------------------------------------------------------
(* What is checked once stands for all it concerns.                        *)

LEMMA DetectionIsNotPostScan ==
  ASSUME NEW r \in DetectionRoles
  PROVE  r \notin POST_SCAN_ROLES /\ r \notin DEEPAGENTS_ROLES /\ r # "validate"
  BY DEF DetectionRoles, POST_SCAN_ROLES, DEEPAGENTS_ROLES

(* A role of detection that the probe is content with.                     *)
LEMMA ProbedAnswers ==
  ASSUME NEW p, NEW e, Probed(p, e), NEW r \in DetectionRoles \cap Configured(p)
  PROVE  /\ Via(p, r) # "deepagents" /\ Target(p.models[r]) \in e.up
         /\ r \in AgenticRoles => PathWorks(e, Via(p, r), Shell(p, r))
<1>1. Via(p, r) # "deepagents"
  BY DetectionIsNotPostScan DEF Probed, Misplaced
<1> DEFINE t == Target(p.models[r])
<1>2. r \in RolesAt(p, t)
  BY DEF RolesAt
<1>3. t \notin Unreachable(p, e)
  BY <1>2, DetectionIsNotPostScan DEF Probed, PostScanOnly
<1>4. PICK q \in RolesAt(p, t) : Answers(p, e, p.models[q])
  BY <1>3 DEF Unreachable
<1>5. t \in e.up
  BY <1>4 DEF Answers, RolesAt
<1>6. ASSUME r \in AgenticRoles
      PROVE  PathWorks(e, Via(p, r), Shell(p, r))
  <2>1. AgenticWorks(p, e, AgenticTarget(p, r))
    BY <1>6 DEF Probed, AgenticTargets
  <2> QED BY <2>1 DEF AgenticWorks, AgenticTarget
<1> QED BY <1>1, <1>5, <1>6

(* Such a role with a credential can make its calls, or hands them to a    *)
(* session that starts.                                                    *)
LEMMA ProbedMeansReady ==
  ASSUME NEW p, NEW e, Probed(p, e), NEW r \in DetectionRoles \cap Configured(p),
         HasCredential(p, e, p.models[r])
  PROVE  CallsWork(p, e, r) \/ (Delegated(p, r) /\ SessionStarts(e))
<1>1. /\ Via(p, r) # "deepagents" /\ PromptsWork(p, e, r)
      /\ r \in AgenticRoles => PathWorks(e, Via(p, r), Shell(p, r))
  BY ProbedAnswers DEF PromptsWork
<1>2. CASE Delegated(p, r)
  BY <1>1, <1>2 DEF Delegated, PathWorks
<1>3. CASE ~Delegated(p, r)
  BY <1>1, <1>3 DEF CallsWork
<1> QED BY <1>2, <1>3

(* What the preflight lets pass is ready.                                  *)
LEMMA PreflightMeansReady ==
  ASSUME NEW p, NEW e, CheckBackends(p, e), NEW r \in DetectionRoles \cap Configured(p)
  PROVE  CallsWork(p, e, r) \/ (Delegated(p, r) /\ SessionStarts(e))
<1>1. HasCredential(p, e, p.models[r])
  <2> SUFFICES ASSUME ~HasCredential(p, e, p.models[r]) PROVE FALSE
    OBVIOUS
  <2>1. r \in Gaps(p, e) /\ r \in Sharing(p, r)
    BY DEF Gaps, Sharing
  <2>2. ~PostScanOnly(Sharing(p, r))
    BY <2>1, DetectionIsNotPostScan DEF PostScanOnly
  <2> QED BY <2>1, <2>2 DEF FatalGaps, CheckBackends
<1> QED BY <1>1, ProbedMeansReady DEF CheckBackends

(* So is what doctor calls ready.                                          *)
LEMMA DoctorMeansReady ==
  ASSUME NEW p, NEW e, DoctorReady(p, e), Vias(p) \subseteq Backends,
         NEW r \in DetectionRoles \cap Configured(p)
  PROVE  CallsWork(p, e, r) \/ (Delegated(p, r) /\ SessionStarts(e))
<1>1. Via(p, r) \in {"cli", "sdk", "openai", "codex"}
  BY ProbedAnswers DEF DoctorReady, Vias, Backends
<1>2. SetupVia(p, r) = Via(p, r) /\ Via(p, r) \in SetupVias(p)
  BY DetectionIsNotPostScan DEF SetupVia, SetupVias, SetupRoles
<1>3. Via(p, r) \notin Blocking(p, e)
  BY DEF DoctorReady, SetupReady
<1>4. HasCredential(p, e, p.models[r])
  <2>1. CASE Via(p, r) = "cli"
    BY <1>2, <1>3, <2>1 DEF Blocking, HasCredential, BackendCredentialOk, Via
  <2>2. CASE Via(p, r) = "codex"
    BY <1>2, <1>3, <2>2 DEF Blocking, HasCredential, BackendCredentialOk, Via
  <2>3. CASE Via(p, r) = "openai"
    BY <1>2, <1>3, <2>3 DEF Blocking, HasCredential, OpenAiKey, Via
  <2>4. CASE Via(p, r) = "sdk"
    <3>1. SdkKey(p, e, SetupVias(p))
      BY <1>2, <1>3, <2>4 DEF Blocking
    <3>2. SetupVias(p) = {"sdk"} => Vias(p) = {"sdk"}
      BY <1>2, <2>4 DEF SetupVias, SetupVia, SetupRoles, Vias
    <3>3. SdkKey(p, e, Vias(p))
      BY <3>1, <3>2 DEF SdkKey
    <3> QED BY <3>3, <2>4 DEF HasCredential, Via
  <2> QED BY <1>1, <2>1, <2>2, <2>3, <2>4
<1> QED BY <1>4, ProbedMeansReady DEF DoctorReady

-----------------------------------------------------------------------------
(* The command.                                                            *)

ScanSteps == {"scan", "checked", "detect", "report", "gate s10", "s10", "gate s11", "s11", "leave"}
Past == ScanSteps \ {"scan"}

(* What a command does is what it was asked to do, with a known profile,   *)
(* and it has no exit code before it ends.                                 *)
CommandShape ==
  /\ profile \in {Packaged} \cup {a.config : a \in Args}
  /\ step \in ScanSteps => args.command = "scan"
  /\ step = "setup" => args.command = "setup"
  /\ step \in ScanSteps \cup {"setup", "doctor", "off"}
  /\ step # "off" => exit = None

(* What was checked before the first stage, or by doctor.                  *)
CheckedShape ==
  /\ step \in Past /\ Checks => CheckBackends(profile, env)
  /\ OnRecord("doctor", 0) => DoctorReady(profile, env)

CommandInv == CommandShape /\ CheckedShape

LEMMA CommandStart == CommandInit => CommandInv
  BY DEF CommandInit, CommandInv, CommandShape, CheckedShape, OnRecord, ScanSteps, Past, Checks

LEMMA EnterStep == CommandInv /\ Enter => CommandInv'
  BY CommandAssumption, NoneAssumption
     DEF Enter, InForce, CommandInv, CommandShape, CheckedShape, OnRecord, ScanSteps, Past, machine

LEMMA CommandStep == CommandInv /\ [CommandNext]_commandVars => CommandInv'
<1> SUFFICES ASSUME CommandInv, [CommandNext]_commandVars PROVE CommandInv'
  OBVIOUS
<1> USE DEF CommandInv, CommandShape, CheckedShape, OnRecord, ScanSteps, Past, Checks,
            machine, line, memory, disk, Finish
<1>1. CASE Enter
  BY <1>1, EnterStep
<1>2. CASE Setup
  BY <1>2 DEF Setup
<1>3. CASE Doctor
  BY <1>3 DEF Doctor
<1>4. CASE BadOverlay \/ NoTarget
  BY <1>4 DEF BadOverlay, NoTarget
<1>5. CASE Preflight
  BY <1>5 DEF Preflight
<1>6. CASE Open
  BY <1>6 DEF Open
<1>7. CASE Scan
  BY <1>7 DEF Scan, Detect, Report, GateS10, Remediate, GateS11, Leave, Stops
<1>8. CASE Fails \/ Interrupt
  BY <1>8 DEF Fails, Interrupt, Stages
<1>9. CASE Killed
  <2>0. None # 0
    BY 0 \in Nat, NoneAssumption
  <2>1. exit' = None
    BY <1>9 DEF Killed
  <2>2. step' = "off"
    BY <1>9 DEF Killed
  <2>3. UNCHANGED <<profile, env, args>>
    BY <1>9 DEF Killed
  <2> QED BY <2>0, <2>1, <2>2, <2>3
<1>10. CASE Commit \/ UNCHANGED commandVars
  BY <1>10 DEF Commit, commandVars
<1> QED BY <1>1, <1>2, <1>3, <1>4, <1>5, <1>6, <1>7, <1>8, <1>9, <1>10 DEF CommandNext, Before

(* When a scan's preflight has passed, or doctor exited with 0, every role *)
(* of detection has a backend it may use, a credential, a model that       *)
(* answers and the tools it asks for: nobody's probe was skipped unfairly. *)
(* A role whose calls are delegated has a session that starts.             *)
THEOREM ReadyToDetect == CommandSpec => []DetectionReady
<1>1. CommandInv => DetectionReady
  <2> SUFFICES ASSUME CommandInv, (step \in Stages /\ Checks) \/ OnRecord("doctor", 0),
                      NEW r \in DetectionRoles \cap Configured(profile)
               PROVE  CallsWork(profile, env, r) \/ (Delegated(profile, r) /\ SessionStarts(env))
    BY DEF DetectionReady
  <2>1. CASE step \in Stages /\ Checks
    BY <2>1, PreflightMeansReady DEF CommandInv, CheckedShape, Past, ScanSteps, Stages
  <2>2. CASE OnRecord("doctor", 0)
    BY <2>2, DoctorMeansReady, ProfileAssumption DEF CommandInv, CommandShape, CheckedShape
  <2> QED BY <2>1, <2>2
<1> QED BY <1>1, CommandStart, CommandStep, PTL DEF CommandSpec

-----------------------------------------------------------------------------
(* The commit.                                                             *)

(* The pin of a report is the commit it was built at, if git had an answer.*)
Pinned(r) == r.sha = None \/ r.sha = r.at

PinShape ==
  /\ git \in BOOLEAN /\ head \in Nat /\ DOMAIN ckpt = {"found", "report"}
  /\ ckpt.report # None => Pinned(ckpt.report)
  /\ step \in {"gate s10", "s10"} => Pinned(report)
  /\ step = "s10" => \/ args.force \/ report.sha = None \/ looked.sha = None
                     \/ report.sha = looked.at
  /\ EditsKnowTheHead

LEMMA PinInit == CommandInit => PinShape
  BY DEF CommandInit, PinShape, EditsKnowTheHead, NoRows

(* A step that neither edits nor comes near it.                            *)
LEMMA PinKept ==
  ASSUME PinShape, UNCHANGED <<git, edits>>, head' \in Nat,
         ckpt' = ckpt \/ ckpt' = NoRows, step' \notin {"gate s10", "s10"}
  PROVE  PinShape'
<1>1. EditsKnowTheHead'
  BY DEF PinShape, EditsKnowTheHead
<1>2. DOMAIN ckpt' = {"found", "report"} /\ (ckpt.report # None => Pinned(ckpt.report))'
  <2>1. CASE ckpt' = ckpt
    BY <2>1 DEF PinShape, Pinned
  <2>2. CASE ckpt' = NoRows
    BY <2>2 DEF NoRows
  <2> QED BY <2>1, <2>2
<1> QED BY <1>1, <1>2 DEF PinShape

LEMMA PinStep == PinShape /\ CommandInv /\ [CommandNext]_commandVars => PinShape'
<1> SUFFICES ASSUME PinShape, CommandInv, [CommandNext]_commandVars PROVE PinShape'
  OBVIOUS
<1> USE DEF PinShape, Pinned, machine, line, memory, disk, Finish
<1>1. CASE Enter
  BY <1>1, CommandAssumption DEF Enter, EditsKnowTheHead
<1>2. CASE Setup \/ Doctor \/ BadOverlay \/ NoTarget \/ Preflight
  BY <1>2, PinKept DEF Setup, Doctor, BadOverlay, NoTarget, Preflight
<1>3. CASE Open
  BY <1>3, PinKept DEF Open
<1>4. CASE Detect
  BY <1>4 DEF Detect, EditsKnowTheHead
<1>5. CASE Report
  <2>1. PICK sha \in HeadSha :
          /\ report' = Reported(sha) /\ ckpt' = [ckpt EXCEPT !.report = Reported(sha)]
          /\ UNCHANGED <<git, head, edits>> /\ step' # "s10"
    BY <1>5 DEF Report
  <2>2. Pinned(Reported(sha))
    BY DEF Reported, Built, HeadSha
  <2>3. ckpt'.report = Reported(sha) /\ DOMAIN ckpt' = {"found", "report"}
    BY <2>1
  <2> QED BY <2>1, <2>2, <2>3 DEF EditsKnowTheHead
<1>6. CASE GateS10
  <2>1. PICK cur \in HeadSha :
          /\ looked' = [at |-> head, sha |-> cur]
          /\ UNCHANGED <<git, head, args, report, ckpt, edits>>
          /\ step = "gate s10" /\ step' # "gate s10"
          /\ step' = "s10" => ~Moved(cur) \/ args.force
    BY <1>6 DEF GateS10, RemediatePreflight
  <2>2. ~Moved(cur) => report.sha = None \/ cur = None \/ report.sha = head
    BY NoneAssumption DEF Moved, HeadSha
  <2> QED BY <2>1, <2>2 DEF EditsKnowTheHead
<1>7. CASE Remediate
  <2>1. ASSUME NEW x \in edits' PROVE x.forced \/ ~x.pinned \/ ~x.seen \/ x.built = x.gate
    <3>1. CASE x \in edits
      BY <3>1 DEF EditsKnowTheHead
    <3>2. CASE x \notin edits
      <4>1. x = [built |-> report.at, gate |-> looked.at, forced |-> args.force,
                 pinned |-> report.sha # None, seen |-> looked.sha # None]
        BY <1>7, <2>1, <3>2 DEF Remediate
      <4>2. step = "s10"
        BY <1>7 DEF Remediate
      <4>3. args.force \/ report.sha = None \/ looked.sha = None \/ report.at = looked.at
        BY <4>2
      <4> QED BY <4>1, <4>3
    <3> QED BY <3>1, <3>2
  <2>2. UNCHANGED <<git, head, ckpt>> /\ step' \in {"leave", "gate s11"}
    BY <1>7 DEF Remediate
  <2> QED BY <2>1, <2>2 DEF EditsKnowTheHead
<1>8. CASE GateS11 \/ Leave \/ Fails \/ Interrupt \/ Killed
  BY <1>8, PinKept DEF GateS11, Leave, Fails, Interrupt, Killed
<1>9. CASE Commit \/ UNCHANGED commandVars
  <2>1. UNCHANGED <<git, edits, ckpt, step, args, report, looked>>
    BY <1>9 DEF Commit, commandVars
  <2>0. head' \in Nat
    <3>1. head \in Nat
      OBVIOUS
    <3>2. head' = head \/ head' = head + 1
      BY <1>9 DEF Commit, commandVars
    <3> HIDE DEF PinShape
    <3> QED BY <3>1, <3>2
  <2>2. EditsKnowTheHead'
    BY <2>1 DEF EditsKnowTheHead
  <2> QED BY <2>0, <2>1, <2>2
<1> QED BY <1>1, <1>2, <1>3, <1>4, <1>5, <1>6, <1>7, <1>8, <1>9 DEF CommandNext, Before, Scan

(* Whatever is resumed, stopped, killed or committed in between: unless it *)
(* is forced, or git had no answer when S8 or the gate asked, S10 edits    *)
(* only with a report that was built at the commit of the gate.            *)
THEOREM EditsAtTheReport == CommandSpec => []EditsKnowTheHead
<1>1. PinShape => EditsKnowTheHead
  BY DEF PinShape
<1> QED BY <1>1, PinInit, PinStep, CommandStart, CommandStep, PTL DEF CommandSpec

-----------------------------------------------------------------------------
(* Who is let pass.                                                        *)

(* What keeps a scan from starting, in the words of GapsDegrade.           *)
Stopped(p, e) ==
  \/ \E r \in DetectionRoles \cap Configured(p) : ~CallsWork(p, e, r) \/ ~PromptsWork(p, e, r)
  \/ "codex" \in Vias(p) /\ ~CodexReady(e)
  \/ Vias(p) \cap {"cli", "sdk"} # {} /\ GatewayGap(e)

(* A role that is not one of S10's or S11's is one of detection's.         *)
LEMMA NotPostScan ==
  ASSUME NEW p, Configured(p) \subseteq DetectionRoles \cup POST_SCAN_ROLES,
         NEW R \in SUBSET Configured(p), NEW r \in R, ~PostScanOnly(R)
  PROVE  \E q \in R : q \in DetectionRoles
  BY DEF PostScanOnly

(* Outside deepagents a credential is that of the backend, not of the role:*)
(* what one role lacks, all roles of its backend lack.                     *)
LEMMA CredentialOfTheBackend ==
  ASSUME NEW p, NEW e, Vias(p) \subseteq Backends, NEW r \in Configured(p), NEW q \in Sharing(p, r),
         Via(p, q) # "deepagents", HasCredential(p, e, p.models[q])
  PROVE  HasCredential(p, e, p.models[r])
<1>1. Via(p, q) = Via(p, r) /\ Via(p, r) \in {"cli", "sdk", "openai", "codex"}
  BY DEF Sharing, Vias, Backends
<1>2. CASE Via(p, r) = "cli"
  BY <1>1, <1>2 DEF Via, HasCredential, BackendCredentialOk
<1>3. CASE Via(p, r) = "codex"
  BY <1>1, <1>3 DEF Via, HasCredential, BackendCredentialOk
<1>4. CASE Via(p, r) \in {"sdk", "openai"}
  BY <1>1, <1>4 DEF Via, HasCredential
<1> QED BY <1>1, <1>2, <1>3, <1>4

(* A credential gap that stops the scan.                                   *)
LEMMA GapStops ==
  ASSUME NEW p, NEW e, Vias(p) \subseteq Backends,
         Configured(p) \subseteq DetectionRoles \cup POST_SCAN_ROLES,
         NEW r \in FatalGaps(p, e)
  PROVE  Stopped(p, e)
<1>1. r \in Configured(p) /\ ~HasCredential(p, e, p.models[r]) /\ r \in Sharing(p, r)
  BY DEF FatalGaps, Gaps, Sharing
<1>2. CASE Via(p, r) = "codex"
  BY <1>1, <1>2 DEF Stopped, Vias, Via, HasCredential, BackendCredentialOk
<1>3. CASE ~PostScanOnly(Sharing(p, r))
  <2>1. PICK q \in Sharing(p, r) : q \in DetectionRoles
    BY <1>1, <1>3, NotPostScan DEF Sharing
  <2>2. ~CallsWork(p, e, q) \/ ~PromptsWork(p, e, q)
    BY <1>1, <2>1, CredentialOfTheBackend DEF CallsWork, PromptsWork
  <2> QED BY <2>1, <2>2 DEF Stopped, Sharing
<1> QED BY <1>2, <1>3 DEF FatalGaps

(* A probe that stops the scan.                                            *)
LEMMA ProbeStops ==
  ASSUME NEW p, NEW e, Configured(p) \subseteq DetectionRoles \cup POST_SCAN_ROLES, ~Probed(p, e)
  PROVE  Stopped(p, e)
<1>1. ASSUME NEW r \in Configured(p), ~Answers(p, e, p.models[r]), Via(p, r) # "deepagents"
      PROVE  ~PromptsWork(p, e, r)
  BY <1>1 DEF Answers, PromptsWork, Via
<1>2. CASE Misplaced(p) # {}
  BY <1>2 DEF Misplaced, DEEPAGENTS_ROLES, POST_SCAN_ROLES, CallsWork, Stopped, Via
<1>3. ASSUME NEW t \in Unreachable(p, e), ~PostScanOnly(RolesAt(p, t))
      PROVE  Stopped(p, e)
  <2>1. PICK r \in Configured(p) : r \in RolesAt(p, t)
    BY <1>3 DEF Unreachable, RolesAt
  <2>2. PICK q \in RolesAt(p, t) : q \in DetectionRoles
    BY <1>3, <2>1, NotPostScan DEF RolesAt
  <2>3. q \in Configured(p) /\ ~Answers(p, e, p.models[q])
    BY <1>3, <2>2 DEF Unreachable, RolesAt
  <2>4. ~CallsWork(p, e, q) \/ ~PromptsWork(p, e, q)
    BY <1>1, <2>3 DEF CallsWork
  <2> QED BY <2>2, <2>3, <2>4 DEF Stopped
<1>4. ASSUME NEW t \in AgenticTargets(p), ~AgenticWorks(p, e, t)
      PROVE  Stopped(p, e)
  <2>1. PICK r \in AgenticRoles \cap Configured(p) : t = AgenticTarget(p, r)
    BY <1>4 DEF AgenticTargets
  <2>2. r \in DetectionRoles \cap Configured(p)
    BY <2>1 DEF AgenticRoles, DetectionRoles
  <2>3. t.via = Via(p, r) /\ t.shell = Shell(p, r) /\ Target(t) = Target(p.models[r])
    BY <2>1 DEF AgenticTarget, Target, Via
  <2>4. ~CallsWork(p, e, r) \/ ~PromptsWork(p, e, r)
    <3>1. CASE Target(t) \in Unreachable(p, e)
      <4>1. ~Answers(p, e, p.models[r])
        BY <2>2, <2>3, <3>1 DEF Unreachable, RolesAt
      <4> QED BY <1>1, <2>2, <4>1 DEF CallsWork
    <3>2. CASE t.via = "deepagents" \/ ~PathWorks(e, t.via, t.shell)
      BY <2>1, <2>3, <3>2 DEF CallsWork
    <3> QED BY <1>4, <3>1, <3>2 DEF AgenticWorks
  <2> QED BY <2>2, <2>4 DEF Stopped
<1> QED BY <1>2, <1>3, <1>4 DEF Probed

(* The preflight is the one that stops a scan with 1, and it stops none    *)
(* for what S10 and S11 alone lack, whatever the profile mixes: but for    *)
(* codex, and for Anthropic variables that contradict each other, a role of*)
(* detection is there whose calls, or whose prompts, would fail.           *)
THEOREM OnlyDetectionStops == CommandSpec => GapsDegrade
<1>1. ASSUME CommandInv, [CommandNext]_commandVars, step = "scan", exit' = 1
      PROVE  Stopped(profile, env)
  <2>1. exit = None /\ None # 1 /\ profile \in {Packaged} \cup {a.config : a \in Args}
    BY <1>1, 1 \in Nat, NoneAssumption DEF CommandInv, CommandShape, ScanSteps
  <2>2. Preflight /\ ~CheckBackends(profile, env)
    <3>1. ~BadOverlay /\ ~Interrupt
      BY <1>1 DEF BadOverlay, Interrupt, Finish
    <3>2. ~Killed /\ ~Commit /\ ~UNCHANGED commandVars
      BY <1>1, <2>1 DEF Killed, Commit, commandVars
    <3>3. Preflight
      BY <1>1, <3>1, <3>2
         DEF CommandNext, Before, Scan, Enter, Setup, Doctor, NoTarget, Open, Detect, Report,
             GateS10, Remediate, GateS11, Leave, Fails, Stages
    <3> QED BY <1>1, <2>1, <3>3 DEF Preflight
  <2>3. /\ Vias(profile) \subseteq Backends
        /\ Configured(profile) \subseteq DetectionRoles \cup POST_SCAN_ROLES
    BY <2>1, ProfileAssumption
  <2>4. \/ ~Probed(profile, env) \/ FatalGaps(profile, env) # {}
        \/ Vias(profile) \cap {"cli", "sdk"} # {} /\ GatewayGap(env)
    BY <2>2 DEF CheckBackends, Probed
  <2> QED BY <2>3, <2>4, GapStops, ProbeStops DEF Stopped
<1>2. CommandInv /\ [CommandNext]_commandVars =>
        [step = "scan" /\ exit' = 1
         => \/ \E r \in DetectionRoles \cap Configured(profile) :
                 ~CallsWork(profile, env, r) \/ ~PromptsWork(profile, env, r)
            \/ "codex" \in Vias(profile) /\ ~CodexReady(env)
            \/ Vias(profile) \cap {"cli", "sdk"} # {} /\ GatewayGap(env)]_commandVars
  BY <1>1 DEF Stopped
<1> QED BY <1>2, CommandStart, CommandStep, PTL DEF CommandSpec, GapsDegrade
=============================================================================
