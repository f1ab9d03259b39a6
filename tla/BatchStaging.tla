---------------------------- MODULE BatchStaging ----------------------------
(***************************************************************************)
(* The batch driver's handling of working copies (orchestrator/batch.py,   *)
(* orchestrator/cleanup.py): for every entry of the manifest a repository  *)
(* is cloned or copied into the workspace, scanned and purged again.       *)
(*                                                                         *)
(* A directory of the workspace is bound to the entry it was staged from   *)
(* by a marker file kept elsewhere, and is reused when it has content and  *)
(* the marker names the entry.  Nothing ever deletes a marker.  A purge    *)
(* keeps the report folder of the scan.  Batches of the same manifest      *)
(* follow each other in the same workspace, one unit after the other: an   *)
(* entry, or with --group-by-app all entries of an application.            *)
(***************************************************************************)
EXTENDS Naturals

CONSTANTS
  NumEntries,  \* entries of the manifest; no two have the same ref
  NameOf,      \* the first entry with the same (sanitised) RepoName
  AppOf,       \* the number of each entry's application
  SlugOf,      \* the first entry of its application whose slug names the same directory
  Local,       \* the entries whose ref is a local directory
  MaxBatches,  \* bound: batches started
  MaxFaults    \* bound: faults (see Fault)

Entry == 1..NumEntries
NoEntry == 0

ASSUME BatchAssumption ==
  /\ NumEntries \in Nat \ {0}
  /\ NameOf \in [Entry -> Entry]
  /\ AppOf \in [Entry -> Nat \ {0}]
  /\ SlugOf \in [Entry -> Entry]
  /\ \A e \in Entry : AppOf[SlugOf[e]] = AppOf[e]
  /\ Local \subseteq Entry
  /\ MaxBatches \in Nat
  /\ MaxFaults \in Nat

(* --keep-clones and --stop-after clone both leave the copies where they   *)
(* are; the latter scans nothing.                                          *)
Modes == {"scan", "keep", "clone"}

VARIABLES
  grouped,   \* --group-by-app; the same for all batches
  tree,      \* what stands in each directory of the workspace
  marker,    \* the entry each directory's marker names
  doing,     \* what the batch does, "off" when none runs
  mode,      \* its options
  unit,      \* the entry or application it is at
  todo,      \* the entries of the unit still to be staged
  staged,    \* those that were
  ending,    \* it was interrupted
  batches,   \* history: batches started
  faults     \* history: faults so far

unitVars == <<unit, todo, staged>>
vars == <<grouped, tree, marker, doing, mode, unitVars, ending, batches, faults>>

(* A directory holds code of one entry, all of it or some, and the report  *)
(* folder of a scan.  An empty directory is as good as none (a bound local *)
(* copy would be reused even empty, but only a failed purge leaves one).   *)
Absent == [code |-> "none", of |-> NoEntry, reports |-> FALSE]
Tree == [code: {"none", "partial", "full"}, of: Entry \cup {NoEntry}, reports: BOOLEAN]

(* Where an entry is staged: under its RepoName, which two entries of      *)
(* different applications may share, or in the application's folder under  *)
(* its slug.  _assign_slugs makes the slugs of an application distinct,    *)
(* but those of remote entries are sanitised only afterwards, and "a b"    *)
(* and "a_b" become one.  Directories are numbered like entries.           *)
Dest(e) == IF grouped THEN SlugOf[e] ELSE NameOf[e]

UnitOf(e) == IF grouped THEN AppOf[e] ELSE e
Members(u) == {e \in Entry : UnitOf(e) = u}

TypeOK ==
  /\ grouped \in BOOLEAN
  /\ tree \in [Entry -> Tree]
  /\ marker \in [Entry -> Entry \cup {NoEntry}]
  /\ doing \in {"off", "next", "stage", "copying", "marking", "scanning", "purging"}
  /\ mode \in Modes
  /\ unit \in Nat
  /\ todo \subseteq Members(unit)
  /\ staged \subseteq Members(unit) \ todo
  /\ ending \in BOOLEAN
  /\ batches \in 0..MaxBatches
  /\ faults \in 0..MaxFaults

Init ==
  /\ grouped \in BOOLEAN
  /\ tree = [d \in Entry |-> Absent]
  /\ marker = [d \in Entry |-> NoEntry]
  /\ doing = "off"
  /\ mode = "scan"
  /\ unit = 0 /\ todo = {} /\ staged = {}
  /\ ending = FALSE
  /\ batches = 0 /\ faults = 0

-----------------------------------------------------------------------------
(* A local repository that is not grouped is scanned where it is.          *)
InPlace(e) == ~grouped /\ e \in Local

(* A bug that could be: a folder of reports is no content.                 *)
BugHasContent(d) == tree[d].code # "none"

HasContent(d) == tree[d].code # "none" \/ tree[d].reports

(* A bug that could be: a marker is a marker, whatever it names.           *)
BugBound(e) == marker[Dest(e)] # NoEntry

(* _stage_dir_bound *)
Bound(e) == marker[Dest(e)] = e

(* The entry being staged: they come in the order of the manifest.         *)
First(e) == e \in todo /\ \A f \in todo : e <= f

Put(d, t) == tree' = [tree EXCEPT ![d] = t]

(* What is left of t when code is deleted until at most c of it remains.   *)
Pruned(t, c, reports) ==
  IF c = "none" \/ t.code = "none" THEN [Absent EXCEPT !.reports = reports]
  ELSE [t EXCEPT !.code = IF c = "full" THEN @ ELSE "partial", !.reports = reports]

Fault == faults < MaxFaults /\ faults' = faults + 1
Calm == UNCHANGED faults

-----------------------------------------------------------------------------
(* A batch and its units.                                                  *)

StartBatch ==
  /\ doing = "off" /\ batches < MaxBatches
  /\ batches' = batches + 1
  /\ mode' \in Modes
  /\ doing' = "next" /\ unit' = 0 /\ todo' = {} /\ staged' = {} /\ ending' = FALSE
  /\ Calm /\ UNCHANGED <<grouped, tree, marker>>

UnitsLeft == {UnitOf(e) : e \in Entry} \ 0..unit

NextUnit ==
  /\ doing = "next"
  /\ \E u \in UnitsLeft :
       /\ \A v \in UnitsLeft : u <= v
       /\ unit' = u
       /\ todo' = Members(u)
  /\ staged' = {}
  /\ doing' = "stage"
  /\ Calm /\ UNCHANGED <<grouped, tree, marker, mode, ending, batches>>

(* The summary is written.                                                 *)
EndBatch ==
  /\ doing = "next" /\ UnitsLeft = {}
  /\ doing' = "off"
  /\ Calm /\ UNCHANGED <<grouped, tree, marker, mode, unitVars, ending, batches>>

-----------------------------------------------------------------------------
(* Staging one entry: _acquire_repo, _stage_repo.                          *)

(* The entry is staged, or skipped (in a group) or failed (on its own).    *)
Settle(e, ok) ==
  /\ doing' = "stage"
  /\ todo' = todo \ {e}
  /\ staged' = IF ok THEN staged \cup {e} ELSE staged
  /\ UNCHANGED <<grouped, mode, unit, ending, batches>>

(* "local path does not exist": it was there when the manifest was read.   *)
SourceGone(e) ==
  /\ doing = "stage" /\ First(e) /\ e \in Local
  /\ Settle(e, FALSE)
  /\ Calm /\ UNCHANGED <<tree, marker>>

(* Nothing to do for a local repository on its own.                        *)
UseInPlace(e) ==
  /\ doing = "stage" /\ First(e) /\ InPlace(e)
  /\ Settle(e, TRUE)
  /\ Calm /\ UNCHANGED <<tree, marker>>

(* "reusing verified checkout" *)
Reuse(e) ==
  /\ doing = "stage" /\ First(e) /\ ~InPlace(e)
  /\ HasContent(Dest(e)) /\ Bound(e)
  /\ Settle(e, TRUE)
  /\ Calm /\ UNCHANGED <<tree, marker>>

(* Whatever else stands there is removed.                                  *)
Clear(e) ==
  /\ doing = "stage" /\ First(e) /\ ~InPlace(e)
  /\ ~(HasContent(Dest(e)) /\ Bound(e))
  /\ Put(Dest(e), Absent)
  /\ doing' = "copying"
  /\ Calm /\ UNCHANGED <<grouped, marker, mode, unitVars, ending, batches>>

(* "could not remove ...; reusing as-is" *)
ClearFails(e) ==
  /\ doing = "stage" /\ First(e) /\ ~InPlace(e)
  /\ HasContent(Dest(e)) /\ ~Bound(e)
  /\ \E c \in {tree[Dest(e)].code, "partial"}, r \in {tree[Dest(e)].reports, FALSE} :
       Put(Dest(e), Pruned(tree[Dest(e)], c, r))
  /\ Settle(e, TRUE)
  /\ Fault /\ UNCHANGED marker

Whole(e) == [code |-> "full", of |-> e, reports |-> FALSE]
Part(e) == [Whole(e) EXCEPT !.code = "partial"]

(* git clone, shutil.copytree *)
Copy(e) ==
  /\ doing = "copying" /\ First(e)
  /\ Put(Dest(e), Whole(e))
  /\ doing' = "marking"
  /\ Calm /\ UNCHANGED <<grouped, marker, mode, unitVars, ending, batches>>

(* git fails and cleans up after itself.                                   *)
CopyFails(e) ==
  /\ doing = "copying" /\ First(e)
  /\ Settle(e, FALSE)
  /\ Calm /\ UNCHANGED <<tree, marker>>

(* git is killed by the 600 s timeout, or copytree fails half-way.         *)
CopyBreaks(e) ==
  /\ doing = "copying" /\ First(e)
  /\ Put(Dest(e), Part(e))
  /\ Settle(e, FALSE)
  /\ Fault /\ UNCHANGED marker

Mark(e) ==
  /\ doing = "marking" /\ First(e)
  /\ marker' = [marker EXCEPT ![Dest(e)] = e]
  /\ Settle(e, TRUE)
  /\ Calm /\ UNCHANGED tree

(* The marker is written on a best-effort basis: the file stays as it was, *)
(* or is left unreadable.                                                  *)
MarkFails(e) ==
  /\ doing = "marking" /\ First(e)
  /\ marker' \in {marker, [marker EXCEPT ![Dest(e)] = NoEntry]}
  /\ Settle(e, TRUE)
  /\ Fault /\ UNCHANGED tree

Stage(e) ==
  \/ SourceGone(e) \/ UseInPlace(e) \/ Reuse(e) \/ Clear(e) \/ ClearFails(e)
  \/ Copy(e) \/ CopyFails(e) \/ CopyBreaks(e) \/ Mark(e) \/ MarkFails(e)

-----------------------------------------------------------------------------
(* Scanning and purging a unit.                                            *)

Goto(from, to) ==
  /\ doing = from /\ doing' = to
  /\ Calm /\ UNCHANGED <<grouped, marker, mode, unitVars, batches>>

(* scan_repo creates the report folder before anything else.  In a group   *)
(* it stands beside the members' directories.                              *)
StartScan ==
  /\ todo = {} /\ staged # {} /\ mode # "clone"
  /\ Goto("stage", "scanning")
  /\ tree' = [d \in Entry |->
                [tree[d] EXCEPT !.reports =
                   @ \/ (~grouped /\ \E e \in staged \ Local : Dest(e) = d)]]
  /\ UNCHANGED ending

(* All entries of the unit failed, or --stop-after clone.                  *)
NoScan ==
  /\ todo = {} /\ (staged = {} \/ mode = "clone")
  /\ Goto("stage", "purging")
  /\ UNCHANGED <<tree, ending>>

(* scan_repo returns or raises.                                            *)
EndScan == Goto("scanning", "purging") /\ UNCHANGED <<tree, ending>>

(* A bug that could be: in a group, copies of local entries are spared.    *)
BugPurged == IF mode # "scan" THEN {} ELSE {Dest(e) : e \in staged \ Local}

(* The directories the `finally` clause purges: a clone that _acquire_repo *)
(* returned, or the folder of the application.                             *)
Purged ==
  IF mode # "scan" THEN {}
  ELSE IF grouped THEN Members(unit)
  ELSE {Dest(e) : e \in staged \ Local}

AfterPurge ==
  /\ doing' = IF ending THEN "off" ELSE "next"
  /\ UNCHANGED <<grouped, marker, mode, unitVars, ending, batches>>

(* _purge_clone, of each directory d down to left[d]: everything goes but  *)
(* the folders to preserve.                                                *)
PurgeTo(left) ==
  /\ doing = "purging"
  /\ tree' = [d \in Entry |->
                IF d \in Purged THEN Pruned(tree[d], left[d], tree[d].reports)
                ELSE tree[d]]

Purge == PurgeTo([d \in Entry |-> "none"]) /\ Calm /\ AfterPurge

(* Something survives; a warning is printed.                               *)
PurgeFails ==
  /\ \E left \in [Entry -> {"none", "partial", "full"}] : PurgeTo(left)
  /\ Fault /\ AfterPurge

-----------------------------------------------------------------------------
(* Interruptions.                                                          *)

Between == doing \in {"copying", "marking"}

(* Ctrl-C, through the `finally` clause and out without a summary, or the  *)
(* death of the process.  Where no file is being moved this is no fault.   *)
BreakOff ==
  /\ \/ doing \in {"stage", "scanning"} /\ doing' \in {"purging", "off"}
     \/ doing = "next" /\ doing' = "off"
  /\ ending' = TRUE
  /\ Calm /\ UNCHANGED <<grouped, tree, marker, mode, unitVars, batches>>

(* The same between removing the old directory and writing the marker,     *)
(* when the marker does not speak of what stands there.                    *)
BreakOffCopy ==
  /\ Between
  /\ \/ UNCHANGED tree
     \/ \E e \in todo : doing = "copying" /\ First(e) /\ Put(Dest(e), Part(e))
  /\ doing' \in {"purging", "off"} /\ ending' = TRUE
  /\ Fault /\ UNCHANGED <<grouped, marker, mode, unitVars, batches>>

(* Also a file that cannot be deleted: `unlink` raises, out of the         *)
(* `finally` clause and out of the batch.                                  *)
BreakOffPurge ==
  /\ \E left \in [Entry -> {"none", "partial", "full"}] : PurgeTo(left)
  /\ doing' = "off" /\ ending' = TRUE
  /\ Fault /\ UNCHANGED <<grouped, marker, mode, unitVars, batches>>

Rest == doing = "off" /\ batches = MaxBatches /\ UNCHANGED vars

Next ==
  \/ StartBatch \/ NextUnit \/ EndBatch
  \/ \E e \in Entry : Stage(e)
  \/ StartScan \/ NoScan \/ EndScan \/ Purge \/ PurgeFails
  \/ BreakOff \/ BreakOffCopy \/ BreakOffPurge
  \/ Rest

Spec == Init /\ [][Next]_vars

-----------------------------------------------------------------------------
(* Properties                                                              *)

(* The entries of the unit that are staged where e is, but after it.       *)
Later(e) == {f \in Members(unit) : e < f /\ Dest(f) = Dest(e)}

(* As long as no copying, marking or deletion was cut off, a scan works on *)
(* the whole of the repository it was asked for and on no other's code,    *)
(* whatever batches and purges went before; or, ungrouped, on the remains  *)
(* of its own purged checkout.  In a group "every repo gets its own        *)
(* directory" (_assign_slugs) is not so: where slugs fall together, the    *)
(* scan finds the whole code of a staged entry that came later, or nothing *)
(* where such an entry could not be cloned.                                *)
ScansOwnCode ==
  faults = 0 /\ doing = "scanning" =>
    \A e \in staged :
      InPlace(e) \/ LET t == tree[Dest(e)]
                    IN  \/ t.code = "full" /\ t.of \in {e} \cup (Later(e) \cap staged)
                        \/ t.code = "none" /\ (grouped => Later(e) \ staged # {})

(* A batch that runs to its end without such an accident leaves no source  *)
(* code in the workspace unless it was told to, also where entries failed  *)
(* to stage or earlier batches died.                                       *)
NothingLeft ==
  faults = 0 /\ doing = "off" /\ batches > 0 /\ ~ending /\ mode = "scan" =>
    \A e \in Entry : InPlace(e) \/ tree[Dest(e)].code = "none"

(* The reports of a scan are never lost to a later scan of the same        *)
(* repository ("so the scan outputs survive clone cleanup", _purge_clone), *)
(* provided it shares its directory with no other entry.                   *)
ReportsKept ==
  [][\A d \in Entry :
       /\ faults' = 0
       /\ \A e, f \in Entry : Dest(e) = d /\ Dest(f) = d => e = f
       /\ tree[d].reports
       => tree'[d].reports]_vars

(* "Reuse ONLY a dir that is both non-empty AND bound ... never a          *)
(* stale/foreign/pre-seeded dir" (comment in _acquire_repo): what a scan   *)
(* is given is a whole checkout.                                           *)
ScannedIsWhole ==
  doing = "scanning" =>
    \A e \in staged : InPlace(e) \/ tree[Dest(e)].code = "full"

(* "a state-dir marker proving it was staged from `ref` by a prior run"    *)
(* (_stage_dir_bound): a directory that the marker of another entry allows *)
(* to be reused never holds other code than that entry's.                  *)
MarkerProves ==
  \A d \in Entry :
    ~Between /\ marker[d] # NoEntry /\ tree[d].code # "none" => tree[d].of = marker[d]
=============================================================================
