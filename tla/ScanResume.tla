----------------------------- MODULE ScanResume -----------------------------
(***************************************************************************)
(* orchestrator/scan.py's scan_repo over the checkpoint table of one       *)
(* repository (orchestrator/checkpoints.py, orchestrator/store.py).        *)
(*                                                                         *)
(* A scan walks stages S0..S9.  With --resume it takes a stage's result    *)
(* from the table when it is there; otherwise it runs the stage and saves  *)
(* the result.  S5, S6 and S7 share the row "s7".  The process may die     *)
(* anywhere and be started again, with --resume or without, and with any   *)
(* --stop-after; `vvaharness gc` may evict the run at any time.            *)
(*                                                                         *)
(* A result is abstracted to where it comes from: the fresh scan it        *)
(* belongs to, which of that scan's executions of the stage made it, and   *)
(* which execution of the stage before it was read.                        *)
(***************************************************************************)
EXTENDS Naturals

CONSTANTS
  AutoStep1,   \* --auto-step1 (or step1.auto_exclude)
  Oversize,    \* stages whose payload may exceed _CKPT_MAX_BYTES
  Stops,       \* bound: the --stop-after values that are tried
  MaxScans,    \* bound: scans started
  MaxCrashes,  \* bound: crashes since the last fresh scan
  MaxLost      \* bound: rows lost since the last fresh scan

ASSUME ScanAssumption ==
  /\ AutoStep1 \in BOOLEAN
  /\ Stops \subseteq 0..9
  /\ MaxScans \in Nat
  /\ MaxCrashes \in Nat
  /\ MaxLost \in Nat

Stage == 0..9

(* The stages that read each other's results and have a row of their own.  *)
(* S2 is advisory (its failure is survived), S9 is rendered every time.    *)
Chain == {0, 1, 3, 4, 7, 8}

(* The stages with a row in the checkpoint table.                          *)
Rows == Chain \cup {2, 9}

(* No --stop-after.                                                        *)
NoStop == 12

VARIABLES
  ckpt,      \* the checkpoint rows of this run_id
  overlay,   \* the fresh scan that derived step1.yaml, 0: no such file
  doing,     \* what the scan process does, "off" when there is none
  stage,     \* the stage it is at
  resume,    \* --resume
  stop,      \* --stop-after
  mem,       \* the results the process holds
  layered,   \* the fresh scan whose step1.yaml is in force, 0: none
  gen,       \* which fresh scan the repository is at
  runs,      \* history: executions of each stage since that fresh scan
  crashes,   \* history: crashes since that fresh scan
  scans,     \* history: scans started
  lost       \* history: rows not saved, rejected or evicted under a scan

args == <<resume, stop>>
history == <<runs, crashes, scans, lost>>
vars == <<ckpt, overlay, doing, stage, args, mem, layered, gen, history>>

Nothing == [gen |-> 0, n |-> 0, up |-> 0]
Result == [gen: Nat, n: Nat, up: Nat]
Has(r) == r.n # 0

(* The stage of the chain whose result stage s reads.                      *)
Before(s) == CHOOSE t \in Chain : t < s /\ \A u \in Chain : u < s => u <= t

Empty(S) == [s \in S |-> Nothing]

TypeOK ==
  /\ ckpt \in [Rows -> Result]
  /\ overlay \in Nat
  /\ doing \in {"off", "reset", "overlay", "load", "run", "save"}
  /\ stage \in Stage
  /\ resume \in BOOLEAN
  /\ stop \in Stage \cup {NoStop}
  /\ mem \in [Stage -> Result]
  /\ layered \in Nat
  /\ gen \in Nat \ {0}
  /\ runs \in [Stage -> Nat]
  /\ crashes \in 0..MaxCrashes
  /\ scans \in 0..MaxScans
  /\ lost \in 0..MaxLost

Init ==
  /\ ckpt = Empty(Rows)
  /\ overlay = 0
  /\ doing = "off"
  /\ stage = 0
  /\ resume = FALSE
  /\ stop = NoStop
  /\ mem = Empty(Stage)
  /\ layered = 0
  /\ gen = 1
  /\ runs = [s \in Stage |-> 0]
  /\ crashes = 0
  /\ scans = 0
  /\ lost = 0

-----------------------------------------------------------------------------
(* The command line starts a scan.                                         *)
Start ==
  /\ doing = "off" /\ scans < MaxScans
  /\ scans' = scans + 1
  /\ resume' \in BOOLEAN
  /\ stop' \in Stops \cup {NoStop}
  /\ doing' = IF resume' THEN "overlay" ELSE "reset"
  /\ stage' = 0
  /\ UNCHANGED <<ckpt, overlay, mem, layered, gen, runs, crashes, lost>>

(* A bug that could be: only the rows of the early stages are deleted.     *)
BugResetKeepsLateRows ==
  /\ doing = "reset"
  /\ ckpt' = [s \in Rows |-> IF s < 7 THEN Nothing ELSE ckpt[s]]
  /\ gen' = gen + 1
  /\ runs' = [s \in Stage |-> 0]
  /\ crashes' = 0 /\ lost' = 0
  /\ doing' = "overlay"
  /\ UNCHANGED <<overlay, stage, args, mem, layered, scans>>

(* store.reset_run: a fresh scan deletes every row of the run, in one      *)
(* transaction, and starts a history of its own.                           *)
ResetRun ==
  /\ doing = "reset"
  /\ ckpt' = Empty(Rows)
  /\ gen' = gen + 1
  /\ runs' = [s \in Stage |-> 0]
  /\ crashes' = 0 /\ lost' = 0
  /\ doing' = "overlay"
  /\ UNCHANGED <<overlay, stage, args, mem, layered, scans>>

(* s1_autoexclude.run surveys the tree, asks a model what to leave out and *)
(* writes the overlay last; a failure leaves the file as it was.           *)
Derived ==
  \/ overlay' = gen /\ layered' = gen
  \/ layered' = 0 /\ UNCHANGED overlay

(* The --auto-step1 overlay: a resumed scan reuses the file, any other     *)
(* derives it; when that fails the scan goes on without, and the file      *)
(* stays as it was.                                                        *)
DeriveOverlay ==
  /\ doing = "overlay"
  /\ doing' = "load"
  /\ \/ ~AutoStep1 /\ layered' = 0 /\ UNCHANGED overlay
     \/ AutoStep1 /\ resume /\ overlay # 0 /\ layered' = overlay /\ UNCHANGED overlay
     \/ AutoStep1 /\ ~(resume /\ overlay # 0) /\ Derived
  /\ UNCHANGED <<ckpt, stage, args, mem, gen, history>>

-----------------------------------------------------------------------------
(* The stages.                                                             *)

(* The process ends, by a return of scan_repo or otherwise: what it held   *)
(* in memory is gone.                                                      *)
Exit ==
  /\ doing' = "off" /\ stage' = 0 /\ resume' = FALSE /\ stop' = NoStop
  /\ mem' = Empty(Stage) /\ layered' = 0

GoOn(to, d, m) ==
  /\ stage' = to /\ doing' = d /\ mem' = m
  /\ UNCHANGED <<args, layered>>

(* Stage s is over, with mem updated to m: --stop-after, or the next       *)
(* stage.  S6 and S7 have no row to look for: they follow S5.              *)
Advance(s, m) ==
  IF stop = s \/ s = 9
  THEN Exit
  ELSE GoOn(s + 1, IF s + 1 \in {6, 7} THEN "run" ELSE "load", m)

(* What the row of stage s is called: S5 looks for the row S7 saves.       *)
RowOf(s) == IF s = 5 THEN 7 ELSE s

(* A bug that could be: a hit on the shared row skips the look at          *)
(* --stop-after s5 and s6.                                                 *)
BugLoadIgnoresStop ==
  /\ doing = "load"
  /\ LET row == RowOf(stage)
     IN  IF resume /\ stage # 9 /\ Has(ckpt[row])
         THEN Advance(row, [mem EXCEPT ![row] = ckpt[row]])
         ELSE GoOn(stage, "run", mem)
  /\ UNCHANGED <<ckpt, overlay, gen, runs, crashes, scans, lost>>

(* A result is taken from the table.  For the shared row, --stop-after s5  *)
(* and s6 are looked at again.  S9's file name has a fresh timestamp, so   *)
(* it is never there.                                                      *)
Load ==
  /\ doing = "load"
  /\ LET row  == RowOf(stage)
         hit  == resume /\ stage # 9 /\ Has(ckpt[row])
     IN  IF ~hit
         THEN GoOn(stage, "run", mem)
         ELSE LET m == [mem EXCEPT ![row] = ckpt[row]]
              IN  IF stage = 5 /\ stop \in {5, 6} THEN Exit ELSE Advance(row, m)
  /\ UNCHANGED <<ckpt, overlay, gen, runs, crashes, scans, lost>>

(* A row is there and load_ckpt does not trust it: it was written by       *)
(* another version of the tool, or tampered with.                          *)
LoadRejected ==
  /\ doing = "load" /\ resume /\ stage # 9 /\ Has(ckpt[RowOf(stage)])
  /\ lost < MaxLost /\ lost' = lost + 1
  /\ GoOn(stage, "run", mem)
  /\ UNCHANGED <<ckpt, overlay, gen, runs, crashes, scans>>

(* What executing stage s makes of the results at hand.                    *)
Product(s) ==
  [gen |-> gen, n |-> runs[s] + 1, up |-> IF s = 0 THEN 0 ELSE mem[Before(s)].n]

(* A stage is executed.  S5 and S6 save nothing and go on, or return.      *)
Run ==
  /\ doing = "run"
  /\ runs' = [runs EXCEPT ![stage] = @ + 1]
  /\ LET m == [mem EXCEPT ![stage] = Product(stage)]
     IN  IF stage \in {5, 6}
         THEN Advance(stage, m)
         ELSE GoOn(stage, "save", m)
  /\ UNCHANGED <<ckpt, overlay, gen, crashes, scans, lost>>

(* The threat model fails: the scan goes on without one, saving nothing.   *)
ThreatModelFails ==
  /\ doing = "run" /\ stage = 2
  /\ runs' = [runs EXCEPT ![2] = @ + 1]
  /\ Advance(2, mem)
  /\ UNCHANGED <<ckpt, overlay, gen, crashes, scans, lost>>

(* A bug that could be: a database error on saving is swallowed.           *)
BugSaveMayFail ==
  /\ doing = "save"
  /\ ckpt' \in {ckpt, [ckpt EXCEPT ![stage] = mem[stage]]}
  /\ Advance(stage, mem)
  /\ UNCHANGED <<overlay, gen, runs, crashes, scans, lost>>

(* A bug that could be: --stop-after returns before the result is saved.   *)
BugSaveAfterStop ==
  /\ doing = "save"
  /\ ckpt' = IF stop = stage THEN ckpt ELSE [ckpt EXCEPT ![stage] = mem[stage]]
  /\ Advance(stage, mem)
  /\ UNCHANGED <<overlay, gen, runs, crashes, scans, lost>>

(* save_ckpt: one transaction, unless the payload is over the cap.         *)
Save ==
  /\ doing = "save"
  /\ ckpt' = [ckpt EXCEPT ![stage] = mem[stage]]
  /\ Advance(stage, mem)
  /\ UNCHANGED <<overlay, gen, runs, crashes, scans, lost>>

SaveOversize ==
  /\ doing = "save" /\ stage \in Oversize
  /\ lost < MaxLost /\ lost' = lost + 1
  /\ Advance(stage, mem)
  /\ UNCHANGED <<ckpt, overlay, gen, runs, crashes, scans>>

-----------------------------------------------------------------------------
(* The process dies: a crash, an exception of a stage, Ctrl-C.             *)
Crash ==
  /\ doing # "off" /\ crashes < MaxCrashes
  /\ crashes' = crashes + 1
  /\ Exit
  /\ UNCHANGED <<ckpt, overlay, gen, runs, scans, lost>>

(* vvaharness gc evicts the run (delete_run, prune_checkpoints); the rows  *)
(* go with it.  Between scans that is an empty slate as well.              *)
GcRun ==
  /\ \E s \in Rows : Has(ckpt[s])
  /\ ckpt' = Empty(Rows)
  /\ IF doing = "off"
     THEN runs' = [s \in Stage |-> 0] /\ crashes' = 0 /\ lost' = 0
     ELSE lost < MaxLost /\ lost' = lost + 1 /\ UNCHANGED <<runs, crashes>>
  /\ UNCHANGED <<overlay, doing, stage, args, mem, layered, gen, scans>>

Rest == doing = "off" /\ scans = MaxScans /\ UNCHANGED vars

Next ==
  \/ Start \/ ResetRun \/ DeriveOverlay
  \/ Load \/ LoadRejected \/ Run \/ ThreatModelFails \/ Save \/ SaveOversize
  \/ Crash \/ GcRun \/ Rest

Spec == Init /\ [][Next]_vars

-----------------------------------------------------------------------------
(* Properties                                                              *)

(* "so a fresh scan never inherits stale state" (docs/USER_GUIDE.md): no   *)
(* result a scan works with was made before the last fresh scan, however   *)
(* far the scans since then got and wherever they died.                    *)
FreshSlate == \A s \in Stage : Has(mem[s]) => mem[s].gen = gen

(* The results of one scan fit together: each was made from the very       *)
(* result of the stage before it that the scan also holds, whichever of    *)
(* the two was resumed.  It takes a row that was never saved (payload over *)
(* the cap), rejected on loading, or evicted while a scan ran, to break    *)
(* this.                                                                   *)
Coherent ==
  lost = 0 => \A s \in Chain \ {0} : Has(mem[s]) => mem[s].up = mem[Before(s)].n

(* A crash costs the stage it hits and no other: not counting rows that    *)
(* were lost, the resumed scans together execute a checkpointed stage      *)
(* again at most once for each crash.                                      *)
CrashCostsOneStage ==
  LET again(s) == IF runs[s] = 0 THEN 0 ELSE runs[s] - 1
  IN  lost = 0 => again(0) + again(1) + again(3) + again(4) + again(7) + again(8) <= crashes

(* --stop-after s: nothing after stage s is looked for or executed, not    *)
(* even when the row that S5, S6 and S7 share was resumed.                 *)
StopHonoured == doing # "off" => stage <= stop

(* "the only state a future --resume can see is this scan's" (comment in   *)
(* scan_repo): the same for the derived step1 overlay.                     *)
OverlayOfThisScan == layered \in {0, gen}
=============================================================================
