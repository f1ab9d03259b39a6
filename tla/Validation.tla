------------------------------ MODULE Validation ------------------------------
(***************************************************************************)
(* S11: a run takes the patches that S10 left for validation, one after    *)
(* the other, stages a copy of the repository for each, has a session of   *)
(* personas judge it, and folds the verdict into the patch's DTO, the      *)
(* checkpoints and the combined report.  Models validation/cli/_run.py     *)
(* with the ingest, execution, session, io and report packages it calls,   *)
(* and of S10 what S11 finds: the DTOs and the combined report             *)
(* (Remediation has the rest).                                             *)
(***************************************************************************)
EXTENDS PanelVerdict, CombinedReport, TLC

CONSTANTS
  Sessions,       \* what a session of each backend may come back with
  RootFiles,      \* the files of the repository's root that S11 has names for
  None,
  MaxPatches,     \* bound: how many DTOs S10 writes for each finding
  MaxRuns,        \* bound: validation runs
  MaxCrashes      \* bound: killed runs

ASSUME RootFilesAssumption == RootFiles \subseteq {"diff.patch", "manifest.json"}
ASSUME BoundsAssumption == MaxPatches \in [Findings -> Nat]
ASSUME OrderAssumption == Order \in Seq(Findings) /\ Len(Order) = Cardinality(Findings)

VARIABLES
  via,            \* the backend of models.validate: "deepagents" or "sdk"
  linkable,       \* whether the workspace can hold hard links to the repository
  dto,            \* per finding its remediate_report.json, or None
  ckpt,           \* per finding the checkpoint of its validation, or None
  ws,             \* per finding its workspace, or None
  repo,           \* what has become of them
  md, sarif,      \* the combined report
  run,            \* the validation run in progress
  patches, runs, crashes

vars == <<via, linkable, dto, ckpt, ws, repo, md, sarif, run, patches, runs, crashes>>
bounds == <<patches, runs, crashes>>
report == <<md, sarif>>

(* How the stream of messages of each harness can end.  Running into the   *)
(* graph's recursion limit yields a terminal message and then the error.   *)
ClaudeEnds == {"no_cli", "error", "stopped", "success"}
DeepAgentsEnds == {"error", "success"}
EndsOf == [sdk |-> ClaudeEnds, deepagents |-> DeepAgentsEnds]

(* What a session comes back with: how it ends; the tracking id of the     *)
(* finding its structured answer reports first ("nothing" when that lists  *)
(* none, None when there is no answer); the gates the answer lists, per    *)
(* tracking id; and the messages that read as persona reports.             *)
SessionsAssumption ==
  \A v \in {"sdk", "deepagents"} : \A s \in Sessions[v] :
    /\ s.end \in EndsOf[v]
    /\ s.answer \in {"own", "blank", "other", "nothing", None}
    /\ DOMAIN s.listed \subseteq {"own", "other"}
    /\ \A id \in DOMAIN s.listed :
         \A g \in DOMAIN s.listed[id] : s.listed[id][g] \in Statuses
    /\ s.cands \in Seq({s.cands[i] : i \in DOMAIN s.cands})
    /\ \A i \in DOMAIN s.cands :
         /\ s.cands[i].names \in {"own", "other"}
         /\ DOMAIN s.cands[i].gates \subseteq Gates
         /\ \A g \in DOMAIN s.cands[i].gates :
              s.cands[i].gates[g] \subseteq Statuses \ {"invalid"}
ASSUME SessionsAssumption

(* What of a remediate_report.json matters: its status, whether its patch  *)
(* is on disk, which patch it is, and which was judged last.               *)
Dtos == [status : {"awaiting_validation", "needs_review", "validation_failed",
                   "validated", "rejected"},
         landed : BOOLEAN, patch : Nat, judged : Nat]

ASSUME NoneAssumption == None \notin Dtos

Idle == [pc |-> "idle", resume |-> FALSE, queue |-> <<>>, order |-> <<>>,
         result |-> <<>>, heard |-> None]

Init ==
  /\ via \in {"deepagents", "sdk"}
  /\ linkable \in BOOLEAN
  /\ dto = [f \in Findings |-> None]
  /\ ckpt = [f \in Findings |-> None]
  /\ ws = [f \in Findings |-> None]
  /\ repo = [n \in RootFiles |-> "own"]
  /\ md = EmptyReport /\ sarif = EmptyReport
  /\ run = Idle
  /\ patches = [f \in Findings |-> 0] /\ runs = 0 /\ crashes = 0

-----------------------------------------------------------------------------
(* S10.                                                                    *)

Validatable == {"awaiting_validation", "needs_review", "validation_failed"}

(* What it leaves of a finding: a patch on disk that waits for S11, a case *)
(* for a human with or without one, or a finding it rejects.               *)
Remediated == {[status |-> "awaiting_validation", landed |-> TRUE],
               [status |-> "needs_review", landed |-> TRUE],
               [status |-> "needs_review", landed |-> FALSE],
               [status |-> "rejected", landed |-> FALSE]}

WithDto == SelectSeq(Order, LAMBDA f : dto'[f] # None)

(* process_findings: new DTOs for the findings it works on, then the       *)
(* combined report from all DTOs there are.                                *)
Remediate ==
  /\ run.pc = "idle"
  /\ \E worked \in SUBSET Findings : \E left \in [worked -> Remediated] :
       /\ \A f \in worked : patches[f] < MaxPatches[f]
       /\ patches' = [f \in Findings |-> patches[f] + IF f \in worked THEN 1 ELSE 0]
       /\ dto' = [f \in Findings |->
                    IF f \in worked
                    THEN [status |-> left[f].status, landed |-> left[f].landed,
                          patch |-> patches[f] + 1, judged |-> 0]
                    ELSE dto[f]]
  /\ WithDto # <<>>
  /\ md' = RemediatedMarkdown(md, WithDto)
  /\ sarif' = RemediatedSarif(sarif, WithDto)
  /\ UNCHANGED <<via, linkable, ckpt, ws, repo, run, runs, crashes>>

-----------------------------------------------------------------------------
(* A validation run.                                                       *)

CanValidate(f) == dto[f] # None /\ dto[f].status \in Validatable

(* select_reports: the findings that are asked for, which may be asked for *)
(* twice; or all there are, or the top of them by score, which are among   *)
(* these.                                                                  *)
Selections ==
  {s \in UNION {[1..n -> Findings] : n \in 1..Cardinality(Findings)} :
     \A i \in DOMAIN s : CanValidate(s[i])}

Begin ==
  /\ run.pc = "idle"
  /\ runs < MaxRuns
  /\ \E s \in Selections, resume \in BOOLEAN :
       /\ run' = [Idle EXCEPT !.pc = "next", !.resume = resume, !.queue = s]
  /\ runs' = runs + 1
  /\ UNCHANGED <<via, linkable, dto, ckpt, ws, repo, report, patches, crashes>>

At(pc) == run.pc = pc /\ run.queue # <<>>
Current == Head(run.queue)

(* A result a later step of the run reads, and the finding it is for.      *)
WithPair(f, r) ==
  [run EXCEPT !.pc = "next", !.queue = Tail(@), !.order = Append(@, f),
              !.result = (f :> r) @@ @, !.heard = None]

Hit(f) == run.resume /\ ckpt[f] # None /\ ckpt[f].names = "own"

(* A bug that could be: what the checkpoint says is the finding's status.  *)
BugResumed(f) ==
  [dto EXCEPT ![f].status = IF ckpt[f].label = "fixed" THEN "validated" ELSE @]

(* The checkpoint goes into the report; the DTO is left as it is.          *)
Resumed(f) == dto

ResumeHit(f) ==
  /\ At("next") /\ f = Current
  /\ Hit(f)
  /\ dto' = Resumed(f)
  /\ run' = WithPair(f, ckpt[f])
  /\ UNCHANGED <<via, linkable, ckpt, ws, repo, report, bounds>>

(* A bug that could be: that nothing was changed is no reason.             *)
BugApplied(f) == TRUE

(* assert_remediation_applied.                                             *)
Applied(f) == dto[f].landed

Refuse(f) ==
  /\ At("next") /\ f = Current
  /\ ~Hit(f) /\ ~Applied(f)
  /\ run' = [run EXCEPT !.queue = Tail(@)]
  /\ UNCHANGED <<via, linkable, dto, ckpt, ws, repo, report, bounds>>

NoGates == <<>>
Fresh == [answer |-> "nothing", gates |-> NoGates]

(* A bug that could be: a directory that is there is staged into.          *)
BugStaged(f) == IF ws[f] = None THEN Fresh ELSE ws[f]

Staged(f) == Fresh

(* stage_workspace and the manifest: what an earlier run left goes; the    *)
(* copy is made of hard links, and a file that is written in place is the  *)
(* repository's too.                                                       *)
Stage(f) ==
  /\ At("next") /\ f = Current
  /\ ~Hit(f) /\ Applied(f)
  /\ linkable
  /\ ws' = [ws EXCEPT ![f] = Staged(f)]
  /\ repo' = [n \in RootFiles |-> "overwritten"]
  /\ run' = [run EXCEPT !.pc = "staged"]
  /\ UNCHANGED <<via, linkable, dto, ckpt, report, bounds>>

(* Where links fail, the second copy finds the directory of the first: the *)
(* error ends the command.                                                 *)
StageFails(f) ==
  /\ At("next") /\ f = Current
  /\ ~Hit(f) /\ Applied(f)
  /\ ~linkable
  /\ ws' = [ws EXCEPT ![f] = Staged(f)]
  /\ run' = Idle
  /\ UNCHANGED <<via, linkable, dto, ckpt, repo, report, bounds>>

-----------------------------------------------------------------------------
(* The session.                                                            *)

HostSynthesizes == via = "deepagents"

ExitCode(end) == IF end = "success" THEN 0 ELSE 1

(* _run_and_check: an error, a terminal that is not a success, or no       *)
(* answer where nothing else could be written.                             *)
Failed(s) == \/ ExitCode(s.end) # 0
             \/ s.answer = None /\ ~HostSynthesizes

(* What the host makes of the personas' reports, if it does.               *)
FromPanel(s) ==
  IF HostSynthesizes THEN Synthesized(ValidReports(s.cands), "own") ELSE NoGates

Entry(g) == IF g = NoGates THEN <<>> ELSE [id \in {"own"} |-> g]

(* _write_validation_outputs, then _write_host_synthesized_gates.          *)
Written(f, s) ==
  [answer |-> IF s.answer = None THEN ws[f].answer ELSE s.answer,
   gates |-> IF FromPanel(s) # NoGates THEN Entry(FromPanel(s))
             ELSE IF s.answer = None THEN ws[f].gates ELSE s.listed]

(* The session ends and leaves its artifacts, or none.                     *)
Session(f) ==
  /\ At("staged") /\ f = Current
  /\ \E s \in Sessions[via] :
       /\ s.end # "no_cli"
       /\ ws' = IF Failed(s) THEN ws ELSE [ws EXCEPT ![f] = Written(f, s)]
       /\ run' = [run EXCEPT !.pc = "heard", !.heard = s]
  /\ UNCHANGED <<via, linkable, dto, ckpt, repo, report, bounds>>

(* A missing binary ends the whole command.                                *)
NoBinary(f) ==
  /\ At("staged") /\ f = Current
  /\ \E s \in Sessions[via] : s.end = "no_cli"
  /\ run' = Idle
  /\ UNCHANGED <<via, linkable, dto, ckpt, ws, repo, report, bounds>>

-----------------------------------------------------------------------------
(* The verdict.                                                            *)

(* effective_score(host_score_for(...)): of the gates under that id.       *)
ScoreOf(gates, id) == IF id \in DOMAIN gates THEN Score(gates[id]) ELSE "UNVERIFIABLE"

LabelOf(verdict) ==
  CASE verdict = "Fixed" -> "fixed" [] verdict = "Partially Fixed" -> "partially_fixed"
    [] OTHER -> "not_fixed"

(* _terminal_status.                                                       *)
StatusOf(verdict) ==
  CASE verdict = "UNVERIFIABLE" -> "needs_review" [] verdict = "Fixed" -> "validated"
    [] OTHER -> "validation_failed"

(* execute_plan: nothing usable came back.                                 *)
NoResult(f) == Failed(run.heard) \/ ws[f].answer = "nothing"

(* results[0]: scored under the id the session reported, then named; a     *)
(* blank name becomes the finding's own.                                   *)
Result(f) ==
  IF NoResult(f) THEN [names |-> "own", label |-> "not_fixed", hard |-> TRUE]
  ELSE [names |-> IF ws[f].answer = "blank" THEN "own" ELSE ws[f].answer,
        label |-> LabelOf(ScoreOf(ws[f].gates, ws[f].answer)), hard |-> FALSE]

(* A bug that could be: the artifacts that are there are scored, whatever  *)
(* became of the session.                                                  *)
BugVerdict(f) == ScoreOf(ws[f].gates, "own")

(* write_back_validation: a hard failure is not scored.                    *)
Verdict(f) == IF NoResult(f) THEN "UNVERIFIABLE" ELSE ScoreOf(ws[f].gates, "own")

WriteBack(f) ==
  /\ At("heard") /\ f = Current
  /\ dto' = [dto EXCEPT ![f].status = StatusOf(Verdict(f)), ![f].judged = dto[f].patch]
  /\ ws' = [ws EXCEPT ![f] = None]
  /\ run' = [run EXCEPT !.pc = "written", !.heard = Result(f)]
  /\ UNCHANGED <<via, linkable, ckpt, repo, report, bounds>>

(* save_ckpt, hard failures included.                                      *)
Save(f) ==
  /\ At("written") /\ f = Current
  /\ ckpt' = [ckpt EXCEPT ![f] = run.heard]
  /\ run' = WithPair(f, run.heard)
  /\ UNCHANGED <<via, linkable, dto, ws, repo, report, bounds>>

(* augment_reports, then the staging tree goes.                            *)
Finish ==
  /\ run.pc = "next" /\ run.queue = <<>>
  /\ LET part == [f \in DOMAIN run.result |-> [of |-> f, label |-> run.result[f].label]]
     IN IF Exists(md)
        THEN /\ md' = ValidatedMarkdown(md, run.order, part)
             /\ sarif' = ValidatedSarif(sarif, run.order, part)
        ELSE UNCHANGED report
  /\ ws' = [f \in Findings |-> None]
  /\ run' = Idle
  /\ UNCHANGED <<via, linkable, dto, ckpt, repo, bounds>>

(* The run is killed: what is on disk stays.                               *)
Crash ==
  /\ run.pc # "idle" /\ crashes < MaxCrashes
  /\ crashes' = crashes + 1
  /\ run' = Idle
  /\ UNCHANGED <<via, linkable, dto, ckpt, ws, repo, report, patches, runs>>

Process(f) == \/ ResumeHit(f) \/ Refuse(f) \/ Stage(f) \/ StageFails(f)
              \/ Session(f) \/ NoBinary(f) \/ WriteBack(f) \/ Save(f)

Next == Remediate \/ Begin \/ (\E f \in Findings : Process(f)) \/ Finish \/ Crash

Spec == Init /\ [][Next]_vars
-----------------------------------------------------------------------------
(* Properties.                                                             *)

TypeOK ==
  /\ dto \in [Findings -> {None} \cup Dtos]
  /\ patches \in [Findings -> Nat]
  /\ run.pc \in {"idle", "next", "staged", "heard", "written"}
  /\ run.queue \in Seq(Findings)

Writes(f) == run.pc = "heard" /\ run'.pc = "written" /\ f = Current

(* How many personas say a status of a gate of this finding, each persona  *)
(* once and by its first report.                                           *)
Saying(s, g, status) ==
  {p \in {s.cands[i].persona : i \in DOMAIN s.cands} :
     \E i \in DOMAIN s.cands :
       /\ s.cands[i].persona = p /\ s.cands[i].names = "own" /\ s.cands[i].valid
       /\ g \in DOMAIN s.cands[i].gates
       /\ MostConservative(s.cands[i].gates[g]) = status
       /\ \A k \in 1..(i - 1) : s.cands[k].persona # p \/ s.cands[k].names # "own"}

(* The panel stands behind a pass: somebody says so, and no worse opinion  *)
(* is as common.                                                           *)
PanelPasses(s, g) ==
  /\ Saying(s, g, "pass") # {}
  /\ \A worse \in {"partial", "fail"} :
       Cardinality(Saying(s, g, worse)) < Cardinality(Saying(s, g, "pass"))

(* Everybody who has an opinion on a gate says it fails.                   *)
PanelFails(s, g) == /\ Saying(s, g, "fail") # {}
                    /\ Saying(s, g, "pass") \cup Saying(s, g, "partial") = {}

SelfPasses(s, g) == "own" \in DOMAIN s.listed /\ g \in DOMAIN s.listed["own"]
                    /\ s.listed["own"][g] = "pass"

PanelSpoke(s) == FromPanel(s) # NoGates

(* "validated" is final: S11 never looks at the finding again.  A finding  *)
(* becomes it only in a write-back, after a session of this very run that  *)
(* ended well and passed both critical gates, by its panel where the host  *)
(* counts the panel's votes; and no gate that weighs more than a fifth was *)
(* failed by all who looked at it, however many did not look.              *)
ValidatedIsEarned ==
  [][\A f \in Findings :
       dto[f] # None /\ dto[f].status # "validated" /\ dto'[f].status = "validated"
       => /\ Writes(f)
          /\ run.heard.end = "success"
          /\ \A g \in Critical : IF PanelSpoke(run.heard) THEN PanelPasses(run.heard, g)
                                  ELSE SelfPasses(run.heard, g)
          /\ \A g \in Gates : Weight[g] > 2000 /\ PanelSpoke(run.heard)
                            => ~PanelFails(run.heard, g)]_vars

(* What the DTO says of the patch in it: a verdict that was given to an    *)
(* earlier patch is stale.                                                 *)
Standing(f) ==
  CASE dto[f].status = "rejected" -> "rejected"
    [] dto[f].status \in {"validated", "validation_failed"} /\ dto[f].judged # dto[f].patch
       -> "stale"
    [] dto[f].status = "validated" -> "fixed"
    [] dto[f].status = "validation_failed" -> "not fixed"
    [] OTHER -> IF dto[f].judged = dto[f].patch THEN "unknown" ELSE "none"

Life == [f \in Findings |->
           IF dto[f] = None THEN [patch |-> 0, landed |-> FALSE, standing |-> "none"]
           ELSE [patch |-> dto[f].patch, landed |-> dto[f].landed, standing |-> Standing(f)]]

Lifecycle == INSTANCE PatchLifecycle WITH life <- Life

(* The abstract specification: only S10 makes patches, only a patch that   *)
(* is on disk and not rejected is judged, one at a time; and no crash, no  *)
(* resumed checkpoint and no leftover session changes what a DTO says, or  *)
(* leaves the verdict on an earlier patch standing.                        *)
ImplementsLifecycle == Lifecycle!Spec

(* The run's own result, which the combined report and the exit code are   *)
(* made from, calls a finding fixed exactly when its DTO says validated,   *)
(* where the session reported under the finding's own id.                  *)
ResultAgreesWithDto ==
  [][\A f \in Findings :
       Writes(f) /\ run'.heard.names = "own" /\ run.heard.answer # "blank"
       => (run'.heard.label = "fixed" <=> dto'[f].status = "validated")]_vars

(* README: the panel "reads the repo and writes only its own validation    *)
(* artifacts".                                                             *)
RepoUntouched == \A n \in RootFiles : repo[n] # "overwritten"

=============================================================================
