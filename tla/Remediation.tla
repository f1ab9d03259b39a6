---------------------------- MODULE Remediation ----------------------------
(***************************************************************************)
(* S10, the remediation agent: one finding after the other, a model call   *)
(* that edits files of the repository, the policy gate before and after    *)
(* it, the finding's report and the checkpoint row by which a later        *)
(* --resume skips it (remediation_agent/).                                 *)
(*                                                                         *)
(* Sessions of `remediate`, or of S10 within a scan, follow each other on  *)
(* one repository; between them the user edits files and scans again,      *)
(* which may reorder the findings.  A session walks through the findings   *)
(* or lets the user pick them from a menu.  Text is abstracted to the set  *)
(* of those who edited it; agents edit and create files but have no tool   *)
(* to delete one.                                                          *)
(***************************************************************************)
EXTENDS Naturals

CONSTANTS
  NumFindings, \* findings of a report
  Lists,       \* the orders in which reports list them
  File,        \* the files of the repository that matter
  FileOf,      \* the file of each finding
  Existing,    \* those that were there at first
  Ignorable,   \* those that git may be told to ignore
  Forbidden,   \* those that match forbid_patch_paths or deny_paths
  Binary,      \* those that are not UTF-8 text
  Denied,      \* the findings whose CWE or path the policy denies
  Enforce,     \* step_remediate.enforce_policy
  MaxSessions, \* bound: sessions
  MaxCrashes   \* bound: sessions that die or are interrupted

Position == 1..NumFindings
Finding == 1..NumFindings
User == 0
Editor == Finding \cup {User}

ASSUME RemediationAssumption ==
  /\ NumFindings \in Nat \ {0}
  /\ Lists \subseteq [Position -> Finding] /\ Lists # {}
  /\ FileOf \in [Finding -> File]
  /\ Existing \subseteq File /\ Ignorable \subseteq File
  /\ Forbidden \subseteq File /\ Binary \subseteq File
  /\ Denied \subseteq Finding
  /\ Enforce \in BOOLEAN
  /\ MaxSessions \in Nat /\ MaxCrashes \in Nat

VARIABLES
  git,      \* the repository is a git work tree
  ignored,  \* the files it ignores; of the others HEAD has the existing ones
  disk,     \* the files
  added,    \* files that `git add -N` put into the index
  list,     \* the findings of the newest report, by position
  rows,     \* the checkpoint rows remediate_<position>
  reports,  \* the positions and findings with a remediate_report.json
  doing,    \* what the session does, "off" when none runs
  menu,     \* it is interactive
  resume,   \* it was given --resume
  pos,      \* the position it is at
  done,     \* the positions it counts as processed
  snap,     \* before_snapshot
  reply,    \* the verdict
  patch,    \* the files in the diff of the report
  touched,  \* history: files edited by the present call
  unseen,   \* history: those of them that the gate had no way to see
  excused,  \* history: files whose edits no gate saw
  sessions, crashes \* history

repoVars == <<disk, added>>
savedVars == <<rows, reports>>
modeVars == <<git, ignored, menu, resume, sessions>>
vars == <<git, ignored, disk, added, list, rows, reports, doing, menu,
          resume, pos, done, snap, reply, patch, touched, unseen, excused, sessions,
          crashes>>

Gone == [kind |-> "gone", edits |-> {}]
Blank == [kind |-> "blank", edits |-> {}]
Head == [kind |-> "text", edits |-> {}]
NotTaken == [kind |-> "untaken", edits |-> {}]
Content == [kind: {"gone", "blank", "text"}, edits: SUBSET Editor]

(* A row holds the identity of a finding; one saved from the menu has none. *)
NoRow == NumFindings + 1
Anonymous == NumFindings + 2

(* Verdicts by what the code does with them: "Fixed" and "Partially Fixed";*)
(* "False Positive"; "Needs Review", "Not Fixed", and what is not JSON;    *)
(* and "Denied", by the gate or, as the schema has it, by the agent.       *)
Claims == {"fixed", "false positive", "review", "denied"}
StatusOf == [c \in Claims |->
               CASE c = "fixed" -> "awaiting_validation"
                 [] c = "false positive" -> "rejected"
                 [] c = "review" -> "needs_review"
                 [] c = "denied" -> "deny"]

NoReply == [claim |-> "denied", changes |-> {}]
NoSnapshot == [f \in File |-> NotTaken]

TypeOK ==
  /\ git \in BOOLEAN
  /\ ignored \subseteq Ignorable
  /\ disk \in [File -> Content]
  /\ added \subseteq File
  /\ list \in [Position -> Finding]
  /\ rows \in [Position -> Finding \cup {NoRow, Anonymous}]
  /\ reports \subseteq Position \X Finding
  /\ doing \in {"off", "next", "call", "write", "save"}
  /\ menu \in BOOLEAN /\ resume \in BOOLEAN
  /\ pos \in 1..NumFindings + 1
  /\ doing \notin {"off", "next"} => pos \in Position
  /\ done \subseteq Position
  /\ snap \in [File -> Content \cup {NotTaken}]
  /\ reply \in [claim: Claims, changes: SUBSET File]
  /\ patch \subseteq File
  /\ touched \subseteq File /\ unseen \subseteq touched /\ excused \subseteq File
  /\ sessions \in 0..MaxSessions /\ crashes \in 0..MaxCrashes

Init ==
  /\ git \in BOOLEAN
  /\ ignored \in SUBSET Ignorable /\ (ignored # {} => git)
  /\ disk = [f \in File |-> IF f \in Existing THEN Head ELSE Gone]
  /\ added = {}
  /\ list \in Lists
  /\ rows = [p \in Position |-> NoRow]
  /\ reports = {}
  /\ doing = "off" /\ menu = FALSE /\ resume = FALSE
  /\ pos = 1 /\ done = {}
  /\ snap = NoSnapshot
  /\ reply = NoReply /\ patch = {}
  /\ touched = {} /\ unseen = {} /\ excused = {}
  /\ sessions = 0 /\ crashes = 0

-----------------------------------------------------------------------------
(* Between the sessions.                                                   *)

(* A scan, fresh (which deletes the rows of its run) or resumed.           *)
Rescan ==
  /\ doing = "off"
  /\ list' \in Lists
  /\ rows' \in {rows, [p \in Position |-> NoRow]}
  /\ UNCHANGED <<git, ignored, disk, added, reports, doing, menu, resume, pos,
                 done, snap, reply, patch, touched, unseen, excused, sessions, crashes>>

Forget ==
  /\ snap' = NoSnapshot /\ reply' = NoReply
  /\ patch' = {} /\ touched' = {} /\ unseen' = {}

(* On to the next finding, or back to the menu.                            *)
GoOn == doing' = "next" /\ pos' = (IF menu THEN pos ELSE pos + 1) /\ Forget

Leave ==
  /\ doing' = "off" /\ menu' = FALSE /\ resume' = FALSE
  /\ pos' = 1 /\ done' = {}
  /\ Forget

EditedBy(c, who) == [kind |-> "text", edits |-> c.edits \cup {who}]

UserEdits(f) ==
  /\ doing = "off"
  /\ disk' = [disk EXCEPT ![f] = EditedBy(@, User)]
  /\ UNCHANGED <<git, ignored, added, list, rows, reports, doing, menu, resume, pos, done,
                 snap, reply, patch, touched, unseen, excused, sessions, crashes>>

(* process_findings, run_interactive; the menu knows no --resume.          *)
StartSession ==
  /\ doing = "off" /\ sessions < MaxSessions
  /\ sessions' = sessions + 1
  /\ menu' \in BOOLEAN /\ resume' \in BOOLEAN /\ ~(menu' /\ resume')
  /\ doing' = "next" /\ pos' = 1 /\ done' = {}
  /\ UNCHANGED <<git, ignored, repoVars, list, savedVars, snap, reply, patch,
                 touched, unseen, excused, crashes>>

(* The end of the list, or the user quits.                                 *)
EndSession ==
  /\ doing = "next"
  /\ menu \/ pos = NumFindings + 1
  /\ Leave
  /\ UNCHANGED <<git, ignored, repoVars, list, savedVars, excused, sessions,
                 crashes>>

-----------------------------------------------------------------------------
(* One finding: remediate_one and apply_plugin.                            *)

(* A bug that could be: a row is a row.                                    *)
BugCached == rows[pos] # NoRow

(* The row is that of this very finding (_finding_identity).               *)
Cached == rows[pos] = list[pos]

Skip ==
  /\ doing = "next" /\ ~menu /\ pos \in Position
  /\ resume /\ Cached
  /\ done' = done \cup {pos}
  /\ GoOn
  /\ UNCHANGED <<repoVars, list, savedVars, modeVars, excused, crashes>>

(* The findings that are taken up: the one at hand, any from the menu.     *)
TakesUp(p) ==
  /\ doing = "next" /\ p \in Position
  /\ menu \/ (p = pos /\ ~(resume /\ Cached))

DeniedNow(i, killed) == Enforce /\ (killed \/ i \in Denied)

(* "pre-gate guidance-only": no model is asked.                            *)
PreDeny(p) ==
  /\ TakesUp(p) /\ \E killed \in BOOLEAN : DeniedNow(list[p], killed)
  /\ pos' = p
  /\ reply' = NoReply
  /\ snap' = NoSnapshot
  /\ touched' = {} /\ unseen' = {}
  /\ doing' = "write"
  /\ UNCHANGED <<repoVars, list, savedVars, modeVars, done, patch, excused,
                 crashes>>

(* snapshot_files: a file that cannot be read as text is noted as missing. *)
ReadAsText(f) == IF f \in Binary THEN Gone ELSE disk[f]

(* worktree_forbidden_matches *)
ForbiddenHere == {f \in Forbidden : disk[f].kind # "gone"}

Snapshot(i) ==
  [f \in File |->
     IF f = FileOf[i] \/ (Enforce /\ f \in ForbiddenHere) THEN ReadAsText(f)
     ELSE NotTaken]

CallModel(p) ==
  /\ TakesUp(p) /\ \E killed \in BOOLEAN : ~DeniedNow(list[p], killed)
  /\ pos' = p
  /\ snap' = Snapshot(list[p])
  /\ touched' = {} /\ unseen' = {}
  /\ doing' = "call"
  /\ UNCHANGED <<repoVars, list, savedVars, modeVars, done, reply, patch,
                 excused, crashes>>

AgentEdits(f) ==
  /\ doing = "call"
  /\ disk' = [disk EXCEPT ![f] = EditedBy(@, list[pos])]
  /\ touched' = touched \cup {f}
  /\ UNCHANGED <<added, list, savedVars, modeVars, doing, pos, done, snap,
                 reply, patch, unseen, excused, crashes>>

(* The call raises: it timed out, was refused, ran out of turns.  A        *)
(* warning is printed and the finding is not counted.                      *)
AgentFails ==
  /\ doing = "call"
  /\ excused' = excused \cup touched
  /\ GoOn
  /\ UNCHANGED <<repoVars, list, savedVars, modeVars, done, crashes>>

-----------------------------------------------------------------------------
(* Diffs.                                                                  *)

(* What HEAD has, if there is git.                                         *)
Committed == Existing \ ignored

(* changed_files_whole_tree, the harness's own artefacts left out: what    *)
(* differs from HEAD or is not in it, but no file that git ignores.        *)
GitStatus ==
  IF ~git THEN {}
  ELSE {f \in File \ ignored : IF f \in Committed THEN disk[f] # Head
                               ELSE disk[f].kind # "gone" \/ f \in added}

(* `git add -N`, which fails altogether over a path that is nowhere, and   *)
(* leaves out those that are ignored.                                      *)
AddIntent(paths) ==
  IF git /\ \A f \in paths : f \in Committed \cup added \/ disk[f].kind # "gone"
  THEN added \cup (paths \ (Committed \cup ignored)) ELSE added

(* capture_git_diff *)
GitDiff(paths) ==
  IF ~git THEN {}
  ELSE {f \in paths : f \in AddIntent(paths) \/ (f \in Committed /\ disk[f] # Head)}

(* An empty text and a missing file read the same.                         *)
Lines(c) == IF c.kind = "text" THEN c.edits \cup {NoRow} ELSE {}

(* synth_unified_diff *)
SynthDiff(paths) ==
  {f \in paths \cup {g \in File : snap[g] # NotTaken} :
     f \notin Binary /\ Lines(disk[f]) # Lines(snap[f])}

Diff(paths) == IF GitDiff(paths) # {} THEN GitDiff(paths) ELSE SynthDiff(paths)

-----------------------------------------------------------------------------
(* The gate after the call, the artefacts, the checkpoint.                 *)

(* How git takes the artefacts of the harness: it knows of none, lists     *)
(* them as changed, or also shows them in the diff (where `git add -N`     *)
(* does not fail).                                                         *)
Artefacts == IF git THEN {"none", "listed", "diffed"} ELSE {"none"}

(* A bug that could be: the gate believes the agent.                       *)
BugCandidates(said, own) == said

(* What may have changed: said, diffed, listed by git; and if that lists   *)
(* nothing at all, whatever forbidden file is there.  The snapshot is      *)
(* looked at only when git shows no difference.                            *)
Candidates(said, own) ==
  LET scope == said \cup GitStatus
      diff == IF own = "diffed" THEN GitDiff(scope) ELSE Diff(scope)
      scan == IF GitStatus = {} /\ own = "none" THEN ForbiddenHere ELSE {}
  IN diff \cup scope \cup scan

(* So an ignored file goes unnoticed if the agent does not mention it and  *)
(* git lists anything else.                                                *)
Unseen(said, own) ==
  IF GitStatus # {} \/ own # "none" THEN (touched \cap ignored) \ said ELSE {}

FromGit(f, said) ==
  IF ~git THEN disk[f]
  ELSE IF f \in Committed THEN Head
  ELSE IF f \in AddIntent(said \cup GitStatus) THEN Blank ELSE Gone

(* A bug that could be: git is asked before the snapshot.                  *)
BugRestored(f, said) ==
  IF git \/ snap[f] = NotTaken THEN FromGit(f, said) ELSE snap[f]

(* revert_files: the snapshot, else git (an index entry without content    *)
(* checks out an empty file), else nothing.                                *)
Restored(f, said) ==
  IF snap[f] # NotTaken THEN snap[f] ELSE FromGit(f, said)

(* A bug that could be: only what the agent said is held against it.       *)
BugJudged(answer, bad) ==
  IF answer.claim = "fixed" /\ bad \cap answer.changes # {} THEN "review"
  ELSE answer.claim

Judged(answer, bad) ==
  IF answer.claim = "fixed" /\ bad # {} THEN "review" ELSE answer.claim

(* A bug that could be: the list of changes stays as the agent wrote it.   *)
BugStripped(said, bad) == said

Stripped(said, bad) == said \ bad

(* enforce_post, for the answer of the agent.                              *)
PostGate(answer) ==
  /\ \E own \in Artefacts :
       LET bad == Candidates(answer.changes, own) \cap Forbidden IN
       /\ disk' = [f \in File |-> IF f \in bad THEN Restored(f, answer.changes)
                                 ELSE disk[f]]
       /\ reply' = [claim |-> Judged(answer, bad),
                    changes |-> Stripped(answer.changes, bad)]
       /\ unseen' = Unseen(answer.changes, own)
       /\ excused' = excused \cup unseen'
  /\ added' = AddIntent(answer.changes \cup GitStatus)

(* The agent answers with a verdict and the files it says it changed,      *)
(* which need not be those it did change.                                  *)
AgentAnswers ==
  /\ doing = "call"
  /\ \E answer \in [claim: Claims, changes: SUBSET File] :
       IF Enforce THEN PostGate(answer)
       ELSE reply' = answer /\ UNCHANGED <<repoVars, unseen, excused>>
  /\ doing' = "write"
  /\ UNCHANGED <<list, savedVars, modeVars, pos, done, snap, patch, touched, crashes>>

(* write_verdict: diff.patch and remediate_report.json.                    *)
WriteReport ==
  /\ doing = "write"
  /\ patch' = Diff(reply.changes)
  /\ added' = AddIntent(reply.changes)
  /\ reports' = reports \cup {<<pos, list[pos]>>}
  /\ doing' = "save"
  /\ UNCHANGED <<disk, list, rows, modeVars, pos, done, snap, reply, touched, unseen,
                 excused, crashes>>

(* It cannot be written: the finding is not counted.                       *)
WriteFails ==
  /\ doing = "write"
  /\ added' = AddIntent(reply.changes)
  /\ GoOn
  /\ UNCHANGED <<disk, list, savedVars, modeVars, done, excused, crashes>>

SaveRow ==
  /\ doing = "save"
  /\ rows' = [rows EXCEPT ![pos] = IF menu THEN Anonymous ELSE list[pos]]
  /\ done' = done \cup {pos}
  /\ GoOn
  /\ UNCHANGED <<repoVars, list, reports, modeVars, excused, crashes>>

(* The process dies, or Ctrl-C, which no handler here catches.             *)
Crash ==
  /\ doing # "off" /\ crashes < MaxCrashes
  /\ crashes' = crashes + 1
  /\ Leave
  /\ excused' = IF doing = "call" THEN excused \cup touched ELSE excused
  /\ UNCHANGED <<git, ignored, repoVars, list, savedVars, sessions>>

Rest ==
  /\ doing = "off" /\ sessions = MaxSessions
  /\ UNCHANGED vars

Next ==
  \/ Rescan
  \/ \E f \in File : UserEdits(f) \/ AgentEdits(f)
  \/ StartSession \/ EndSession
  \/ Skip
  \/ \E p \in Position : PreDeny(p) \/ CallModel(p)
  \/ AgentAnswers \/ AgentFails
  \/ WriteReport \/ WriteFails
  \/ SaveRow
  \/ Crash
  \/ Rest

Spec == Init /\ [][Next]_vars

-----------------------------------------------------------------------------
(* Properties.                                                             *)

ByAgents(f) == disk[f].edits \ {User}

(* Once the post-gate ran, no edit of any agent is left in a forbidden     *)
(* file, said or unsaid, whatever the user changed and git knows.  Three   *)
(* exceptions: files edited by a call that raised or was cut off, which no *)
(* gate sees (runner.py:109); new files outside git, which the gate has no *)
(* baseline for (revert.py:79); and files that git ignores, edited without *)
(* a word while git lists something else (postgate.py:140, where git's     *)
(* list is called authoritative).                                          *)
ForbiddenKept ==
  Enforce /\ doing # "call" =>
    \A f \in Forbidden \ excused : (git \/ f \in Existing) => ByAgents(f) = {}

(* A finding reported as fixed and awaiting its validation comes from a    *)
(* call that edited no forbidden file, said or unsaid, reverted or not     *)
(* (postgate.py:188), but for ignored files as above.                      *)
ClaimIsClean ==
  Enforce /\ doing = "save" /\ StatusOf[reply.claim] = "awaiting_validation"
    => touched \cap Forbidden \subseteq unseen

(* The diff and the list of changes in a report show no forbidden file:    *)
(* what the gate took back is not offered for review (postgate.py:120).    *)
(* Only an ignored file that escaped the gate may turn up in the diff, by  *)
(* way of the snapshot.                                                    *)
PatchIsClean ==
  Enforce /\ doing = "save" =>
    /\ reply.changes \cap Forbidden = {}
    /\ patch \cap Forbidden \subseteq unseen

(* Whatever a session counts as processed, skips included, has a report of *)
(* its own in the artefacts, after any reordering by new scans, crash and  *)
(* menu session before it (runner.py:48-59).                               *)
SkipsAreDone ==
  doing # "off" => \A p \in done : <<p, list[p]>> \in reports

Undone == IF doing = "call" THEN {list[pos]} ELSE {}

(* No step takes the edits of the user or of another finding's agent out   *)
(* of a file: a revert undoes the present call only (revert.py:75).        *)
OthersEditsKept ==
  [][\A f \in File : disk[f].edits \ Undone \subseteq disk'[f].edits]_vars

(* What a comment promises (revert.py:71): the gate brings files to their  *)
(* state before the call, so those the agent did not touch stay as they    *)
(* are.                                                                    *)
UntouchedStay ==
  [][doing = "call" => \A f \in File \ touched' : disk'[f] = disk[f]]_vars
=============================================================================
