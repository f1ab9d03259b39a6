------------------------- MODULE Remediation_proofs -------------------------
(***************************************************************************)
(* Proofs about Remediation, for every number of findings, sessions and    *)
(* crashes, any files and any policy.                                      *)
(*                                                                         *)
(* What an agent touched is different from what git knows, and where git   *)
(* lists nothing, or there is none, the gate looks at every forbidden      *)
(* file; so a forbidden file that was touched is among the candidates,     *)
(* unless git ignores it and lists others, and the agent is silent.  The   *)
(* snapshot it is restored from is the file as it was before the call; and *)
(* the same snapshot is why a revert takes nobody else's edits along.      *)
(***************************************************************************)
EXTENDS Remediation, TLAPS

(* Rows and counted positions have reports.                                *)
ReportShape ==
  /\ \A p \in Position : rows[p] \in Finding => <<p, rows[p]>> \in reports
  /\ doing = "save" => <<pos, list[pos]>> \in reports
  /\ \A p \in done : <<p, list[p]>> \in reports
  /\ doing = "off" => done = {}

(* During a call: what was touched shows it, the rest is as it was noted.  *)
CallShape ==
  doing = "call" =>
    /\ \A f \in touched : disk[f].kind = "text" /\ list[pos] \in disk[f].edits
    /\ \A f \in File \ touched : snap[f] \in {NotTaken, ReadAsText(f)}

(* After it, with the gate: no claim over a touched forbidden file, and    *)
(* nothing of one for the diff to show, but for what it had no way to see. *)
GateShape ==
  Enforce /\ doing \in {"write", "save"} =>
    /\ reply.claim = "fixed" => touched \cap Forbidden \subseteq unseen
    /\ reply.changes \cap Forbidden = {}
    /\ \A f \in Forbidden \ (Binary \cup unseen) :
         snap[f] # NotTaken => Lines(disk[f]) = Lines(snap[f])
    /\ doing = "save" => patch \cap Forbidden \subseteq unseen

IInv == TypeOK /\ ReportShape /\ CallShape /\ GateShape

(* With the gate, and if the forbidden files of the repository are text:   *)
(* they never go away, and a forbidden file and its snapshot are free of   *)
(* agents' edits, unless the present call touched it or a former one did   *)
(* and was lost or not seen.                                               *)
KeptShape ==
  /\ \A f \in Forbidden \cap Existing : disk[f].kind # "gone" /\ snap[f].kind # "gone"
  /\ doing = "call" => \A f \in Forbidden \cap Existing : snap[f] # NotTaken
  /\ \A f \in Forbidden \ excused : git \/ f \in Existing =>
       /\ doing # "call" \/ f \notin touched => disk[f].edits \subseteq {User}
       /\ snap[f].edits \subseteq {User}

-----------------------------------------------------------------------------
(* Positions, findings and contents are what they seem.                    *)
LEMMA Kinds ==
  /\ NumFindings \in Nat \ {0} /\ Position = Finding
  /\ Gone \in Content /\ Blank \in Content /\ Head \in Content
  /\ NotTaken \notin Content
  /\ NoRow \notin Finding /\ Anonymous \notin Finding
  /\ \A c \in Content, who \in Editor : EditedBy(c, who) \in Content
  BY RemediationAssumption
  DEF Position, Finding, Gone, Blank, Head, NotTaken, Content, NoRow, Anonymous,
      EditedBy, Editor

(* What a restored file holds.                                             *)
LEMMA RestoredType ==
  ASSUME TypeOK, NEW f \in File, NEW said \in SUBSET File
  PROVE  Restored(f, said) \in Content
  BY Kinds DEF TypeOK, Restored, FromGit

(* The files of a diff, the entries of the index.                          *)
LEMMA PathsType ==
  ASSUME TypeOK, NEW paths \in SUBSET File
  PROVE  AddIntent(paths) \subseteq File /\ Diff(paths) \subseteq File
         /\ GitStatus \subseteq File
  <1>1. AddIntent(paths) \subseteq File
    BY DEF TypeOK, AddIntent
  <1>2. GitDiff(paths) \subseteq File /\ SynthDiff(paths) \subseteq File
    BY DEF GitDiff, SynthDiff
  <1>3. GitStatus \subseteq File
    BY DEF GitStatus
  <1> QED BY <1>1, <1>2, <1>3 DEF Diff

-----------------------------------------------------------------------------
(* Type correctness.                                                       *)
LEMMA TypeInit == Init => TypeOK
<1> SUFFICES ASSUME Init PROVE TypeOK
  OBVIOUS
<1>1. disk \in [File -> Content] /\ snap \in [File -> Content \cup {NotTaken}]
  BY Kinds DEF Init, NoSnapshot
<1>2. reply \in [claim: Claims, changes: SUBSET File]
  BY DEF Init, NoReply, Claims
<1>3. list \in [Position -> Finding]
      /\ rows \in [Position -> Finding \cup {NoRow, Anonymous}]
  BY RemediationAssumption DEF Init
<1>4. menu \in BOOLEAN /\ resume \in BOOLEAN
  BY Zenon DEF Init
<1>5. pos \in 1..NumFindings + 1
      /\ sessions \in 0..MaxSessions /\ crashes \in 0..MaxCrashes
  BY RemediationAssumption DEF Init
<1>6. git \in BOOLEAN /\ doing = "off"
      /\ added = {} /\ reports = {} /\ done = {} /\ patch = {} /\ touched = {}
      /\ unseen = {} /\ excused = {} /\ ignored \subseteq Ignorable
  BY DEF Init
<1> QED BY <1>1, <1>2, <1>3, <1>4, <1>5, <1>6 DEF TypeOK

LEMMA TypeStep == TypeOK /\ [Next]_vars => TypeOK'
<1> SUFFICES ASSUME TypeOK, [Next]_vars PROVE TypeOK'
  OBVIOUS
<1>0. NoSnapshot \in [File -> Content \cup {NotTaken}]
      /\ NoReply \in [claim: Claims, changes: SUBSET File]
  BY DEF NoSnapshot, NoReply, Claims
<1>1. CASE Rescan
  BY RemediationAssumption, Kinds, <1>1 DEF TypeOK, Rescan
<1>2. ASSUME NEW f \in File, UserEdits(f) PROVE TypeOK'
  <2>1. EditedBy(disk[f], User) \in Content
    BY Kinds DEF TypeOK, Editor
  <2> QED BY <2>1, <1>2 DEF TypeOK, UserEdits
<1>3. ASSUME NEW f \in File, AgentEdits(f) PROVE TypeOK'
  <2>1. EditedBy(disk[f], list[pos]) \in Content
    BY Kinds, <1>3 DEF TypeOK, Editor, AgentEdits
  <2> QED BY <2>1, <1>3 DEF TypeOK, AgentEdits, savedVars, modeVars
<1>4. CASE StartSession
  BY RemediationAssumption, <1>4 DEF TypeOK, StartSession, repoVars, savedVars
<1>5. CASE EndSession
  <2>1. menu' \in BOOLEAN /\ resume' \in BOOLEAN
    BY Zenon, <1>5 DEF EndSession, Leave
  <2>2. pos' \in 1..NumFindings + 1
    BY RemediationAssumption, <1>5 DEF EndSession, Leave
  <2>3. doing' = "off" /\ done' = {} /\ Forget
    BY <1>5 DEF EndSession, Leave
  <2> QED
    BY <1>0, <2>1, <2>2, <2>3, <1>5 DEF TypeOK, EndSession, Forget, repoVars, savedVars
<1>6. CASE Skip
  BY RemediationAssumption, <1>0, <1>6
  DEF TypeOK, Skip, GoOn, Forget, repoVars, savedVars, modeVars, Position
<1>7. ASSUME NEW p \in Position, PreDeny(p) PROVE TypeOK'
  BY RemediationAssumption, <1>0, <1>7
  DEF TypeOK, PreDeny, repoVars, savedVars, modeVars, Position
<1>8. ASSUME NEW p \in Position, CallModel(p) PROVE TypeOK'
  <2>1. Snapshot(list[p]) \in [File -> Content \cup {NotTaken}]
    BY Kinds DEF TypeOK, Snapshot, ReadAsText
  <2> QED
    BY RemediationAssumption, <2>1, <1>8
    DEF TypeOK, CallModel, repoVars, savedVars, modeVars, Position
<1>9. CASE AgentAnswers
  <2>1. PICK answer \in [claim: Claims, changes: SUBSET File] :
          IF Enforce THEN PostGate(answer)
          ELSE reply' = answer /\ UNCHANGED <<repoVars, unseen, excused>>
    BY <1>9 DEF AgentAnswers
  <2>2. CASE ~Enforce
    BY <1>9, <2>1, <2>2 DEF TypeOK, AgentAnswers, repoVars, savedVars, modeVars
  <2>3. CASE Enforce
    <3>1. PICK own \in Artefacts :
            LET bad == Candidates(answer.changes, own) \cap Forbidden IN
            /\ disk' = [f \in File |-> IF f \in bad THEN Restored(f, answer.changes)
                                       ELSE disk[f]]
            /\ reply' = [claim |-> Judged(answer, bad),
                         changes |-> Stripped(answer.changes, bad)]
            /\ unseen' = Unseen(answer.changes, own) /\ excused' = excused \cup unseen'
      BY <2>1, <2>3 DEF PostGate
    <3>2. disk' \in [File -> Content]
      BY <3>1, RestoredType DEF TypeOK
    <3>3. reply' \in [claim: Claims, changes: SUBSET File]
      BY <3>1 DEF Judged, Stripped, Claims
    <3>4. added' \subseteq File
      BY <2>1, <2>3, PathsType DEF PostGate
    <3>5. unseen' \subseteq touched /\ excused' \subseteq File
      BY <3>1 DEF Unseen, TypeOK
    <3> QED
      BY <1>9, <3>2, <3>3, <3>4, <3>5 DEF TypeOK, AgentAnswers, savedVars, modeVars
  <2> QED BY <2>2, <2>3
<1>10. CASE AgentFails
  BY RemediationAssumption, <1>0, <1>10
  DEF TypeOK, AgentFails, GoOn, Forget, repoVars, savedVars, modeVars, Position
<1>11. CASE WriteReport
  <2>1. patch' \subseteq File /\ added' \subseteq File
    BY <1>11, PathsType DEF WriteReport, TypeOK
  <2> QED BY <1>11, <2>1 DEF TypeOK, WriteReport, modeVars
<1>12. CASE WriteFails
  <2>1. added' \subseteq File
    BY <1>12, PathsType DEF WriteFails, TypeOK
  <2> QED
    BY RemediationAssumption, <1>0, <1>12, <2>1
    DEF TypeOK, WriteFails, GoOn, Forget, savedVars, modeVars, Position
<1>13. CASE SaveRow
  <2>1. rows' \in [Position -> Finding \cup {NoRow, Anonymous}]
    <3> list[pos] \in Finding \/ doing # "save"
      BY DEF TypeOK
    <3> QED BY <1>13 DEF TypeOK, SaveRow
  <2>2. done' \subseteq Position
    BY <1>13 DEF TypeOK, SaveRow
  <2>3. pos' \in 1..NumFindings + 1
    BY RemediationAssumption, <1>13 DEF TypeOK, SaveRow, GoOn, Position
  <2> QED
    BY <1>0, <1>13, <2>1, <2>2, <2>3
    DEF TypeOK, SaveRow, GoOn, Forget, repoVars, modeVars
<1>14. CASE Crash
  <2>1. menu' \in BOOLEAN /\ resume' \in BOOLEAN
    BY Zenon, <1>14 DEF Crash, Leave
  <2>2. pos' \in 1..NumFindings + 1 /\ crashes' \in 0..MaxCrashes
    BY RemediationAssumption, <1>14 DEF Crash, Leave, TypeOK
  <2>3. doing' = "off" /\ done' = {} /\ Forget
    BY <1>14 DEF Crash, Leave
  <2> QED
    BY <1>0, <2>1, <2>2, <2>3, <1>14 DEF TypeOK, Crash, Forget, repoVars, savedVars
<1>15. CASE UNCHANGED vars
  BY <1>15 DEF TypeOK, vars
<1> QED
  BY <1>1, <1>2, <1>3, <1>4, <1>5, <1>6, <1>7, <1>8, <1>9, <1>10, <1>11, <1>12,
     <1>13, <1>14, <1>15 DEF Next, Rest

(* Every variable keeps its type, whatever the agents answer and edit.     *)
THEOREM TypeCorrect == Spec => []TypeOK
  BY TypeInit, TypeStep, PTL DEF Spec

-----------------------------------------------------------------------------
(* Reports: a row or a count is written after the report only, reports are *)
(* never taken away, and the list stays while a session runs.              *)
LEMMA ReportStep == TypeOK /\ ReportShape /\ [Next]_vars => ReportShape'
<1> SUFFICES ASSUME TypeOK, ReportShape, [Next]_vars PROVE ReportShape'
  OBVIOUS
<1>1. CASE Rescan
  <2>1. \A p \in Position : rows'[p] \in Finding => rows'[p] = rows[p]
    BY <1>1, Kinds DEF Rescan
  <2> QED BY <2>1, <1>1 DEF ReportShape, Rescan
<1>2. CASE \E f \in File : UserEdits(f) \/ AgentEdits(f)
  BY <1>2 DEF ReportShape, UserEdits, AgentEdits, savedVars
<1>3. CASE StartSession
  BY <1>3 DEF ReportShape, StartSession, savedVars
<1>4. CASE EndSession
  BY <1>4 DEF ReportShape, EndSession, Leave, savedVars
<1>5. CASE Skip
  <2>1. <<pos, list[pos]>> \in reports
    BY <1>5 DEF ReportShape, TypeOK, Skip, Cached
  <2> QED BY <2>1, <1>5 DEF ReportShape, Skip, GoOn, savedVars
<1>6. CASE \E p \in Position : PreDeny(p) \/ CallModel(p)
  BY <1>6 DEF ReportShape, PreDeny, CallModel, savedVars
<1>7. CASE AgentAnswers
  BY <1>7 DEF ReportShape, AgentAnswers, savedVars
<1>8. CASE AgentFails
  BY <1>8 DEF ReportShape, AgentFails, GoOn, savedVars
<1>9. CASE WriteReport
  BY <1>9 DEF ReportShape, WriteReport
<1>10. CASE WriteFails
  BY <1>10 DEF ReportShape, WriteFails, GoOn, savedVars
<1>11. CASE SaveRow
  <2>1. \A p \in Position : rows'[p] \in Finding =>
          rows'[p] = rows[p] \/ (p = pos /\ rows'[p] = list[pos])
    BY <1>11, Kinds DEF SaveRow, TypeOK
  <2> QED BY <2>1, <1>11 DEF ReportShape, SaveRow, GoOn
<1>12. CASE Crash
  BY <1>12 DEF ReportShape, Crash, Leave, savedVars
<1>13. CASE UNCHANGED vars
  BY <1>13 DEF ReportShape, vars
<1> QED
  BY <1>1, <1>2, <1>3, <1>4, <1>5, <1>6, <1>7, <1>8, <1>9, <1>10, <1>11, <1>12,
     <1>13 DEF Next, Rest

(* Edits show, and what is not edited stays as the snapshot has it.        *)
LEMMA CallStep == TypeOK /\ CallShape /\ [Next]_vars => CallShape'
<1> SUFFICES ASSUME TypeOK, CallShape, [Next]_vars PROVE CallShape'
  OBVIOUS
<1>1. ASSUME NEW f \in File, AgentEdits(f) PROVE CallShape'
  <2>1. /\ disk'[f] = EditedBy(disk[f], list[pos])
        /\ \A g \in File \ {f} : disk'[g] = disk[g]
    BY <1>1 DEF AgentEdits, TypeOK
  <2>2. disk'[f].kind = "text" /\ list[pos] \in disk'[f].edits
    BY <2>1 DEF EditedBy
  <2> QED
    BY <2>1, <2>2, <1>1 DEF CallShape, AgentEdits, ReadAsText, TypeOK
<1>2. ASSUME NEW p \in Position, CallModel(p) PROVE CallShape'
  BY <1>2 DEF CallShape, CallModel, Snapshot, ReadAsText, repoVars
<1>3. CASE doing' # "call"
  BY <1>3 DEF CallShape
<1>4. CASE UNCHANGED vars
  BY <1>4 DEF CallShape, ReadAsText, vars
<1>5. CASE Rescan \/ \E f \in File : UserEdits(f)
  BY <1>3, <1>5 DEF Rescan, UserEdits
<1> QED
  BY <1>1, <1>2, <1>3, <1>4, <1>5
  DEF Next, Rest, StartSession, EndSession, Skip, PreDeny, AgentAnswers, AgentFails,
      WriteReport, WriteFails, SaveRow, Crash, GoOn, Leave

-----------------------------------------------------------------------------
(* Whatever forbidden file the call touched is a candidate: git sees it,   *)
(* or lists nothing and the gate sees every forbidden file, or the agent   *)
(* mentions it.                                                            *)
LEMMA TouchedSeen ==
  ASSUME TypeOK, CallShape, doing = "call",
         NEW said \in SUBSET File, NEW own \in Artefacts,
         NEW f \in (touched \cap Forbidden) \ Unseen(said, own)
  PROVE  f \in Candidates(said, own)
<1>1. disk[f].kind = "text" /\ disk[f] # Head /\ f \in File
  BY DEF CallShape, Head, TypeOK
<1>2. CASE f \in said \cup GitStatus
  BY <1>2 DEF Candidates
<1>3. CASE GitStatus = {} /\ own = "none"
  BY <1>1, <1>3 DEF Candidates, ForbiddenHere
<1>4. CASE f \notin said \cup GitStatus /\ ~(GitStatus = {} /\ own = "none")
  <2>1. git /\ f \in ignored
    BY <1>1, <1>4 DEF GitStatus, Artefacts
  <2> QED BY <1>4, <2>1 DEF Unseen
<1> QED BY <1>2, <1>3, <1>4

(* What the gate leaves behind.                                            *)
LEMMA GateStep == TypeOK /\ CallShape /\ GateShape /\ [Next]_vars => GateShape'
<1> SUFFICES ASSUME TypeOK, CallShape, GateShape, [Next]_vars, Enforce,
                    doing' \in {"write", "save"}
             PROVE  GateShape'
  BY DEF GateShape
<1>1. ASSUME NEW p \in Position, PreDeny(p) PROVE GateShape'
  BY <1>1, RemediationAssumption DEF GateShape, PreDeny, NoReply, NoSnapshot
<1>2. CASE AgentAnswers
  <2>1. PICK answer \in [claim: Claims, changes: SUBSET File], own \in Artefacts :
          LET bad == Candidates(answer.changes, own) \cap Forbidden IN
          /\ disk' = [f \in File |-> IF f \in bad THEN Restored(f, answer.changes)
                                     ELSE disk[f]]
          /\ reply' = [claim |-> Judged(answer, bad),
                       changes |-> Stripped(answer.changes, bad)]
          /\ unseen' = Unseen(answer.changes, own)
    BY <1>2 DEF AgentAnswers, PostGate
  <2> DEFINE bad == Candidates(answer.changes, own) \cap Forbidden
  <2>2. (touched \cap Forbidden) \ unseen' \subseteq bad
    BY <1>2, <2>1, TouchedSeen DEF AgentAnswers
  <2>3. reply'.claim = "fixed" => touched \cap Forbidden \subseteq unseen'
    BY <2>1, <2>2 DEF Judged
  <2>4. reply'.changes \cap Forbidden = {}
    BY <2>1 DEF Stripped, Candidates
  <2>5. ASSUME NEW f \in Forbidden \ (Binary \cup unseen'), snap[f] # NotTaken
        PROVE  disk'[f] = snap[f]
    <3>1. f \in File
      BY RemediationAssumption
    <3>2. CASE f \in bad
      BY <2>1, <2>5, <3>1, <3>2 DEF Restored
    <3>3. CASE f \notin bad
      <4>1. snap[f] = disk[f]
        BY <1>2, <2>2, <2>5, <3>1, <3>3 DEF CallShape, AgentAnswers, ReadAsText
      <4> QED BY <2>1, <3>1, <3>3, <4>1
    <3> QED BY <3>2, <3>3
  <2> QED BY <1>2, <2>3, <2>4, <2>5 DEF GateShape, AgentAnswers
<1>3. CASE WriteReport
  <2>1. Diff(reply.changes) \cap Forbidden \subseteq unseen
    <3>1. GitDiff(reply.changes) \cap Forbidden = {}
      BY <1>3 DEF GitDiff, GateShape, WriteReport
    <3>2. SynthDiff(reply.changes) \cap Forbidden \subseteq unseen
      BY <1>3 DEF SynthDiff, GateShape, WriteReport
    <3> QED BY <3>1, <3>2 DEF Diff
  <2> QED BY <1>3, <2>1 DEF GateShape, WriteReport
<1>4. CASE Rescan \/ \E f \in File : UserEdits(f) \/ AgentEdits(f)
  BY <1>4 DEF Rescan, UserEdits, AgentEdits
<1>5. CASE UNCHANGED vars
  BY <1>5 DEF GateShape, vars, Lines
<1> QED
  BY <1>1, <1>2, <1>3, <1>4, <1>5
  DEF Next, Rest, StartSession, EndSession, Skip, CallModel, AgentFails, WriteFails,
      SaveRow, Crash, GoOn, Leave

(* The invariant.                                                          *)
LEMMA Inductive == Spec => []IInv
<1>1. Init => IInv
  BY TypeInit, Kinds DEF Init, IInv, ReportShape, CallShape, GateShape
<1>2. IInv /\ [Next]_vars => IInv'
  BY TypeStep, ReportStep, CallStep, GateStep DEF IInv
<1> QED BY <1>1, <1>2, PTL DEF Spec

(* Whatever a session counts as processed has a report of its own.         *)
THEOREM ReportsStand == Spec => []SkipsAreDone
<1>1. IInv => SkipsAreDone
  BY DEF IInv, ReportShape, SkipsAreDone
<1> QED BY <1>1, Inductive, PTL

(* No fix is claimed over a touched forbidden file, said or unsaid, unless *)
(* git ignores it, lists others and the agent does not mention it          *)
(* (enforce_post, changed_files_whole_tree).                               *)
THEOREM ClaimsAreClean == Spec => []ClaimIsClean
<1>1. IInv => ClaimIsClean
  <2> SUFFICES ASSUME IInv, Enforce, doing = "save",
                      StatusOf[reply.claim] = "awaiting_validation"
               PROVE  reply.claim = "fixed"
    BY DEF IInv, GateShape, ClaimIsClean
  <2>1. reply.claim \in {"fixed", "false positive", "review", "denied"}
    BY DEF IInv, TypeOK, Claims
  <2> QED BY <2>1 DEF StatusOf, Claims
<1> QED BY <1>1, Inductive, PTL

(* No report lists a forbidden file as changed, and none shows one in its  *)
(* diff but an ignored one that escaped the gate (enforce_post,            *)
(* write_verdict).                                                         *)
THEOREM PatchesAreClean == Spec => []PatchIsClean
<1>1. IInv => PatchIsClean
  BY DEF IInv, GateShape, PatchIsClean
<1> QED BY <1>1, Inductive, PTL

-----------------------------------------------------------------------------
(* What a restored file is free of.                                        *)
LEMMA RestoredClean ==
  ASSUME TypeOK, KeptShape, doing = "call", NEW said \in SUBSET File, NEW f \in File
  PROVE  /\ f \in Forbidden \cap Existing => Restored(f, said).kind # "gone"
         /\ f \in Forbidden \ excused /\ (git \/ f \in Existing) =>
              Restored(f, said).edits \subseteq {User}
<1>1. Head.kind # "gone" /\ Head.edits = {} /\ Blank.edits = {} /\ Gone.edits = {}
  BY DEF Head, Blank, Gone
<1>2. f \in Forbidden \cap Existing => Restored(f, said).kind # "gone"
  BY <1>1 DEF Restored, FromGit, KeptShape
<1>3. ASSUME f \in Forbidden \ excused, git \/ f \in Existing
      PROVE  Restored(f, said).edits \subseteq {User}
  <2>1. CASE snap[f] # NotTaken
    BY <1>3, <2>1 DEF Restored, KeptShape
  <2>2. CASE snap[f] = NotTaken
    <3>1. git
      BY <1>3, <2>2 DEF KeptShape
    <3> QED BY <1>1, <2>2, <3>1 DEF Restored, FromGit
  <2> QED BY <2>1, <2>2
<1> QED BY <1>2, <1>3

(* The gate leaves nothing of the call in a forbidden file.                *)
LEMMA KeptStep ==
  ASSUME Enforce, Forbidden \cap Existing \cap Binary = {},
         TypeOK, CallShape, KeptShape, [Next]_vars
  PROVE  KeptShape'
<1>0. /\ Existing \subseteq File /\ Forbidden \subseteq File
      /\ \A f \in File : NoSnapshot[f].kind # "gone" /\ NoSnapshot[f].edits = {}
  BY RemediationAssumption DEF NoSnapshot, NotTaken
<1>1. CASE Rescan
  BY <1>1 DEF KeptShape, Rescan
<1>2. ASSUME NEW f \in File, UserEdits(f) PROVE KeptShape'
  <2>1. /\ disk'[f].kind = "text" /\ disk'[f].edits = disk[f].edits \cup {User}
        /\ \A g \in File \ {f} : disk'[g] = disk[g]
    BY <1>2 DEF UserEdits, TypeOK, EditedBy
  <2> QED BY <1>0, <1>2, <2>1 DEF KeptShape, UserEdits
<1>3. ASSUME NEW f \in File, AgentEdits(f) PROVE KeptShape'
  <2>1. disk'[f].kind = "text" /\ \A g \in File \ {f} : disk'[g] = disk[g]
    BY <1>3 DEF AgentEdits, TypeOK, EditedBy
  <2> QED BY <1>0, <1>3, <2>1 DEF KeptShape, AgentEdits, modeVars
<1>4. CASE StartSession
  BY <1>4 DEF KeptShape, StartSession, repoVars
<1>5. CASE EndSession \/ Skip \/ WriteFails \/ SaveRow
  BY <1>0, <1>5
  DEF KeptShape, EndSession, Skip, WriteFails, SaveRow, GoOn, Leave, Forget, repoVars,
      modeVars
<1>6. CASE AgentFails \/ Crash
  BY <1>0, <1>6
  DEF KeptShape, AgentFails, Crash, GoOn, Leave, Forget, repoVars, modeVars
<1>7. ASSUME NEW p \in Position, PreDeny(p) PROVE KeptShape'
  BY <1>0, <1>7 DEF KeptShape, PreDeny, TakesUp, repoVars, modeVars
<1>8. ASSUME NEW p \in Position, CallModel(p) PROVE KeptShape'
  <2>1. \A f \in File : snap'[f] \in {NotTaken, Gone, disk[f]}
    BY <1>8 DEF CallModel, Snapshot, ReadAsText
  <2>2. \A f \in Forbidden \cap Existing : snap'[f] = disk[f] /\ disk[f] # NotTaken
    <3>1. \A f \in Forbidden \cap Existing : snap'[f] = disk[f]
      BY <1>0, <1>8 DEF CallModel, Snapshot, ReadAsText, ForbiddenHere, KeptShape
    <3> QED BY <1>0, <3>1, Kinds DEF TypeOK
  <2>3. NotTaken.kind # "gone" /\ NotTaken.edits = {} /\ Gone.edits = {}
    BY DEF NotTaken, Gone
  <2> QED
    BY <1>0, <1>8, <2>1, <2>2, <2>3 DEF KeptShape, CallModel, TakesUp, repoVars, modeVars
<1>9. CASE AgentAnswers
  <2>1. PICK answer \in [claim: Claims, changes: SUBSET File], own \in Artefacts :
          /\ disk' = [f \in File |->
                        IF f \in Candidates(answer.changes, own) \cap Forbidden
                        THEN Restored(f, answer.changes) ELSE disk[f]]
          /\ excused' = excused \cup Unseen(answer.changes, own)
    BY <1>9 DEF AgentAnswers, PostGate
  <2>2. \A f \in Forbidden \cap Existing : disk'[f].kind # "gone"
    BY <1>0, <1>9, <2>1, RestoredClean DEF AgentAnswers, KeptShape
  <2>3. ASSUME NEW f \in Forbidden \ excused', git \/ f \in Existing
        PROVE  disk'[f].edits \subseteq {User}
    <3>1. CASE f \in Candidates(answer.changes, own)
      BY <1>0, <1>9, <2>1, <2>3, <3>1, RestoredClean DEF AgentAnswers
    <3>2. CASE f \notin Candidates(answer.changes, own)
      <4>1. f \notin touched
        BY <1>9, <2>1, <2>3, <3>2, TouchedSeen DEF AgentAnswers
      <4> QED BY <1>0, <2>1, <2>3, <3>2, <4>1 DEF KeptShape
    <3> QED BY <3>1, <3>2
  <2> QED BY <1>9, <2>1, <2>2, <2>3 DEF KeptShape, AgentAnswers, modeVars
<1>10. CASE WriteReport
  BY <1>10 DEF KeptShape, WriteReport, modeVars
<1>11. CASE UNCHANGED vars
  BY <1>11 DEF KeptShape, vars
<1> QED
  BY <1>1, <1>2, <1>3, <1>4, <1>5, <1>6, <1>7, <1>8, <1>9, <1>10, <1>11 DEF Next, Rest

(* If the forbidden files of the repository are text, no edit of an agent  *)
(* stays in a forbidden file once the gate ran, but for the three named    *)
(* exceptions: a call that did not return, a new file outside git, an      *)
(* ignored file that nobody mentions (enforce_post, revert_files).         *)
THEOREM ForbiddenStays ==
  ASSUME Forbidden \cap Existing \cap Binary = {}
  PROVE  Spec => []ForbiddenKept
<1>1. Init => KeptShape
  BY RemediationAssumption DEF Init, KeptShape, Head, Gone, NoSnapshot, NotTaken
<1>2. IInv /\ (Enforce => KeptShape) /\ [Next]_vars => (Enforce => KeptShape)'
  BY KeptStep DEF IInv
<1>3. (Enforce => KeptShape) => ForbiddenKept
  BY DEF KeptShape, ForbiddenKept, ByAgents
<1>4. Init => (Enforce => KeptShape)
  BY <1>1
<1> QED BY <1>2, <1>3, <1>4, Inductive, PTL DEF Spec

-----------------------------------------------------------------------------
(* What a revert may undo.                                                 *)

(* A missing file holds nobody's edits.  During a call, what a forbidden   *)
(* file holds beyond its snapshot is the present agent's; one that is not  *)
(* in the snapshot was missing when the call began.                        *)
UndoShape ==
  /\ \A f \in File : /\ disk[f].kind = "gone" => disk[f].edits = {}
                     /\ snap[f].kind = "gone" => snap[f].edits = {}
  /\ Enforce /\ doing = "call" =>
       \A f \in Forbidden :
         disk[f].edits \ {list[pos]} \subseteq (IF snap[f] = NotTaken THEN {} ELSE snap[f].edits)

(* What a file is restored to holds all edits but the present agent's.     *)
LEMMA RestoredKeeps ==
  ASSUME Enforce, doing = "call", UndoShape, NEW f \in Forbidden, NEW said
  PROVE  disk[f].edits \ {list[pos]} \subseteq Restored(f, said).edits
<1>1. CASE snap[f] = NotTaken
  BY <1>1 DEF UndoShape
<1>2. CASE snap[f] # NotTaken
  BY <1>2 DEF UndoShape, Restored
<1> QED BY <1>1, <1>2

(* Every step keeps the account, if every forbidden file is text.          *)
LEMMA UndoStep ==
  ASSUME Forbidden \cap Binary = {}, TypeOK, UndoShape, [Next]_vars
  PROVE  UndoShape'
<1>0. /\ Forbidden \subseteq File
      /\ \A f \in File : NoSnapshot[f] = NotTaken
      /\ NotTaken.kind # "gone" /\ Gone.edits = {} /\ Head.kind # "gone" /\ Blank.kind # "gone"
  BY RemediationAssumption DEF NoSnapshot, NotTaken, Gone, Head, Blank
<1>1. ASSUME UNCHANGED disk, snap' \in {snap, NoSnapshot}, doing' # "call" PROVE UndoShape'
  BY <1>0, <1>1 DEF UndoShape
<1>2. ASSUME NEW f \in File, UserEdits(f) PROVE UndoShape'
  <2>1. disk'[f].kind = "text" /\ \A g \in File \ {f} : disk'[g] = disk[g]
    BY <1>2 DEF UserEdits, TypeOK, EditedBy
  <2> QED BY <1>0, <1>2, <2>1 DEF UndoShape, UserEdits
<1>3. ASSUME NEW f \in File, AgentEdits(f) PROVE UndoShape'
  <2>1. /\ disk'[f].kind = "text" /\ disk'[f].edits = disk[f].edits \cup {list[pos]}
        /\ \A g \in File \ {f} : disk'[g] = disk[g]
        /\ UNCHANGED <<snap, doing, list, pos>>
    BY <1>3 DEF AgentEdits, TypeOK, EditedBy
  <2>2. \A g \in File : disk'[g].kind = "gone" => disk'[g].edits = {}
    BY <2>1 DEF UndoShape
  <2>3. \A g \in Forbidden : disk'[g].edits \ {list[pos]} = disk[g].edits \ {list[pos]}
    BY <1>0, <2>1
  <2> QED BY <2>1, <2>2, <2>3 DEF UndoShape
<1>4. ASSUME NEW p \in Position, CallModel(p) PROVE UndoShape'
  <2>1. /\ snap' = Snapshot(list[p]) /\ pos' = p /\ UNCHANGED <<disk, list>>
    BY <1>4 DEF CallModel, repoVars
  <2>2. \A f \in File : snap'[f] \in {NotTaken, Gone, disk[f]}
    BY <2>1 DEF Snapshot, ReadAsText
  <2>3. \A f \in File : snap'[f].kind = "gone" => snap'[f].edits = {}
    BY <1>0, <2>2 DEF UndoShape
  <2>4. ASSUME Enforce, NEW f \in Forbidden
        PROVE  \/ snap'[f] = disk[f] /\ disk[f] # NotTaken
               \/ disk[f].kind = "gone"
    <3>1. disk[f] # NotTaken
      BY <1>0, Kinds DEF TypeOK
    <3> QED BY <1>0, <2>1, <2>4, <3>1 DEF Snapshot, ReadAsText, ForbiddenHere
  <2> QED BY <1>0, <2>1, <2>3, <2>4 DEF UndoShape
<1>5. CASE AgentAnswers
  <2>1. /\ doing = "call" /\ doing' = "write" /\ UNCHANGED snap
        /\ \/ UNCHANGED disk
           \/ \E bad \in SUBSET File, said \in SUBSET File :
                disk' = [f \in File |-> IF f \in bad THEN Restored(f, said) ELSE disk[f]]
    <3>1. PICK answer \in [claim: Claims, changes: SUBSET File] :
            IF Enforce THEN PostGate(answer) ELSE UNCHANGED disk
      BY <1>5 DEF AgentAnswers, repoVars
    <3>2. ASSUME Enforce
          PROVE  \E bad \in SUBSET File, said \in SUBSET File :
                   disk' = [f \in File |-> IF f \in bad THEN Restored(f, said) ELSE disk[f]]
      <4>1. PICK own \in Artefacts :
              disk' = [f \in File |->
                         IF f \in Candidates(answer.changes, own) \cap Forbidden
                         THEN Restored(f, answer.changes) ELSE disk[f]]
        BY <3>1, <3>2 DEF PostGate
      <4>2. Candidates(answer.changes, own) \cap Forbidden \in SUBSET File
        BY <1>0
      <4> QED BY <4>1, <4>2
    <3> QED BY <1>5, <3>1, <3>2 DEF AgentAnswers
  <2>2. \A f \in File, said \in SUBSET File :
          Restored(f, said).kind = "gone" => Restored(f, said).edits = {}
    BY <1>0 DEF UndoShape, Restored, FromGit
  <2> QED BY <2>1, <2>2 DEF UndoShape
<1>6. CASE \/ Rescan \/ StartSession \/ EndSession \/ Skip \/ AgentFails \/ WriteReport
           \/ WriteFails \/ SaveRow \/ Crash \/ \E p \in Position : PreDeny(p)
  <2>1. UNCHANGED disk /\ snap' \in {snap, NoSnapshot} /\ doing' # "call"
    BY <1>6
    DEF Rescan, StartSession, EndSession, Skip, AgentFails, WriteReport, WriteFails,
        SaveRow, Crash, PreDeny, GoOn, Leave, Forget, repoVars
  <2> QED BY <1>1, <2>1
<1>7. CASE UNCHANGED vars
  BY <1>7 DEF UndoShape, vars
<1> QED
  BY <1>2, <1>3, <1>4, <1>5, <1>6, <1>7 DEF Next, Rest

(* If every forbidden file is text, a revert undoes the present call only: *)
(* no step takes the user's edits, or those of another finding's agent,    *)
(* out of a file (snapshot_files, revert_files).                           *)
THEOREM RevertsAreOwn ==
  ASSUME Forbidden \cap Binary = {}
  PROVE  Spec => OthersEditsKept
<1>1. Init => UndoShape
  BY RemediationAssumption DEF Init, UndoShape, Head, Gone, NoSnapshot, NotTaken
<1>2. TypeOK /\ UndoShape /\ [Next]_vars => UndoShape'
  BY UndoStep
<1>3. TypeOK /\ UndoShape /\ [Next]_vars =>
        \A f \in File : disk[f].edits \ Undone \subseteq disk'[f].edits
  <2> SUFFICES ASSUME TypeOK, UndoShape, [Next]_vars, NEW f \in File
               PROVE  disk[f].edits \ Undone \subseteq disk'[f].edits
    OBVIOUS
  <2>1. ASSUME NEW g \in File, UserEdits(g) \/ AgentEdits(g)
        PROVE  disk[f].edits \subseteq disk'[f].edits
    BY <2>1 DEF UserEdits, AgentEdits, TypeOK, EditedBy
  <2>2. CASE AgentAnswers /\ Enforce
    <3>1. PICK answer \in [claim: Claims, changes: SUBSET File], own \in Artefacts :
            disk' = [g \in File |->
                       IF g \in Candidates(answer.changes, own) \cap Forbidden
                       THEN Restored(g, answer.changes) ELSE disk[g]]
      BY <2>2 DEF AgentAnswers, PostGate
    <3>2. CASE f \in Candidates(answer.changes, own) \cap Forbidden
      BY <2>2, <3>1, <3>2, RestoredKeeps DEF AgentAnswers, Undone
    <3>3. CASE f \notin Candidates(answer.changes, own) \cap Forbidden
      BY <3>1, <3>3
    <3> QED BY <3>2, <3>3
  <2>3. CASE AgentAnswers /\ ~Enforce
    BY <2>3 DEF AgentAnswers, repoVars
  <2>4. CASE ~AgentAnswers /\ ~ \E g \in File : UserEdits(g) \/ AgentEdits(g)
    BY <2>4
    DEF Next, Rest, Rescan, StartSession, EndSession, Skip, PreDeny, CallModel, AgentFails,
        WriteReport, WriteFails, SaveRow, Crash, repoVars, vars
  <2> QED BY <2>1, <2>2, <2>3, <2>4
<1>4. TypeOK /\ UndoShape /\ [Next]_vars =>
        [\A f \in File : disk[f].edits \ Undone \subseteq disk'[f].edits]_vars
  BY <1>3
<1> QED BY <1>1, <1>2, <1>4, TypeCorrect, PTL DEF Spec, OthersEditsKept
=============================================================================
