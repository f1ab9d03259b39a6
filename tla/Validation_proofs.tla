--------------------------- MODULE Validation_proofs ---------------------------
(***************************************************************************)
(* S11 implements PatchLifecycle, its own result agrees with the DTO, and  *)
(* nothing becomes validated but by the gates of a session of this run: for*)
(* any findings, sessions, numbers of patches, runs and crashes.           *)
(***************************************************************************)
EXTENDS Validation, SequenceTheorems, FiniteSetTheorems, TLAPS

(* The fields of the run, which EXCEPT keeps; without a run there is       *)
(* nothing to do.                                                          *)
RunFields == DOMAIN run = DOMAIN Idle /\ (run.pc = "idle" => run.queue = <<>>)

(* S10 numbers its patches.                                                *)
PatchesCounted ==
  \A f \in Findings : IF dto[f] = None THEN patches[f] = 0 ELSE dto[f].patch = patches[f]

(* What a run has still to do is there and not rejected.                   *)
QueueOpen ==
  \A i \in DOMAIN run.queue : dto[run.queue[i]] # None /\ dto[run.queue[i]].status # "rejected"

(* A finding that is staged has its patch on disk.                         *)
StagedLanded ==
  run.pc \in {"staged", "heard"} /\ run.queue # <<>> => dto[Head(run.queue)].landed

(* The workspace that is scored holds what this session answered, and      *)
(* nothing of an earlier one.                                              *)
AnswerIsNew ==
  run.queue # <<>> =>
    /\ run.pc = "staged" => ws[Head(run.queue)] = Fresh
    /\ run.pc = "heard" /\ ~Failed(run.heard) =>
         ws[Head(run.queue)].answer =
           IF run.heard.answer = None THEN "nothing" ELSE run.heard.answer

IInv == /\ TypeOK /\ RunFields /\ DOMAIN ws = Findings
        /\ PatchesCounted /\ QueueOpen /\ StagedLanded /\ AnswerIsNew

-----------------------------------------------------------------------------
(* The head of what is left was in what there was, and so was the rest.    *)
LEMMA HeadAndTail ==
  ASSUME NEW q \in Seq(Findings), q # <<>>
  PROVE  /\ Head(q) \in Findings /\ Head(q) = q[1] /\ 1 \in DOMAIN q
         /\ Tail(q) \in Seq(Findings)
         /\ \A i \in DOMAIN Tail(q) : i + 1 \in DOMAIN q /\ Tail(q)[i] = q[i + 1]
  BY HeadTailProperties

LEMMA Initially == Init => IInv
  BY DEF Init, IInv, TypeOK, RunFields, PatchesCounted, QueueOpen, StagedLanded,
         AnswerIsNew, Idle

(* A step of the run that leaves DTOs alone and goes on to the next one.   *)
LEMMA GoingOn ==
  ASSUME IInv, run.queue # <<>>, UNCHANGED <<dto, patches>>, DOMAIN ws' = Findings,
         run'.pc = "next", run'.queue = Tail(run.queue), DOMAIN run' = DOMAIN run
  PROVE  IInv'
<1>1. run.queue \in Seq(Findings)
  BY DEF IInv, TypeOK
<1>2. QueueOpen'
  BY <1>1, HeadAndTail DEF IInv, QueueOpen
<1>3. TypeOK'
  BY <1>1, HeadAndTail DEF IInv, TypeOK
<1> QED BY <1>2, <1>3 DEF IInv, RunFields, PatchesCounted, StagedLanded, AnswerIsNew

(* A step that ends the run, or is between runs.                           *)
LEMMA Ending ==
  ASSUME IInv, UNCHANGED <<dto, patches>>, DOMAIN ws' = Findings, run' = Idle
  PROVE  IInv'
  BY DEF IInv, TypeOK, RunFields, PatchesCounted, QueueOpen, StagedLanded, AnswerIsNew, Idle

LEMMA RemediatedFields ==
  ASSUME NEW x \in Remediated
  PROVE  x.landed \in BOOLEAN /\ x.status \in {"awaiting_validation", "needs_review", "rejected"}
<1>1. CASE x = [status |-> "awaiting_validation", landed |-> TRUE]
  BY <1>1
<1>2. CASE x = [status |-> "needs_review", landed |-> TRUE]
  BY <1>2
<1>3. CASE x = [status |-> "needs_review", landed |-> FALSE]
  BY <1>3
<1>4. CASE x = [status |-> "rejected", landed |-> FALSE]
  BY <1>4
<1> QED BY <1>1, <1>2, <1>3, <1>4 DEF Remediated

(* What S10 leaves of the findings it works on.                            *)
PatchesWritten(worked, left) ==
  /\ patches' = [f \in Findings |-> patches[f] + IF f \in worked THEN 1 ELSE 0]
  /\ dto' = [f \in Findings |->
               IF f \in worked
               THEN [status |-> left[f].status, landed |-> left[f].landed,
                     patch |-> patches[f] + 1, judged |-> 0]
               ELSE dto[f]]

LEMMA RemediateStep == IInv /\ Remediate => IInv'
<1> SUFFICES ASSUME IInv, Remediate PROVE IInv'
  OBVIOUS
<1>1. PICK worked \in SUBSET Findings : \E left \in [worked -> Remediated] : PatchesWritten(worked, left)
  BY DEF Remediate, PatchesWritten
<1>0. PICK left \in [worked -> Remediated] : PatchesWritten(worked, left)
  BY <1>1
<1>2. run.queue = <<>> /\ UNCHANGED <<run, ws>>
  BY DEF Remediate, IInv, RunFields
<1>3. \A f \in worked : /\ dto'[f] \in Dtos /\ dto'[f].patch = patches'[f]
                        /\ patches'[f] \in Nat
  <2> SUFFICES ASSUME NEW f \in worked
               PROVE  dto'[f] \in Dtos /\ dto'[f].patch = patches'[f] /\ patches'[f] \in Nat
    OBVIOUS
  <2>1. /\ f \in Findings /\ patches[f] \in Nat /\ left[f] \in Remediated
        /\ patches'[f] = patches[f] + 1
    BY <1>0 DEF PatchesWritten, IInv, TypeOK
  <2>2. dto'[f] = [status |-> left[f].status, landed |-> left[f].landed,
                   patch |-> patches[f] + 1, judged |-> 0]
    BY <1>0, <2>1 DEF PatchesWritten
  <2>3. left[f].landed \in BOOLEAN
        /\ left[f].status \in {"awaiting_validation", "needs_review", "rejected"}
    BY <2>1, RemediatedFields
  <2>4. dto'[f] \in Dtos
    BY <2>1, <2>2, <2>3 DEF Dtos
  <2> QED BY <2>1, <2>2, <2>4
<1>4. \A f \in Findings \ worked : dto'[f] = dto[f] /\ patches'[f] = patches[f]
  BY <1>0 DEF PatchesWritten, IInv, TypeOK
<1>5. TypeOK'
  BY <1>0, <1>2, <1>3, <1>4 DEF PatchesWritten, IInv, TypeOK
<1>6. PatchesCounted'
  BY <1>3, <1>4, NoneAssumption DEF IInv, PatchesCounted
<1> QED BY <1>2, <1>5, <1>6 DEF IInv, RunFields, QueueOpen, StagedLanded, AnswerIsNew

LEMMA BeginStep == IInv /\ Begin => IInv'
<1> SUFFICES ASSUME IInv, Begin PROVE IInv'
  OBVIOUS
<1>1. PICK s \in Selections, resume \in BOOLEAN :
        run' = [Idle EXCEPT !.pc = "next", !.resume = resume, !.queue = s]
  BY DEF Begin
<1>2. s \in Seq(Findings) /\ \A i \in DOMAIN s : CanValidate(s[i])
  <2>1. PICK n \in 1..Cardinality(Findings) : s \in [1..n -> Findings]
    BY <1>1 DEF Selections
  <2>2. n \in Nat
    OBVIOUS
  <2> QED BY <1>1, <2>1, <2>2, SeqDef DEF Selections
<1>3. run'.pc = "next" /\ run'.queue = s /\ DOMAIN run' = DOMAIN Idle
  BY <1>1 DEF Idle
<1>4. QueueOpen'
  BY <1>2, <1>3 DEF QueueOpen, CanValidate, Validatable, Begin
<1> QED BY <1>2, <1>3, <1>4
      DEF Begin, IInv, TypeOK, RunFields, PatchesCounted, StagedLanded, AnswerIsNew

LEMMA NextOneStep ==
  ASSUME IInv, NEW f \in Findings, ResumeHit(f) \/ Refuse(f) \/ Save(f)
  PROVE  IInv'
<1>1. run.queue # <<>> /\ UNCHANGED <<dto, patches, ws>>
  BY DEF ResumeHit, Refuse, Save, At, Resumed, bounds
<1>2. /\ run'.pc = "next" /\ run'.queue = Tail(run.queue)
      /\ DOMAIN run' = DOMAIN run
  <2>1. DOMAIN run = {"pc", "resume", "queue", "order", "result", "heard"}
    BY DEF IInv, RunFields, Idle
  <2> QED BY <2>1 DEF ResumeHit, Refuse, Save, WithPair, At
<1> QED BY <1>1, <1>2, GoingOn DEF IInv

LEMMA StageStep == ASSUME IInv, NEW f \in Findings, Stage(f) PROVE IInv'
<1>1. DOMAIN run = {"pc", "resume", "queue", "order", "result", "heard"}
  BY DEF IInv, RunFields, Idle
<1>2. run'.pc = "staged" /\ run'.queue = run.queue /\ DOMAIN run' = DOMAIN run
  BY <1>1 DEF Stage
<1>3. f = Head(run.queue) /\ dto[f].landed /\ ws'[f] = Fresh /\ DOMAIN ws' = Findings
  BY DEF Stage, Applied, Current, Staged, IInv
<1>4. UNCHANGED <<dto, patches>>
  BY DEF Stage, bounds
<1>5. StagedLanded' /\ AnswerIsNew'
  BY <1>2, <1>3, <1>4 DEF StagedLanded, AnswerIsNew
<1> QED BY <1>2, <1>3, <1>4, <1>5 DEF IInv, TypeOK, RunFields, PatchesCounted, QueueOpen

LEMMA SessionStep == ASSUME IInv, NEW f \in Findings, Session(f) PROVE IInv'
<1>1. DOMAIN run = {"pc", "resume", "queue", "order", "result", "heard"}
  BY DEF IInv, RunFields, Idle
<1>2. PICK s \in Sessions[via] :
        /\ ws' = IF Failed(s) THEN ws ELSE [ws EXCEPT ![f] = Written(f, s)]
        /\ run' = [run EXCEPT !.pc = "heard", !.heard = s]
  BY DEF Session
<1>3. /\ run'.pc = "heard" /\ run'.queue = run.queue /\ run'.heard = s
      /\ DOMAIN run' = DOMAIN run
  BY <1>1, <1>2
<1>4. /\ f = Head(run.queue) /\ run.queue # <<>> /\ run.pc = "staged"
      /\ UNCHANGED <<dto, patches, via>>
  BY DEF Session, At, Current, bounds
<1>5. DOMAIN ws' = Findings
  BY <1>2 DEF IInv
<1>6. AnswerIsNew'
  <2>1. ws[f] = Fresh
    BY <1>4 DEF IInv, AnswerIsNew
  <2>2. CASE Failed(s)
    <3>1. Failed(s)'
      BY <2>2, <1>4 DEF Failed, HostSynthesizes
    <3> QED BY <3>1, <1>3 DEF AnswerIsNew
  <2>3. CASE ~Failed(s)
    <3>1. ws'[f] = Written(f, s)
      BY <2>3, <1>2 DEF IInv
    <3>2. Written(f, s).answer = IF s.answer = None THEN "nothing" ELSE s.answer
      BY <2>1 DEF Written, Fresh
    <3> QED BY <3>1, <3>2, <1>3, <1>4 DEF AnswerIsNew
  <2> QED BY <2>2, <2>3
<1>7. StagedLanded'
  BY <1>3, <1>4 DEF IInv, StagedLanded
<1> QED BY <1>3, <1>4, <1>5, <1>6, <1>7 DEF IInv, TypeOK, RunFields, PatchesCounted, QueueOpen

LEMMA WriteBackStep == ASSUME IInv, NEW f \in Findings, WriteBack(f) PROVE IInv'
<1>1. DOMAIN run = {"pc", "resume", "queue", "order", "result", "heard"}
  BY DEF IInv, RunFields, Idle
<1>2. run'.pc = "written" /\ run'.queue = run.queue /\ DOMAIN run' = DOMAIN run
  BY <1>1 DEF WriteBack
<1>3. dto[f] \in Dtos /\ dto[f] # None
  BY HeadAndTail DEF WriteBack, At, Current, IInv, TypeOK, QueueOpen
<1>4. /\ dto' = [dto EXCEPT ![f] = [dto[f] EXCEPT !.status = StatusOf(Verdict(f)),
                                                  !.judged = dto[f].patch]]
      /\ DOMAIN ws' = Findings /\ UNCHANGED patches
  BY DEF WriteBack, bounds, IInv
<1>5. StatusOf(Verdict(f)) \in {"needs_review", "validated", "validation_failed"}
  BY DEF StatusOf
<1>6. TypeOK'
  BY <1>2, <1>3, <1>4, <1>5 DEF IInv, TypeOK, Dtos
<1>7. /\ dto'[f] # None /\ dto'[f].status # "rejected" /\ dto'[f].patch = dto[f].patch
      /\ \A g \in Findings \ {f} : dto'[g] = dto[g]
  BY <1>3, <1>4, <1>5, NoneAssumption DEF IInv, TypeOK, Dtos
<1>8. PatchesCounted'
  BY <1>3, <1>4, <1>7 DEF IInv, PatchesCounted
<1>9. QueueOpen'
  <2>1. \A i \in DOMAIN run.queue : run.queue[i] \in Findings
    BY ElementOfSeq DEF IInv, TypeOK
  <2> QED BY <2>1, <1>2, <1>7 DEF IInv, QueueOpen
<1> QED BY <1>1, <1>2, <1>4, <1>6, <1>8, <1>9 DEF IInv, RunFields, StagedLanded, AnswerIsNew

LEMMA EndingStep ==
  ASSUME IInv, Finish \/ Crash \/ \E f \in Findings : StageFails(f) \/ NoBinary(f)
  PROVE  IInv'
  BY Ending DEF Finish, Crash, StageFails, NoBinary, IInv, bounds

LEMMA Step == IInv /\ [Next]_vars => IInv'
<1> SUFFICES ASSUME IInv, [Next]_vars PROVE IInv'
  OBVIOUS
<1>1. CASE Remediate
  BY <1>1, RemediateStep
<1>2. CASE Begin
  BY <1>2, BeginStep
<1>3. ASSUME NEW f \in Findings, Process(f) PROVE IInv'
  BY <1>3, NextOneStep, StageStep, SessionStep, WriteBackStep, EndingStep DEF Process
<1>4. CASE Finish \/ Crash
  BY <1>4, EndingStep
<1>5. CASE UNCHANGED vars
  BY <1>5 DEF vars, bounds, IInv, TypeOK, RunFields, PatchesCounted, QueueOpen,
              StagedLanded, AnswerIsNew, Failed, HostSynthesizes
<1> QED BY <1>1, <1>2, <1>3, <1>4, <1>5 DEF Next

THEOREM Inductive == Spec => []IInv
  BY Initially, Step, PTL DEF Spec
-----------------------------------------------------------------------------
(* Every step but S10's and the write-back leaves what is promised alone.  *)
LEMMA PatchStep ==
  ASSUME IInv, Remediate
  PROVE  \E worked \in SUBSET Findings : Lifecycle!Patch(worked)
<1>1. PICK worked \in SUBSET Findings : \E left \in [worked -> Remediated] : PatchesWritten(worked, left)
  BY DEF Remediate, PatchesWritten
<1>0. PICK left \in [worked -> Remediated] : PatchesWritten(worked, left)
  BY <1>1
<1> DEFINE landed == [f \in worked |-> left[f].landed]
           standing == [f \in worked |-> IF left[f].status = "rejected" THEN "rejected"
                                         ELSE "none"]
<1>2. landed \in [worked -> BOOLEAN] /\ standing \in [worked -> Lifecycle!FromS10]
  BY RemediatedFields DEF Lifecycle!FromS10
<1>3. ASSUME NEW f \in worked
      PROVE  Life'[f] = [patch |-> Life[f].patch + 1, landed |-> landed[f],
                         standing |-> standing[f]]
  <2>1. f \in Findings /\ patches[f] \in Nat /\ left[f] \in Remediated
    BY <1>3 DEF IInv, TypeOK
  <2>2. dto'[f] = [status |-> left[f].status, landed |-> left[f].landed,
                   patch |-> patches[f] + 1, judged |-> 0]
    BY <1>0, <2>1, <1>3 DEF PatchesWritten
  <2>3. dto'[f] \in Dtos
    <3>1. left[f].landed \in BOOLEAN
          /\ left[f].status \in {"awaiting_validation", "needs_review", "rejected"}
      BY <2>1, RemediatedFields
    <3> QED BY <2>1, <2>2, <3>1 DEF Dtos
  <2>4. Life[f].patch = patches[f]
    BY <2>1 DEF IInv, PatchesCounted, Life
  <2>5. Standing(f)' = standing[f]
    <3>1. left[f].status \in {"awaiting_validation", "needs_review", "rejected"}
      BY <2>1, RemediatedFields
    <3>2. /\ dto'[f].status = left[f].status /\ dto'[f].judged # dto'[f].patch
      BY <2>1, <2>2
    <3>3. Standing(f)' = IF left[f].status = "rejected" THEN "rejected" ELSE "none"
      BY <3>1, <3>2 DEF Standing
    <3> QED BY <1>3, <3>3
  <2>6. Life'[f] = [patch |-> dto'[f].patch, landed |-> dto'[f].landed,
                    standing |-> Standing(f)']
    BY <2>1, <2>3, NoneAssumption DEF Life
  <2> QED BY <1>3, <2>2, <2>4, <2>5, <2>6
<1>4. \A f \in Findings \ worked : Life'[f] = Life[f]
  BY <1>0 DEF PatchesWritten, Life, Standing
<1>5. Life' = [f \in Findings |->
                IF f \in worked
                THEN [patch |-> Life[f].patch + 1, landed |-> landed[f],
                      standing |-> standing[f]]
                ELSE Life[f]]
  <2> SUFFICES \A f \in Findings :
                 Life'[f] = IF f \in worked
                            THEN [patch |-> Life[f].patch + 1, landed |-> landed[f],
                                  standing |-> standing[f]]
                            ELSE Life[f]
    BY DEF Life
  <2> QED BY <1>3, <1>4
<1> QED BY <1>2, <1>5 DEF Lifecycle!Patch

LEMMA JudgeStep ==
  ASSUME IInv, NEW f \in Findings, WriteBack(f)
  PROVE  Lifecycle!Judge(f)
<1>1. dto[f] \in Dtos /\ dto[f] # None /\ dto[f].status # "rejected" /\ dto[f].landed
  BY HeadAndTail DEF WriteBack, At, Current, IInv, TypeOK, QueueOpen, StagedLanded
<1>2. dto' = [dto EXCEPT ![f] = [dto[f] EXCEPT !.status = StatusOf(Verdict(f)),
                                               !.judged = dto[f].patch]]
  BY DEF WriteBack
<1>3. StatusOf(Verdict(f)) \in {"needs_review", "validated", "validation_failed"}
  BY DEF StatusOf
<1>4. /\ dto'[f] = [dto[f] EXCEPT !.status = StatusOf(Verdict(f)), !.judged = dto[f].patch]
      /\ \A g \in Findings \ {f} : dto'[g] = dto[g]
  BY <1>2 DEF IInv, TypeOK
<1>5. /\ dto'[f] \in Dtos /\ dto'[f].patch = dto[f].patch /\ dto'[f].landed = dto[f].landed
      /\ dto'[f].judged = dto'[f].patch
      /\ dto'[f].status \in {"needs_review", "validated", "validation_failed"}
  BY <1>1, <1>3, <1>4 DEF Dtos
<1>6. Standing(f)' \in Lifecycle!Verdicts
  BY <1>5 DEF Standing, Lifecycle!Verdicts
<1>7. Life'[f] = [Life[f] EXCEPT !.standing = Standing(f)']
  <2>1. Life[f] = [patch |-> dto[f].patch, landed |-> dto[f].landed, standing |-> Standing(f)]
    BY <1>1 DEF Life
  <2>2. Life'[f] = [patch |-> dto'[f].patch, landed |-> dto'[f].landed,
                    standing |-> Standing(f)']
    BY <1>5, NoneAssumption DEF Life
  <2> QED BY <2>1, <2>2, <1>5
<1>8. \A g \in Findings \ {f} : Life'[g] = Life[g]
  BY <1>4 DEF Life, Standing
<1>9. Life' = [Life EXCEPT ![f].standing = Standing(f)']
  BY <1>7, <1>8 DEF Life
<1>10. Life[f].landed /\ Life[f].standing # "rejected"
  BY <1>1 DEF Life, Standing
<1> QED BY <1>6, <1>9, <1>10 DEF Lifecycle!Judge

(* S11 implements PatchLifecycle: whatever sessions come back with, and    *)
(* wherever a run is killed, DTOs change only by S10's new patches and by  *)
(* verdicts on patches that are on disk.                                   *)
THEOREM Refinement == Spec => ImplementsLifecycle
<1>1. Init => Lifecycle!Init
  BY DEF Init, Lifecycle!Init, Lifecycle!Unseen, Life
<1>2. IInv /\ [Next]_vars => [Lifecycle!Next]_Life
  <2> SUFFICES ASSUME IInv, [Next]_vars PROVE Lifecycle!Next \/ UNCHANGED Life
    OBVIOUS
  <2>1. CASE Remediate
    BY <2>1, PatchStep DEF Lifecycle!Next
  <2>2. ASSUME NEW f \in Findings, WriteBack(f) PROVE Lifecycle!Next
    BY <2>2, JudgeStep DEF Lifecycle!Next
  <2>3. CASE UNCHANGED dto
    BY <2>3 DEF Life, Standing
  <2>4. Remediate \/ (\E f \in Findings : WriteBack(f)) \/ UNCHANGED dto
    BY DEF Next, Process, Begin, ResumeHit, Resumed, Refuse, Stage, StageFails, Session,
           NoBinary, Save, Finish, Crash, vars
  <2> QED BY <2>1, <2>2, <2>3, <2>4
<1> QED BY <1>1, <1>2, Inductive, PTL DEF Spec, ImplementsLifecycle, Lifecycle!Spec

(* What a run reports of a finding, and exits with, is what it wrote into  *)
(* the DTO: fixed if and only if validated.                                *)
THEOREM ResultsAgree == Spec => ResultAgreesWithDto
<1> DEFINE Agree(f) == Writes(f) /\ run'.heard.names = "own" /\ run.heard.answer # "blank"
                       => (run'.heard.label = "fixed" <=> dto'[f].status = "validated")
<1>1. ASSUME IInv, [Next]_vars, NEW f \in Findings, Writes(f),
             run'.heard.names = "own", run.heard.answer # "blank"
      PROVE  run'.heard.label = "fixed" <=> dto'[f].status = "validated"
  <2>3. DOMAIN run = {"pc", "resume", "queue", "order", "result", "heard"}
    BY <1>1 DEF IInv, RunFields, Idle
  <2>1. WriteBack(f)
    <3>1. run.pc = "heard" /\ run'.pc = "written" /\ f = Current
      BY <1>1 DEF Writes
    <3>2. ~Remediate /\ ~Begin /\ ~Finish /\ ~UNCHANGED vars
      BY <3>1 DEF Remediate, Begin, Finish, vars
    <3>3. ~Crash
      BY <3>1 DEF Crash, Idle
    <3>4. PICK g \in Findings : Process(g)
      BY <1>1, <3>2, <3>3 DEF Next
    <3>5. WriteBack(g)
      BY <3>1, <3>4 DEF Process, At, ResumeHit, Refuse, Stage, StageFails, Session, NoBinary, Save
    <3> QED BY <3>1, <3>5 DEF WriteBack
  <2>2. f = Head(run.queue) /\ run.queue # <<>> /\ run.pc = "heard"
    BY <2>1 DEF WriteBack, At, Current
  <2>4. run'.heard = Result(f)
    BY <2>1, <2>3 DEF WriteBack
  <2>5. dto[f] \in Dtos
    BY <1>1, <2>2, HeadAndTail DEF IInv, TypeOK, QueueOpen
  <2>6. dto'[f].status = StatusOf(Verdict(f))
    BY <1>1, <2>1, <2>5 DEF WriteBack, IInv, TypeOK, Dtos
  <2>7. CASE NoResult(f)
    BY <2>7, <2>4, <2>6 DEF Result, Verdict, StatusOf
  <2>8. CASE ~NoResult(f)
    <3>1. ws[f].answer # "blank"
      BY <1>1, <2>2, <2>8 DEF IInv, AnswerIsNew, NoResult
    <3>2. ws[f].answer = "own"
      BY <1>1, <2>4, <2>8, <3>1 DEF Result
    <3>3. run'.heard.label = LabelOf(ScoreOf(ws[f].gates, "own"))
      BY <2>4, <2>8, <3>2 DEF Result
    <3>4. dto'[f].status = StatusOf(ScoreOf(ws[f].gates, "own"))
      BY <2>6, <2>8 DEF Verdict
    <3> QED BY <3>3, <3>4 DEF LabelOf, StatusOf
  <2> QED BY <2>7, <2>8
<1>2. IInv /\ [Next]_vars => [\A f \in Findings : Agree(f)]_vars
  BY <1>1
<1> QED BY <1>2, Inductive, PTL DEF Spec, ResultAgreesWithDto

-----------------------------------------------------------------------------
(* What a verdict is made of.                                              *)

(* The most severe status is one of those there are.                       *)
LEMMA MostConservativeIs ==
  ASSUME NEW S \in SUBSET Statuses
  PROVE  IF S = {} THEN MostConservative(S) = "invalid"
         ELSE /\ MostConservative(S) \in S
              /\ \A t \in S : Rank[MostConservative(S)] <= Rank[t]
<1>1. CASE S = {}
  BY <1>1 DEF MostConservative
<1>2. CASE S # {}
  <2>1. \E s \in S : \A t \in S : Rank[s] <= Rank[t]
    <3>1. /\ Rank["fail"] = 1 /\ Rank["partial"] = 2 /\ Rank["pass"] = 3
          /\ Rank["skip"] = 4 /\ Rank["invalid"] = 5
      BY DEF Rank
    <3>2. CASE "fail" \in S
      BY <3>1, <3>2 DEF Statuses
    <3>3. CASE "fail" \notin S /\ "partial" \in S
      BY <3>1, <3>3 DEF Statuses
    <3>4. CASE S \cap {"fail", "partial"} = {} /\ "pass" \in S
      BY <3>1, <3>4 DEF Statuses
    <3>5. CASE S \cap {"fail", "partial", "pass"} = {} /\ "skip" \in S
      BY <3>1, <3>5 DEF Statuses
    <3>6. CASE S = {"invalid"}
      BY <3>1, <3>6
    <3> QED BY <1>2, <3>2, <3>3, <3>4, <3>5, <3>6 DEF Statuses
  <2> QED BY <1>2, <2>1 DEF MostConservative
<1> QED BY <1>1, <1>2

(* "Fixed" takes both critical gates, and none that weighs more than a     *)
(* fifth may be without credit and yet count.                              *)
LEMMA FixedMeans ==
  ASSUME NEW gates, Score(gates) = "Fixed", \A g \in DOMAIN gates : gates[g] \in Statuses
  PROVE  /\ DOMAIN gates = Gates
         /\ \A g \in Critical : gates[g] = "pass"
         /\ \A g \in Gates : Weight[g] > 2000 => gates[g] \in {"pass", "partial", "skip"}
<1>1. Scorable(gates) /\ Ranked(gates) = "Fixed" /\ \A g \in Critical : gates[g] \notin {"partial", "fail"}
  BY DEF Score, Capped, Ranked
<1>2. DOMAIN gates = Gates /\ \A g \in Critical : gates[g] = "pass"
  BY <1>1 DEF Scorable, Statuses, Critical, Gates
<1>3. AtLeast(gates, 80)
  BY <1>1 DEF Ranked
<1>4. gates["instance_coverage"] \in {"pass", "partial", "skip"}
  <2> SUFFICES ASSUME gates["instance_coverage"] \in {"fail", "invalid"} PROVE FALSE
    BY <1>2 DEF Gates, Statuses
  <2>1. /\ gates["root_cause"] = "pass" /\ gates["no_new_vulnerabilities"] = "pass"
        /\ gates["security_best_practices"] \in Statuses
    BY <1>2 DEF Critical, Gates
  <2>2. ActiveWeight(gates) = IF gates["security_best_practices"] = "skip" THEN 8634 ELSE 10000
    BY <1>2, <2>1 DEF ActiveWeight, Total, Active, Gates, Weight
  <2>3. Earned(gates) <= IF gates["security_best_practices"] = "skip" THEN 12334 ELSE 15066
    BY <1>2, <2>1 DEF Earned, Total, Active, Gates, Weight, Credit, Statuses
  <2>4. Earned(gates) \in Nat
    BY <1>2, <2>1 DEF Earned, Total, Active, Gates, Weight, Credit, Statuses
  <2> QED BY <1>3, <2>2, <2>3, <2>4 DEF AtLeast
<1>5. \A g \in Gates \ Critical : Weight[g] > 2000 => g = "instance_coverage"
  BY DEF Gates, Critical, Weight
<1> QED BY <1>2, <1>4, <1>5

-----------------------------------------------------------------------------
(* Whose opinion it is.                                                    *)

(* The reports of a session that say a status of a gate of this finding,   *)
(* by their place in it.                                                   *)
Places(s, g, status) ==
  {i \in DOMAIN s.cands :
     /\ FirstOfItsKind(s.cands, i) /\ s.cands[i].valid /\ s.cands[i].names = "own"
     /\ g \in DOMAIN s.cands[i].gates /\ VoteOf(s.cands[i], g) = status}

Panelists(s, g) == Voters(ValidReports(s.cands), "own", g)
Say(s, g, status) == {r \in Panelists(s, g) : VoteOf(r, g) = status}

(* The assumption on sessions, as the proofs need it.                      *)
LEMMA SessionIs ==
  ASSUME NEW v \in {"sdk", "deepagents"}, NEW s \in Sessions[v]
  PROVE  /\ s.end \in EndsOf[v]
         /\ s.cands \in Seq({s.cands[i] : i \in DOMAIN s.cands})
         /\ \A i \in DOMAIN s.cands : \A g \in DOMAIN s.cands[i].gates :
              s.cands[i].gates[g] \in SUBSET (Statuses \ {"invalid"})
         /\ \A id \in DOMAIN s.listed : \A g \in DOMAIN s.listed[id] : s.listed[id][g] \in Statuses
  BY SessionsAssumption DEF SessionsAssumption

(* A persona's first report about a finding is the one that counts, so     *)
(* that reports and personas can be counted for each other.                *)
LEMMA ReportsArePersonas ==
  ASSUME NEW v \in {"sdk", "deepagents"}, NEW s \in Sessions[v], NEW g, NEW status
  PROVE  /\ Cardinality(Say(s, g, status)) = Cardinality(Saying(s, g, status))
         /\ IsFiniteSet(Saying(s, g, status)) /\ Cardinality(Saying(s, g, status)) \in Nat
         /\ Say(s, g, status) = {} <=> Saying(s, g, status) = {}
<1> DEFINE P == Places(s, g, status)
           n == Len(s.cands)
           told == [i \in P |-> s.cands[i]]
           persona == [i \in P |-> s.cands[i].persona]
<1>1. DOMAIN s.cands = 1..n /\ n \in Nat
  BY SessionIs
<1>2. IsFiniteSet(P)
  <2>1. P \in SUBSET (1..n) /\ IsFiniteSet(1..n)
    BY <1>1, FS_Interval DEF Places
  <2> QED BY <2>1, FS_Subset
<1>3. \A i \in P : /\ i \in 1..n /\ s.cands[i].names = "own"
                   /\ \A k \in 1..(i - 1) : \/ s.cands[k].persona # s.cands[i].persona
                                            \/ s.cands[k].names # "own"
  BY <1>1 DEF Places, FirstOfItsKind
<1>4. \A i, k \in P : s.cands[i].persona = s.cands[k].persona => i = k
  <2> SUFFICES ASSUME NEW i \in P, NEW k \in P, i < k PROVE s.cands[i].persona # s.cands[k].persona
    BY <1>3
  <2> QED BY <1>3
<1>5. told \in Bijection(P, Say(s, g, status))
  <2>1. \A i \in P : s.cands[i] \in Say(s, g, status)
    BY DEF Places, Say, Panelists, Voters, ValidReports
  <2>2. \A r \in Say(s, g, status) : \E i \in P : s.cands[i] = r
    BY DEF Places, Say, Panelists, Voters, ValidReports
  <2> HIDE DEF P
  <2> QED BY <1>4, <2>1, <2>2 DEF Bijection, Injection, Surjection, IsInjective
<1>6. persona \in Bijection(P, Saying(s, g, status))
  <2>1. \A i \in P : s.cands[i].persona \in Saying(s, g, status)
    BY <1>3 DEF Places, Saying, VoteOf
  <2>2. \A p \in Saying(s, g, status) : \E i \in P : s.cands[i].persona = p
    BY <1>1 DEF Places, Saying, VoteOf, FirstOfItsKind
  <2> HIDE DEF P
  <2> QED BY <1>4, <2>1, <2>2 DEF Bijection, Injection, Surjection, IsInjective
<1>7. /\ IsFiniteSet(Saying(s, g, status))
      /\ Cardinality(Say(s, g, status)) = Cardinality(P)
      /\ Cardinality(Saying(s, g, status)) = Cardinality(P)
  <2> HIDE DEF P, told, persona
  <2>1. ExistsBijection(P, Say(s, g, status)) /\ ExistsBijection(P, Saying(s, g, status))
    BY <1>5, <1>6 DEF ExistsBijection
  <2> QED BY <1>2, <2>1, FS_Bijection
<1>8. Say(s, g, status) = {} <=> Saying(s, g, status) = {}
  BY <1>5, <1>6 DEF Bijection, Surjection
<1> QED BY <1>2, <1>7, <1>8, FS_CardinalityType

LEMMA VotesAre ==
  ASSUME NEW v \in {"sdk", "deepagents"}, NEW s \in Sessions[v], NEW g, NEW r \in Panelists(s, g)
  PROVE  VoteOf(r, g) \in Statuses
<1>1. PICK i \in DOMAIN s.cands : r = s.cands[i] /\ g \in DOMAIN s.cands[i].gates
  BY DEF Panelists, Voters, ValidReports
<1>2. r.gates[g] \in SUBSET Statuses
  BY <1>1, SessionIs
<1> QED BY <1>2, MostConservativeIs DEF VoteOf, Statuses

(* What the panel agrees on, and how often it was said: nobody said more   *)
(* often anything else, and nothing as common is more severe.              *)
LEMMA AgreedOn ==
  ASSUME NEW v \in {"sdk", "deepagents"}, NEW s \in Sessions[v], NEW g
  PROVE  LET c == Consensus(Panelists(s, g), g)
         IN  /\ c \in Statuses
             /\ c = "skip" => \A w \in Statuses \ {"skip"} : Saying(s, g, w) = {}
             /\ c \notin {"skip", "invalid"} =>
                  /\ Saying(s, g, c) # {}
                  /\ \A w \in Statuses \ {"skip"} : Rank[w] < Rank[c] =>
                       Cardinality(Saying(s, g, w)) < Cardinality(Saying(s, g, c))
<1> DEFINE opinions == Evaluated(Panelists(s, g), g)
           given == {VoteOf(r, g) : r \in opinions}
           top == {t \in given : \A u \in given : Tally(opinions, g, u) <= Tally(opinions, g, t)}
           c == Consensus(Panelists(s, g), g)
<1>1. \A w \in Statuses \ {"skip"} :
        /\ Tally(opinions, g, w) = Cardinality(Saying(s, g, w))
        /\ Tally(opinions, g, w) \in Nat
        /\ w \in given <=> Saying(s, g, w) # {}
  <2> SUFFICES ASSUME NEW w \in Statuses \ {"skip"}
               PROVE  /\ Tally(opinions, g, w) = Cardinality(Saying(s, g, w))
                      /\ Tally(opinions, g, w) \in Nat
                      /\ w \in given <=> Saying(s, g, w) # {}
    OBVIOUS
  <2>1. {r \in opinions : VoteOf(r, g) = w} = Say(s, g, w)
    BY DEF Evaluated, Say
  <2>2. w \in given <=> Say(s, g, w) # {}
    BY <2>1
  <2> QED BY <2>1, <2>2, ReportsArePersonas DEF Tally
<1>2. given \in SUBSET (Statuses \ {"skip"})
  BY VotesAre DEF Evaluated
<1>3. c = IF opinions = {} THEN "skip" ELSE MostConservative(top)
  BY DEF Consensus
<1>4. top \in SUBSET Statuses /\ top \subseteq given
  BY <1>2
<1>5. ASSUME opinions = {}
      PROVE  c = "skip" /\ \A w \in Statuses \ {"skip"} : Saying(s, g, w) = {}
  BY <1>1, <1>3, <1>5
<1>6. ASSUME opinions # {}, top = {}
      PROVE  c = "invalid"
  BY <1>3, <1>6, <1>4, MostConservativeIs
<1>7. ASSUME opinions # {}, top # {}
      PROVE  /\ c \in Statuses \ {"skip"} /\ Saying(s, g, c) # {}
             /\ \A w \in Statuses \ {"skip"} : Rank[w] < Rank[c] =>
                  Cardinality(Saying(s, g, w)) < Cardinality(Saying(s, g, c))
  <2>1. c \in top /\ \A t \in top : Rank[c] <= Rank[t]
    BY <1>3, <1>4, <1>7, MostConservativeIs
  <2>2. c \in Statuses \ {"skip"} /\ c \in given /\ \A u \in given : Tally(opinions, g, u) <= Tally(opinions, g, c)
    BY <2>1, <1>2
  <2>3. ASSUME NEW w \in Statuses \ {"skip"}, Rank[w] < Rank[c]
        PROVE  Cardinality(Saying(s, g, w)) < Cardinality(Saying(s, g, c))
    <3>1. /\ Tally(opinions, g, w) = Cardinality(Saying(s, g, w)) /\ Tally(opinions, g, w) \in Nat
          /\ Tally(opinions, g, c) = Cardinality(Saying(s, g, c)) /\ Tally(opinions, g, c) \in Nat
      BY <1>1, <2>2
    <3>2. CASE w \in given
      <4>1. w \notin top
        <5>1. Rank[w] \in Nat /\ Rank[c] \in Nat
          BY <2>2 DEF Rank, Statuses
        <5> QED BY <2>1, <2>3, <5>1
      <4>2. PICK u \in given : ~(Tally(opinions, g, u) <= Tally(opinions, g, w))
        BY <3>2, <4>1
      <4>3. Tally(opinions, g, u) \in Nat /\ Tally(opinions, g, u) <= Tally(opinions, g, c)
        BY <1>1, <1>2, <2>2
      <4> QED BY <3>1, <4>2, <4>3
    <3>3. CASE w \notin given
      <4>1. Saying(s, g, w) = {} /\ Saying(s, g, c) # {}
        BY <1>1, <2>2, <3>3
      <4>2. IsFiniteSet(Saying(s, g, c))
        BY ReportsArePersonas
      <4>3. Cardinality(Saying(s, g, w)) = 0
        BY <4>1, FS_EmptySet
      <4>4. Cardinality(Saying(s, g, c)) # 0
        BY <4>1, <4>2, FS_EmptySet
      <4> QED BY <3>1, <4>3, <4>4
    <3> QED BY <3>2, <3>3
  <2> QED BY <2>2, <2>3, <1>1
<1> HIDE DEF c, opinions, top
<1>8. "invalid" \in Statuses /\ "skip" \in Statuses
  BY DEF Statuses
<1> QED BY <1>5, <1>6, <1>7, <1>8 DEF c

LEMMA PassesAreThePanels ==
  ASSUME NEW v \in {"sdk", "deepagents"}, NEW s \in Sessions[v], NEW g,
         Consensus(Panelists(s, g), g) = "pass"
  PROVE  PanelPasses(s, g)
<1>1. Rank["partial"] < Rank["pass"] /\ Rank["fail"] < Rank["pass"]
  BY DEF Rank
<1> QED BY <1>1, AgreedOn DEF PanelPasses, Statuses

(* Where all who have an opinion say that a gate fails, the panel says     *)
(* nothing better, and does not abstain.                                   *)
LEMMA FailuresAreThePanels ==
  ASSUME NEW v \in {"sdk", "deepagents"}, NEW s \in Sessions[v], NEW g, PanelFails(s, g)
  PROVE  Consensus(Panelists(s, g), g) \notin {"pass", "partial", "skip"}
  BY AgreedOn DEF PanelFails, Statuses

-----------------------------------------------------------------------------
(* What is scored.                                                         *)

(* What was heard is what a session of this backend can come back with;    *)
(* and where it ended well, the gates in the workspace are its own: the    *)
(* panel's, or what the answer lists, and none of an earlier session.      *)
GatesAreNew ==
  /\ via \in {"sdk", "deepagents"}
  /\ run.pc = "heard" /\ run.queue # <<>> =>
       /\ run.heard \in Sessions[via]
       /\ ~Failed(run.heard) =>
            ws[Head(run.queue)].gates =
              IF PanelSpoke(run.heard) THEN Entry(FromPanel(run.heard))
              ELSE IF run.heard.answer = None THEN NoGates ELSE run.heard.listed

LEMMA GatesInit == Init => GatesAreNew
  BY DEF Init, GatesAreNew, Idle

LEMMA GatesHeard == ASSUME IInv, GatesAreNew, NEW f \in Findings, Session(f) PROVE GatesAreNew'
<1>1. DOMAIN run = {"pc", "resume", "queue", "order", "result", "heard"}
  BY DEF IInv, RunFields, Idle
<1>2. PICK s \in Sessions[via] :
        /\ ws' = IF Failed(s) THEN ws ELSE [ws EXCEPT ![f] = Written(f, s)]
        /\ run' = [run EXCEPT !.pc = "heard", !.heard = s]
  BY DEF Session
<1>3. run'.queue = run.queue /\ run'.heard = s
  BY <1>1, <1>2
<1>4. /\ f = Head(run.queue) /\ run.queue # <<>> /\ run.pc = "staged" /\ UNCHANGED via
  BY DEF Session, At, Current
<1>5. Failed(s)' = Failed(s) /\ FromPanel(s)' = FromPanel(s)
  BY <1>4 DEF Failed, FromPanel, HostSynthesizes
<1>6. ASSUME ~Failed(s)
      PROVE  ws'[f].gates = IF FromPanel(s) # NoGates THEN Entry(FromPanel(s))
                            ELSE IF s.answer = None THEN NoGates ELSE s.listed
  <2>1. ws[f] = Fresh
    BY <1>4 DEF IInv, AnswerIsNew
  <2>2. ws'[f] = Written(f, s)
    BY <1>2, <1>6 DEF IInv
  <2> QED BY <2>1, <2>2 DEF Written, Fresh
<1> QED BY <1>2, <1>3, <1>4, <1>5, <1>6 DEF GatesAreNew, PanelSpoke

LEMMA GatesStep == IInv /\ GatesAreNew /\ [Next]_vars => GatesAreNew'
<1> SUFFICES ASSUME IInv, GatesAreNew, [Next]_vars PROVE GatesAreNew'
  OBVIOUS
<1>0. DOMAIN run = {"pc", "resume", "queue", "order", "result", "heard"}
  BY DEF IInv, RunFields, Idle
<1>1. CASE UNCHANGED vars
  BY <1>1 DEF vars, GatesAreNew, Failed, PanelSpoke, FromPanel, HostSynthesizes
<1>2. ASSUME NEW f \in Findings, Session(f) PROVE GatesAreNew'
  BY <1>2, GatesHeard
<1>3. UNCHANGED via
  BY DEF Next, Process, Remediate, Begin, ResumeHit, Refuse, Stage, StageFails, Session,
         NoBinary, WriteBack, Save, Finish, Crash, vars
<1>4. CASE Remediate
  BY <1>3, <1>4 DEF Remediate, GatesAreNew
<1>5. CASE Begin \/ Finish \/ Crash \/ \E f \in Findings : StageFails(f) \/ NoBinary(f)
  <2>1. CASE Begin
    <3>1. PICK q \in Selections, resume \in BOOLEAN :
            run' = [Idle EXCEPT !.pc = "next", !.resume = resume, !.queue = q]
      BY <2>1 DEF Begin
    <3>2. run'.pc # "heard"
      BY <3>1 DEF Idle
    <3> QED BY <1>3, <3>2 DEF GatesAreNew
  <2>2. CASE run' = Idle
    BY <1>3, <2>2 DEF GatesAreNew, Idle
  <2> QED BY <1>5, <2>1, <2>2 DEF Finish, Crash, StageFails, NoBinary
<1>6. ASSUME NEW f \in Findings,
             ResumeHit(f) \/ Refuse(f) \/ Stage(f) \/ WriteBack(f) \/ Save(f)
      PROVE  GatesAreNew'
  <2>1. run'.pc # "heard"
    BY <1>0, <1>6 DEF ResumeHit, Refuse, Stage, WriteBack, Save, WithPair, At
  <2> QED BY <1>3, <2>1 DEF GatesAreNew
<1> QED BY <1>1, <1>2, <1>4, <1>5, <1>6 DEF Next, Process

(* A verdict of "Fixed", and what the session it came from had to say.     *)
LEMMA FixedIsEarned ==
  ASSUME NEW v \in {"sdk", "deepagents"}, NEW s \in Sessions[v], v = via,
         NEW gates, ScoreOf(gates, "own") = "Fixed",
         gates = IF PanelSpoke(s) THEN Entry(FromPanel(s))
                 ELSE IF s.answer = None THEN NoGates ELSE s.listed
  PROVE  /\ \A g \in Critical : IF PanelSpoke(s) THEN PanelPasses(s, g) ELSE SelfPasses(s, g)
         /\ \A g \in Gates : Weight[g] > 2000 /\ PanelSpoke(s) => ~PanelFails(s, g)
<1>1. "own" \in DOMAIN gates /\ Score(gates["own"]) = "Fixed"
  BY DEF ScoreOf
<1>2. CASE PanelSpoke(s)
  <2> DEFINE panel == FromPanel(s)
  <2>1. panel = Synthesized(ValidReports(s.cands), "own") /\ gates["own"] = panel
    <3>1. panel = Synthesized(ValidReports(s.cands), "own")
      BY <1>2 DEF PanelSpoke, FromPanel
    <3>2. gates = [id \in {"own"} |-> panel]
      BY <1>2 DEF PanelSpoke, Entry
    <3> HIDE DEF panel
    <3>3. gates["own"] = panel
      BY <3>2
    <3> QED BY <3>1, <3>3
  <2>2. \A g \in DOMAIN panel : panel[g] = Consensus(Panelists(s, g), g)
    BY <2>1 DEF Synthesized, Panelists
  <2>3. \A g \in DOMAIN panel : panel[g] \in Statuses
    BY <2>2, AgreedOn
  <2> HIDE DEF panel
  <2>4. /\ DOMAIN panel = Gates
        /\ \A g \in Critical : panel[g] = "pass"
        /\ \A g \in Gates : Weight[g] > 2000 => panel[g] \in {"pass", "partial", "skip"}
    BY <1>1, <2>1, <2>3, FixedMeans
  <2>5. Critical \subseteq Gates
    BY DEF Critical, Gates
  <2>6. \A g \in Critical : PanelPasses(s, g)
    BY <2>2, <2>4, <2>5, PassesAreThePanels
  <2>7. \A g \in Gates : Weight[g] > 2000 => ~PanelFails(s, g)
    BY <2>2, <2>4, FailuresAreThePanels
  <2> QED BY <1>2, <2>6, <2>7
<1>3. CASE ~PanelSpoke(s)
  <2>1. gates = s.listed
    BY <1>1, <1>3 DEF NoGates
  <2>2. \A g \in DOMAIN s.listed["own"] : s.listed["own"][g] \in Statuses
    BY <1>1, <2>1, SessionIs
  <2>3. /\ DOMAIN s.listed["own"] = Gates
        /\ \A g \in Critical : s.listed["own"][g] = "pass"
    BY <1>1, <2>1, <2>2, FixedMeans
  <2>4. Critical \subseteq Gates
    BY DEF Critical, Gates
  <2> QED BY <1>1, <1>3, <2>1, <2>3, <2>4 DEF SelfPasses
<1> QED BY <1>2, <1>3

(* For any sessions, whatever the workspace held before, whatever is       *)
(* resumed and wherever a run is killed: a finding is validated only by a  *)
(* session of this run that ended well, whose panel, or whose own answer   *)
(* where no panel was heard, passed both critical gates, and where not     *)
(* everybody who looked failed a gate of more than a fifth of the weight.  *)
THEOREM ValidatedByThePanel == Spec => ValidatedIsEarned
<1> DEFINE Earns(f) ==
      dto[f] # None /\ dto[f].status # "validated" /\ dto'[f].status = "validated"
       => /\ Writes(f)
          /\ run.heard.end = "success"
          /\ \A g \in Critical : IF PanelSpoke(run.heard) THEN PanelPasses(run.heard, g)
                                  ELSE SelfPasses(run.heard, g)
          /\ \A g \in Gates : Weight[g] > 2000 /\ PanelSpoke(run.heard)
                            => ~PanelFails(run.heard, g)
<1>1. ASSUME IInv, GatesAreNew, [Next]_vars, NEW f \in Findings
      PROVE  Earns(f)
  <2> SUFFICES ASSUME dto[f] # None, dto[f].status # "validated", dto'[f].status = "validated"
               PROVE  /\ Writes(f)
                      /\ run.heard.end = "success"
                      /\ \A g \in Critical :
                           IF PanelSpoke(run.heard) THEN PanelPasses(run.heard, g)
                           ELSE SelfPasses(run.heard, g)
                      /\ \A g \in Gates : Weight[g] > 2000 /\ PanelSpoke(run.heard)
                                        => ~PanelFails(run.heard, g)
    OBVIOUS
  <2>0. DOMAIN run = {"pc", "resume", "queue", "order", "result", "heard"}
    BY <1>1 DEF IInv, RunFields, Idle
  <2>1. ~Remediate
    <3> SUFFICES ASSUME Remediate PROVE FALSE
      OBVIOUS
    <3>0. PICK worked \in SUBSET Findings :
            \E left \in [worked -> Remediated] : PatchesWritten(worked, left)
      BY <1>1 DEF Remediate, PatchesWritten
    <3>1. PICK left \in [worked -> Remediated] : PatchesWritten(worked, left)
      BY <3>0
    <3>2. CASE f \in worked
      <4>1. left[f] \in Remediated /\ dto'[f].status = left[f].status
        BY <3>1, <3>2 DEF PatchesWritten
      <4> QED BY <4>1, RemediatedFields
    <3>3. CASE f \notin worked
      BY <3>1, <3>3 DEF PatchesWritten
    <3> QED BY <3>2, <3>3
  <2>2. PICK g \in Findings : WriteBack(g)
    BY <1>1, <2>1
       DEF Next, Process, Begin, ResumeHit, Resumed, Refuse, Stage, StageFails, Session,
           NoBinary, Save, Finish, Crash, vars
  <2>3. f = g
    BY <1>1, <2>2 DEF WriteBack, IInv, TypeOK
  <2>4. /\ f = Head(run.queue) /\ run.queue # <<>> /\ run.pc = "heard" /\ run'.pc = "written"
    BY <2>0, <2>2, <2>3 DEF WriteBack, At, Current
  <2>5. StatusOf(Verdict(f)) = "validated"
    <3>1. dto[f] \in Dtos
      BY <1>1 DEF IInv, TypeOK
    <3> QED BY <1>1, <2>2, <2>3, <3>1 DEF WriteBack, IInv, TypeOK, Dtos
  <2>6. ~Failed(run.heard) /\ ScoreOf(ws[f].gates, "own") = "Fixed"
    BY <2>5 DEF StatusOf, Verdict, NoResult
  <2>7. run.heard \in Sessions[via] /\ via \in {"sdk", "deepagents"}
        /\ ws[f].gates = IF PanelSpoke(run.heard) THEN Entry(FromPanel(run.heard))
                         ELSE IF run.heard.answer = None THEN NoGates ELSE run.heard.listed
    BY <1>1, <2>4, <2>6 DEF GatesAreNew
  <2>8. run.heard.end = "success"
    BY <2>6 DEF Failed, ExitCode
  <2> QED BY <2>4, <2>6, <2>7, <2>8, FixedIsEarned DEF Writes, Current
<1>2. IInv /\ GatesAreNew /\ [Next]_vars => [\A f \in Findings : Earns(f)]_vars
  BY <1>1
<1> QED BY <1>2, Inductive, GatesInit, GatesStep, PTL DEF Spec, ValidatedIsEarned
=============================================================================
