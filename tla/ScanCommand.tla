----------------------------- MODULE ScanCommand -----------------------------
(***************************************************************************)
(* The commands scan, setup and doctor from their arguments to their exit  *)
(* code: orchestrator/entry.py, the preflight, and orchestrator/scan.py    *)
(* around the stages, with the gates of S10 and S11.  A killed or stopped  *)
(* scan is started again, with other arguments, while commits arrive in    *)
(* the repository.                                                         *)
(*                                                                         *)
(* The stages themselves are elsewhere (ScanResume has their checkpoints); *)
(* here a scan is S0-S7, the report of S8, S10 and S11, and a result is    *)
(* the commit whose lines it speaks of.                                    *)
(***************************************************************************)
EXTENDS Readiness, Naturals

CONSTANTS
  Args,         \* the command lines that are tried
  Packaged,     \* the profile that is shipped as the default
  Machines,     \* the machines they are tried on
  MaxCommands,  \* bound: commands
  MaxCommits    \* bound: commits that arrive meanwhile

ASSUME CommandBounds == MaxCommands \in Nat /\ MaxCommits \in Nat
ASSUME NoneAssumption == None \notin Nat
ASSUME CommandAssumption == None \notin Args /\ \A a \in Args : a.command \in {"scan", "setup", "doctor"}

(* Profiles have the backends there are, and _MODEL_ROLES.                 *)
ASSUME ProfileAssumption ==
  \A p \in {Packaged} \cup {a.config : a \in Args} :
    Vias(p) \subseteq Backends /\ Configured(p) \subseteq DetectionRoles \cup POST_SCAN_ROLES

VARIABLES
  env,          \* the machine
  git,          \* whether the repository is a git checkout
  head,         \* its HEAD
  args,         \* the command line
  profile,      \* the configuration in force
  step,        \* how far the command is
  exit,         \* its exit code
  found,        \* the commit S0-S7's findings are about, and
  report,       \* the report, both in memory
  ckpt,         \* and in their rows
  looked,       \* the commit there was at the gate of S10, and what git said
  edits,        \* what S10 did to the repository
  commands

commandVars == <<env, git, head, args, profile, step, exit, found, report, ckpt, looked, edits, commands>>
machine == <<env, git>>
line == <<args, profile, commands>>
disk == <<ckpt, edits>>
memory == <<found, report, looked>>

NoRows == [found |-> None, report |-> None]

CommandInit ==
  /\ env \in Machines /\ git \in BOOLEAN /\ head = 0
  /\ args = None /\ profile = Packaged
  /\ step = "off" /\ exit = None
  /\ found = None /\ report = None /\ looked = None
  /\ ckpt = NoRows /\ edits = {}
  /\ commands = 0

Finish(code) == step' = "off" /\ exit' = code

-----------------------------------------------------------------------------
(* Before the scan.                                                        *)

(* The configuration in the target is refused unless the operator opts in. *)
InForce(a) == IF a.inTarget /\ ~a.optIn THEN Packaged ELSE a.config

Enter ==
  /\ step = "off" /\ commands < MaxCommands
  /\ commands' = commands + 1
  /\ args' \in Args
  /\ profile' = InForce(args')
  /\ step' = args'.command /\ exit' = None
  /\ found' = None /\ report' = None /\ looked' = None
  /\ UNCHANGED <<machine, head, disk>>

(* setup and doctor.                                                       *)
Setup ==
  /\ step = "setup"
  /\ Finish(IF SetupReady(profile, env) THEN 0 ELSE 1)
  /\ UNCHANGED <<machine, head, line, memory, disk>>

Doctor ==
  /\ step = "doctor"
  /\ Finish(IF DoctorReady(profile, env) THEN 0 ELSE 1)
  /\ UNCHANGED <<machine, head, line, memory, disk>>

(* --step1-config that is not there, or on the network.                    *)
BadOverlay ==
  /\ step = "scan" /\ args.overlay = "bad"
  /\ Finish(2)
  /\ UNCHANGED <<machine, head, line, memory, disk>>

Checks == ~args.skipPreflight /\ args.stop # "clone"

Preflight ==
  /\ step = "scan" /\ args.overlay # "bad"
  /\ IF Checks /\ ~CheckBackends(profile, env)
     THEN Finish(1)
     ELSE step' = "checked" /\ UNCHANGED exit
  /\ UNCHANGED <<machine, head, line, memory, disk>>

NoTarget ==
  /\ step = "checked" /\ args.target = "nothing"
  /\ Finish(2)
  /\ UNCHANGED <<machine, head, line, memory, disk>>

(* Without --resume the rows go; with it, state inside the target is       *)
(* refused, and the command succeeds.                                      *)
Open ==
  /\ step = "checked" /\ args.target # "nothing"
  /\ IF args.resume /\ args.target = "around the state"
     THEN Finish(0) /\ UNCHANGED ckpt
     ELSE /\ step' = "detect" /\ UNCHANGED exit
          /\ ckpt' = IF args.resume THEN ckpt ELSE NoRows
  /\ UNCHANGED <<machine, head, line, memory, edits>>

-----------------------------------------------------------------------------
(* The scan.                                                               *)

Stops(steps) == args.stop \in steps

(* S0-S7, from the rows or anew.                                           *)
Detect ==
  /\ step = "detect"
  /\ found' = IF ckpt.found # None THEN ckpt.found ELSE head
  /\ ckpt' = [ckpt EXCEPT !.found = found']
  /\ IF Stops({"s7"}) THEN Finish(0) ELSE step' = "report" /\ UNCHANGED exit
  /\ UNCHANGED <<machine, head, line, report, looked, edits>>

(* What _head_sha may return: git can fail, or not answer in 20 seconds.   *)
HeadSha == {None} \cup (IF git THEN {head} ELSE {})

(* S8 pins the commit; "at" is the commit it really was built at.          *)
Built(sha) == [about |-> found, sha |-> sha, at |-> head]

(* A bug that could be: the pin is renewed whenever the report is loaded.  *)
BugReported(sha) ==
  IF ckpt.report # None THEN [ckpt.report EXCEPT !.sha = sha] ELSE Built(sha)

Reported(sha) == IF ckpt.report # None THEN ckpt.report ELSE Built(sha)

(* S8 and S9.                                                              *)
Report ==
  /\ step = "report"
  /\ \E sha \in HeadSha : report' = Reported(sha)
  /\ ckpt' = [ckpt EXCEPT !.report = report']
  /\ IF Stops({"s9"}) THEN Finish(0) ELSE step' = "gate s10" /\ UNCHANGED exit
  /\ UNCHANGED <<machine, head, line, found, looked, edits>>

RoleReady(r) == r \in Configured(profile) /\ BackendCredentialOk(profile.models[r], env)

(* Where git says nothing, the commit has not moved.                       *)
Moved(cur) == report.sha # None /\ cur # None /\ report.sha # cur

(* _remediate_preflight.                                                   *)
RemediatePreflight(cur) == RoleReady("remediate") /\ (~Moved(cur) \/ args.force)

(* S10 is on, there are findings, and the gate lets it pass.               *)
GateS10 ==
  /\ step = "gate s10"
  /\ \E findings \in BOOLEAN, cur \in HeadSha :
       /\ step' = IF (args.remediate \/ profile.remediate) /\ findings /\ RemediatePreflight(cur)
                   THEN "s10"
                   ELSE IF Stops({"s10"}) THEN "leave" ELSE "gate s11"
       /\ looked' = [at |-> head, sha |-> cur]
  /\ UNCHANGED <<machine, head, line, exit, found, report, disk>>

(* The result of process_findings is not looked at.  Only backends with    *)
(* write tools edit.                                                       *)
Edits(v) == v \in {"cli", "sdk", "deepagents"}

Remediate ==
  /\ step = "s10"
  /\ edits' = IF Edits(Via(profile, "remediate"))
              THEN edits \cup {[built |-> report.at, gate |-> looked.at, forced |-> args.force,
                                pinned |-> report.sha # None, seen |-> looked.sha # None]}
              ELSE edits
  /\ step' = IF Stops({"s10"}) THEN "leave" ELSE "gate s11"
  /\ UNCHANGED <<machine, head, line, exit, memory, ckpt>>

(* _validate_preflight; via openai stands for deepagents with that         *)
(* provider.  The result of S11 is a warning.                              *)
Normalized(s) ==
  IF s.via = "openai"
  THEN [s EXCEPT !.via = "deepagents", !.provider = IF @ = None THEN "openai" ELSE @]
  ELSE s

ValidatePreflight ==
  /\ "validate" \in Configured(profile)
  /\ BackendCredentialOk(Normalized(profile.models["validate"]), env)

GateS11 ==
  /\ step = "gate s11"
  /\ step' = IF profile.validate /\ ValidatePreflight THEN "s11" ELSE "leave"
  /\ UNCHANGED <<machine, head, line, exit, memory, disk>>

Leave ==
  /\ step \in {"s11", "leave"}
  /\ Finish(0)
  /\ UNCHANGED <<machine, head, line, memory, disk>>

-----------------------------------------------------------------------------
Stages == {"detect", "report", "gate s10", "s10", "gate s11", "s11"}

(* A stage raises; or Ctrl-C, also during the preflight.                   *)
Fails == step \in Stages /\ Finish(1) /\ UNCHANGED <<machine, head, line, memory, disk>>

Interrupt ==
  /\ \/ step \in Stages
     \/ step = "scan" /\ args.overlay # "bad" /\ Checks
  /\ Finish(130)
  /\ UNCHANGED <<machine, head, line, memory, disk>>

Killed ==
  /\ step # "off" /\ step' = "off"
  /\ UNCHANGED <<machine, head, line, exit, memory, disk>>

(* Somebody commits, or checks out something else.                         *)
Commit ==
  /\ git /\ head < MaxCommits
  /\ head' = head + 1
  /\ UNCHANGED <<machine, line, step, exit, memory, disk>>

Before == Enter \/ Setup \/ Doctor \/ BadOverlay \/ Preflight \/ NoTarget \/ Open
Scan == Detect \/ Report \/ GateS10 \/ Remediate \/ GateS11 \/ Leave
CommandNext == Before \/ Scan \/ Fails \/ Interrupt \/ Killed \/ Commit

CommandSpec == CommandInit /\ [][CommandNext]_commandVars
-----------------------------------------------------------------------------
(* Properties.                                                             *)

OnRecord(command, code) == step = "off" /\ args # None /\ args.command = command /\ exit = code

(* A scan whose preflight let it pass, and a machine doctor calls ready,   *)
(* can make every call that detection makes: the probe of one role stands  *)
(* for others, and what only S10 and S11 lack is let pass.  Of a delegated *)
(* session no more is known than that it starts.                           *)
DetectionReady ==
  (step \in Stages /\ Checks) \/ OnRecord("doctor", 0)
  => \A r \in DetectionRoles \cap Configured(profile) :
       CallsWork(profile, env, r) \/ (Delegated(profile, r) /\ SessionStarts(env))

(* POST_SCAN_ROLES: what only S10 or S11 lack does not stop the scan.  A   *)
(* role of detection does, also one that is delegated and never prompts,   *)
(* and so do a codex that is not ready and variables of Anthropic that     *)
(* contradict each other.                                                  *)
GapsDegrade ==
  [][step = "scan" /\ exit' = 1
     => \/ \E r \in DetectionRoles \cap Configured(profile) :
             ~CallsWork(profile, env, r) \/ ~PromptsWork(profile, env, r)
        \/ "codex" \in Vias(profile) /\ ~CodexReady(env)
        \/ Vias(profile) \cap {"cli", "sdk"} # {} /\ GatewayGap(env)]_commandVars

(* S10 edits only where at its gate the repository was at the commit the   *)
(* report was built at, in this command or an earlier one, unless it was   *)
(* forced to or git had no answer, for the pin or at the gate.             *)
EditsKnowTheHead ==
  \A x \in edits : x.forced \/ ~x.pinned \/ ~x.seen \/ x.built = x.gate

(* probe_backends: doctor and a scan "both exercise the same path the real *)
(* scan will use".                                                         *)
DoctorAgrees ==
  \A code \in {0, 1} :
    OnRecord("doctor", code) => (code = 0 <=> CheckBackends(profile, env))
=============================================================================
