------------------------------ MODULE Readiness ------------------------------
(***************************************************************************)
(* Whether a machine can run a profile: what `scan` checks before it       *)
(* starts (orchestrator/preflight.py), what `setup` and `doctor` report    *)
(* (util/environment.py, cli.py), and what the calls of a scan need.       *)
(*                                                                         *)
(* A profile p maps model roles to [id, via, provider].  A machine e has a *)
(* set of programs and variables (e.has), models that answer (e.up), and   *)
(* backends whose agentic path is broken (e.deaf).  Pure operators.        *)
(***************************************************************************)
EXTENDS FiniteSets

CONSTANT None

DetectionRoles == {"autoexclude", "preprocess", "threatmodel", "decompose",
                   "deepdive", "verify", "dedup", "chain"}
POST_SCAN_ROLES == {"remediate", "validate"}
DEEPAGENTS_ROLES == {"remediate", "validate"}
Backends == {"cli", "sdk", "openai", "codex", "deepagents"}
AgenticRoles == {"preprocess", "verify"}

(* _iter_model_roles; the role validate is its orchestrator.               *)
Configured(p) == DOMAIN p.models
Via(p, r) == p.models[r].via
Vias(p) == {Via(p, r) : r \in Configured(p)}

Misplaced(p) ==
  {r \in Configured(p) : Via(p, r) = "deepagents" /\ r \notin DEEPAGENTS_ROLES}

-----------------------------------------------------------------------------
(* Credentials, by presence.                                               *)

Anthropic == {"ANTHROPIC_API_KEY", "ANTHROPIC_AUTH_TOKEN"}

(* The shared Anthropic variables do for sdk when it is the only backend.  *)
SdkKey(p, e, vias) ==
  \/ "sdk" \in p.keys
  \/ "ANTHROPIC_SDK_API_KEY" \in e.has
  \/ vias = {"sdk"} /\ Anthropic \cap e.has # {}

OpenAiKey(p, e) == "openai" \in p.keys \/ "OPENAI_API_KEY" \in e.has

CodexReady(e) == {"codex", "codex login"} \subseteq e.has

ServedByOpenAi(s) == IF s.provider = None THEN s.id # "claude" ELSE s.provider = "openai"

(* _backend_credential_ok: environment variables only.                     *)
BackendCredentialOk(s, e) ==
  CASE s.via = "cli" -> "claude" \in e.has
    [] s.via = "sdk" -> (Anthropic \cup {"ANTHROPIC_SDK_API_KEY"}) \cap e.has # {}
    [] s.via = "openai" -> "OPENAI_API_KEY" \in e.has
    [] s.via = "codex" -> CodexReady(e)
    [] OTHER -> IF ServedByOpenAi(s) THEN "OPENAI_API_KEY" \in e.has
                ELSE Anthropic \cap e.has # {}

(* What check_backends asks of the backend of a role.                      *)
HasCredential(p, e, s) ==
  CASE s.via = "sdk" -> SdkKey(p, e, Vias(p))
    [] s.via = "openai" -> OpenAiKey(p, e)
    [] OTHER -> BackendCredentialOk(s, e)

(* A bug that could be: a gap concerns every role.                         *)
BugSharing(p, r) == Configured(p)

(* The roles a missing credential of r concerns: those of its backend, and *)
(* under deepagents those of its model and provider.                       *)
Sharing(p, r) ==
  {q \in Configured(p) :
     /\ Via(p, q) = Via(p, r)
     /\ Via(p, r) = "deepagents" => p.models[q] = p.models[r]}

PostScanOnly(roles) == roles # {} /\ roles \subseteq POST_SCAN_ROLES

Gaps(p, e) == {r \in Configured(p) : ~HasCredential(p, e, p.models[r])}

(* _report_credential_gap; a gap of codex is fatal whoever it concerns.    *)
FatalGaps(p, e) ==
  {r \in Gaps(p, e) : Via(p, r) = "codex" \/ ~PostScanOnly(Sharing(p, r))}

(* _gateway_check: a gateway's token and no gateway.                       *)
GatewayGap(e) ==
  {"ANTHROPIC_API_KEY", "a JWT"} \subseteq e.has /\ "ANTHROPIC_BASE_URL" \notin e.has

-----------------------------------------------------------------------------
(* The live probe.                                                         *)

Target(s) == [id |-> s.id, via |-> s.via]
RolesAt(p, t) == {r \in Configured(p) : Target(p.models[r]) = t}

(* The provider of a deepagents role is not passed on.                     *)
Answers(p, e, s) ==
  /\ Target(s) \in e.up
  /\ HasCredential(p, e, IF s.via = "deepagents" THEN [s EXCEPT !.provider = None] ELSE s)

Unreachable(p, e) ==
  {t \in {Target(p.models[r]) : r \in Configured(p)} :
     \A r \in RolesAt(p, t) : ~Answers(p, e, p.models[r])}

(* The tools a role asks for, by whether a shell is among them.            *)
Shell(p, r) == r \in p.shell
TakesShell(v) == v \in {"cli", "sdk"}

(* sdk hands a call with a shell to a session of the Claude Agent SDK,     *)
(* which runs a Claude CLI.  It takes the variables of the environment, or *)
(* a login, but neither key nor endpoint of the profile.                   *)
Delegates(v, shell) == v = "sdk" /\ shell
SessionStarts(e) == {"claude", "bundled claude"} \cap e.has # {} /\ "session" \notin e.deaf

SessionAnswers(e, id) ==
  /\ (Anthropic \cup {"ANTHROPIC_SDK_API_KEY", "claude login"}) \cap e.has # {}
  /\ [id |-> id, via |-> "session"] \in e.up

AgenticTarget(p, r) == [id |-> p.models[r].id, via |-> Via(p, r), shell |-> Shell(p, r)]

(* A bug that could be: preprocess stands for both.                        *)
BugAgenticTargets(p) == {AgenticTarget(p, r) : r \in {"preprocess"} \cap Configured(p)}

AgenticTargets(p) == {AgenticTarget(p, r) : r \in AgenticRoles \cap Configured(p)}

(* The agentic path does not raise.                                        *)
PathWorks(e, v, shell) ==
  IF Delegates(v, shell)
  THEN SessionStarts(e)
  ELSE v \notin e.deaf /\ (shell => TakesShell(v))

(* A session whose result is an error does not raise: _run returns the     *)
(* text of whatever result there is.                                       *)
AgenticWorks(p, e, t) ==
  /\ t.via # "deepagents" /\ PathWorks(e, t.via, t.shell)
  /\ ~Delegates(t.via, t.shell) => Target(t) \notin Unreachable(p, e)

(* probe_backends.                                                         *)
Probed(p, e) ==
  /\ Misplaced(p) = {}
  /\ \A t \in Unreachable(p, e) : PostScanOnly(RolesAt(p, t))
  /\ \A t \in AgenticTargets(p) : AgenticWorks(p, e, t)

(* check_backends.                                                         *)
CheckBackends(p, e) ==
  /\ Misplaced(p) = {} /\ FatalGaps(p, e) = {}
  /\ ~(Vias(p) \cap {"cli", "sdk"} # {} /\ GatewayGap(e))
  /\ Probed(p, e)

-----------------------------------------------------------------------------
(* setup and doctor.                                                       *)

(* config_check takes the backend of models.validate from the block, which *)
(* has none of its own, and not from its orchestrator.                     *)
SetupVia(p, r) == IF r = "validate" THEN "cli" ELSE Via(p, r)
SetupRoles(p) == Configured(p) \cup (IF p.panel THEN {"validate"} ELSE {})
SetupVias(p) == {SetupVia(p, r) : r \in SetupRoles(p)}

(* config_check: the findings that block.                                  *)
Blocking(p, e) ==
  {r \in SetupRoles(p) : SetupVia(p, r) = "deepagents" /\ r \notin DEEPAGENTS_ROLES}
  \cup {v \in SetupVias(p) :
          \/ v = "sdk" /\ (GatewayGap(e) \/ ~SdkKey(p, e, SetupVias(p)))
          \/ v = "openai" /\ "OPENAI_API_KEY" \notin e.has
          \/ v = "codex" /\ ~CodexReady(e)
          \/ v = "cli" /\ "claude" \notin e.has}

SetupReady(p, e) == Blocking(p, e) = {}
DoctorReady(p, e) == SetupReady(p, e) /\ Probed(p, e)

-----------------------------------------------------------------------------
(* What the calls of a role need, whatever anyone checked: its backend for *)
(* its prompts, a path for its agentic calls, or a session of its own.     *)
Delegated(p, r) == r \in AgenticRoles /\ Delegates(Via(p, r), Shell(p, r))

PromptsWork(p, e, r) == HasCredential(p, e, p.models[r]) /\ Target(p.models[r]) \in e.up

CallsWork(p, e, r) ==
  /\ Via(p, r) # "deepagents"
  /\ r \in AgenticRoles => PathWorks(e, Via(p, r), Shell(p, r))
  /\ IF Delegated(p, r) THEN SessionAnswers(e, p.models[r].id) ELSE PromptsWork(p, e, r)
=============================================================================
