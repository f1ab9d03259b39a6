# A TLA+ model of vvaharness

`vvaharness` is a static-analysis harness: a pipeline of stages S0–S11, driven
from the command line over one repository or a batch of them, whose stages ask
language models questions through subprocesses or client libraries. Much of its
text is about prompts, parsing and layout. What is hard to get right, and hard
to test, is elsewhere: worker pools whose members wait for child processes that
may never answer, a process-global abort flag, nested retry loops, a checkpoint
table that several scans share across crashes, lists of findings that are
filtered, merged and reordered while others point into them, an analysis of the
program under scan whose silent omissions nobody sees, edits and verdicts on a
repository that moves meanwhile. This directory models those parts, checks them
with TLC and proves theorems about them with TLAPS. Paths below are relative to
`src/vvaharness/` unless they start with `src/`.

## The system

| Component | State | Operations | Interacts with | Hard behaviour | What makes it correct |
|---|---|---|---|---|---|
| `backends/claude_cli.py` | `_ABORT` event, `_LIVE` set, retry counters per call | `prompt`, `agentic`, `_run_with_retry`, `_run`, `abort`, `reset_abort` | called by every stage; spawns the `claude` CLI | children that hang, three nested retry loops, abort racing with registration | an abort reaches every child; retries are bounded; every call ends |
| `backends/codex_cli.py` | its own `_ABORT`, `_LIVE` | `_run`, `abort` | as above, spawns `codex exec` | prompt written before the timeout counts; the flag read once | the same |
| `backends/llm.py` | the routing of roles to backends | `resolve`, `abort`, `aborted`, `reset_abort` | stages, batch driver | two flags behind one question | either flag stops everybody |
| `backends/oai.py`, `sdk.py`, `agent_sdk.py`, `localtools.py` | the module's client, the marks about refused parameters, a call's history | `_get_client`, `prompt`, `agentic` | stages, model services | parameters refused in any order; conversations that outgrow the model; threads that meet at the client | a call is lost only when nothing is left to drop or cut; every call ends |
| `backends/harness/` | a session | `run_streaming` | S10, S11 | sessions that end badly after they answered | an ending that is not a success counts for nothing |
| entry point, `orchestrator/preflight.py`, `cli.py`, `util/environment.py` | none between commands | `scan`, `setup`, `doctor`, the gates of S10 and S11 | configuration, machine, repository | one check stands for many roles; commits arrive between the checks and the edits | what passes can run; edits are made at the commit of the report |
| S4 `pipeline/stages/s4_deepdive.py` | futures, votes, outcomes | `run`, `_deepdive_chunk`, `_single_run` | pool of calls, `llm.abort` | runs that fail beside runs that succeed; Ctrl-C anywhere | outcomes are the truth about the chunk; nothing survives the stage |
| S6 `pipeline/stages/s6_verify.py` | verified, dropped, refusals | `run`, `_verify_one` | the same | guardrail fail-fast depends on completion order | every finding in one place, for a true reason |
| `orchestrator/scan.py` | results in memory, `step1.yaml` | `scan_repo` | all stages, `checkpoints.py` | crash between a stage and its save; `--stop-after` with the row three stages share | a resumed scan equals an uninterrupted one |
| `orchestrator/checkpoints.py`, `store.py` | the checkpoint rows (SQLite) | `save_ckpt`, `load_ckpt`, `reset_run`, `delete_run`, `prune_checkpoints` | scan, remediation, validation | rows not saved, rejected or evicted under a scan | nothing stale is loaded |
| `orchestrator/batch.py`, `cleanup.py` | staged clones, markers, summary | `run_batch`, `_acquire_repo`, `_stage_repo`, `_purge_clone` | `scan_repo`, `reset_abort` | one repository fails, the next must not notice | repositories are independent |
| S0 seed + `callgraph_engine` | facts, call graph, taint | `build_seed`, closures over the graph | S1, S3 | order of closures, limits | a flow that is there is found |
| S1, S3, code loading of S4 | inventory, chunks, pages | `run`, packing, slicing | S0's seed, the strategist's answers | collapsing, size limits, passes that rely on each other | no file and no flow falls between the passes |
| votes of S4, S5, S7, S8, enrichment | the list of findings, drops, duplicates | `run` of each stage | scan, CMDB, report | positions in lists that change; merges of merges | every finding is accounted for, every reference points home |
| S2 threat model | its checkpoint | `run` | scan | may fail and is survived | the scan goes on |
| `remediation_agent/` (S10) | per-finding rows and artefacts, pre-edit snapshots, git's index | `process_findings`, `run_interactive`, `apply_plugin`, pre- and post-gate, `write_verdict` | checkpoints, repository, git, the user's own edits | edits the agent does not mention; reverts beside other people's edits; a crash between a fix and its row; findings that move | no gated edit of a forbidden file stays or is shown; nobody else's edit is lost; a skip has its report |
| `validation/` (S11) | workspaces, checkpoints, the DTOs and the combined report it shares with S10 | `run_validation`, `stage_workspace`, `launch_session`, `write_back_validation`, `augment_reports` | S10, harnesses | resume after a patch was renewed; leftovers of killed runs; panels that do not agree | a verdict is about the patch that is there, earned in this run |
| `report/`, `util/`, `lang/`, `rules/`, `injectors/`, `config/` | tables, counters, logs | formatting, look-ups | everybody | little | — |

A scan calls the stages in order; a stage of model calls opens a thread pool,
submits its tasks and consumes them as they complete; a worker makes its calls
through `llm.py`, which routes them to a backend. The stage's main thread is
the only one that sees Ctrl-C; it calls `llm.abort()`, which sets the flags the
workers look at and kills the children they wait for. The batch driver calls
`reset_abort()` between repositories. Stages hand their results to the
orchestrator, which saves them and, with `--resume`, loads them instead.

## Modules

    AgentCalls     a model call through a subprocess backend; abort() of a backend
      StagePool    the thread pool of a stage and its main thread
        DeepDive     S4: runs per chunk, outcomes              MCDeepDive (TLC instance)
          DeepDive_proofs
        Verify       S6: verdicts, drop reasons, next repository   MCVerify
          Verify_proofs
    StageContract  what S4 and S6 promise about their tasks (abstract)
    ApiCalls       a model call through a client library       MCApiCalls
      ApiCalls_proofs
    ScanResume     scan_repo over the checkpoint table
      ScanResume_proofs
    BatchStaging   the workspace of the batch driver           MCBatchStaging
      Commands_proofs (with ScanCommand)
    SeedGraph      S0: facts, sources and sinks, call graph, taint
      CodeScope    S1: the walk, collapsing, entry points, context
        Decompose    S3: chunks; S4: the code loaded for them
          Analysis     S0, S1, S3 and S4's loading in a row    MCAnalysis
    Lists          lists, the places in them, reachability     (pure)
    FindingFlow    S4's votes, S5, S6, S7, S8, enrichment      MCFindingFlow
      Findings_proofs (with Analysis)
    Remediation    the remediation sessions and their policy gate   MCRemediation
      Remediation_proofs
    PatchLifecycle what S10 and S11 promise about a patch (abstract)
    PanelVerdict   S11: consensus of personas, score           (pure)
    CombinedReport the Markdown and SARIF that S10 and S11 share   (pure)
      Validation     S11 over the DTOs of S10; refines PatchLifecycle   MCValidation
        Validation_proofs
    Readiness      credentials, probes, setup, doctor          (pure)
      ScanCommand    a command from arguments to exit code     MCScanCommand
        Commands_proofs (with BatchStaging)

**AgentCalls.** `pc[w]` is the line a worker thread stands at in
`claude_cli._run_with_retry`/`_run` or `codex_cli._run`; `child[w]` the process
it started; `live` the `_LIVE` set; `flags` the backends whose `_ABORT` is set;
`budget` the three retry counters. One action per atomic step between two
looks at shared state: `EnterCall` (first look at `_ABORT`), `Spawn` (Popen),
`Register` (`_LIVE.add`), `Recheck` and `Heartbeat` (claude only), `FeedPrompt`
(codex only: stdin is written before the timeout is armed), `TimesOut`, the
three ways of `Reap`, `BackoffCheck` and `BackoffOver`. `ChildExits` is the
environment. `SetAbort` and `KillLive` are the two halves of a backend's
`abort()`. An answer is one of five classes, because the code tells no more
apart here; a child killed by `abort()` may leave text that the claude retry
classifier takes for transient, and it does look at that text. `late` is a
history variable: the children a thread started after the abort.

**StagePool.** `fut`, `job` and `main` are the futures, the work in hand and
the main thread. `Submit`, `InterruptSubmit`, `InterruptCollect`, `AbortCli` …
`CancelQueue` and `Join` are the steps of `run()` in both stages, whose pool
code is the same. A `shutdown(wait=True)` is enabled when the threads are idle.

**DeepDive.** `StartChunk`, `StartRun`, `SkipRun`, `EndRun`, `EndChunk` are
`_deepdive_chunk`; `Collect` is the body of the `as_completed` loop with its
exception handlers. `seen` is a history variable: how the runs of a chunk ended.

**Verify.** `AskVerifier` and `EndFinding` are `_verify_one`, `Collect` is the
loop body, `NextRepo` the `reset_abort()` with which the batch driver turns from
a repository that failed to the next one. `asked` is a history variable.

**StageContract** is the abstract specification of S4 and S6: a stage begins its
tasks in their order, ends and records each once, as it ended, gives up exactly
when enough were refused and none succeeded, withdraws what has not begun, and
is silent once it returned or raised. It knows no thread, child, retry or flag.
`Standing`, `StageState` (StagePool) and the stage's record (`outcomes`;
`Ledger` in Verify) are the refinement mapping, the same for both stages.

**ScanResume.** One process after another runs `scan_repo` on the same
repository. `doing` and `stage` say where the process stands, `mem` what it
holds, `ckpt` the rows. A result is abstracted to its provenance: the fresh scan
it belongs to (`gen`), which execution of its stage made it (`n`), and which
execution of the stage before it was read (`up`). `Advance` is what follows the
end of a stage, `Load` the `load_ckpt`-or-run at its head, `Save` and
`SaveOversize` the two ends of `save_ckpt`, `LoadRejected` a row `load_ckpt`
does not trust, `Crash` any death of the process, `GcRun` an eviction. The model
has step 2 enabled, and S5, S6 and S7 share one row as they do in the code.

**BatchStaging.** Batches of one manifest follow each other in one workspace.
`tree[d]` is what stands in a directory: code of one entry, whole or in part,
and whether the report folder of a scan is there; `marker[d]` is the entry named
by the directory's marker file. A batch goes through units, which are entries or,
with `--group-by-app`, applications (`unit`, `todo`, `staged`), and `doing` says
at which step. `Reuse`, `Clear`, `ClearFails`, `Copy`, `CopyFails`, `CopyBreaks`,
`Mark` and `MarkFails` are `_acquire_repo` and `_stage_repo`; `StartScan` creates
the report folder, as `scan_repo` does first of all; `Purge` and `PurgeFails` are
`_purge_clone` in the `finally` clause; the three `BreakOff` actions are Ctrl-C
(through that clause) and the death of the process. `faults` counts the
accidents that leave files half copied, half deleted or unmarked, so that
properties can say what holds without them. `Dest` is where an entry goes:
ungrouped by its name; grouped by its slug, which `_assign_slugs` makes distinct
within the application before `_acquire_repo` sanitises it, so that two may
become one directory (`SlugOf`).

**Remediation.** Sessions of S10 follow each other on one repository; between them
the user edits files (`UserEdits`) and scans again (`Rescan`), which may list the
findings in another order and, when the scan is fresh, deletes the rows. `list`
and `pos` are the report and the place in it, `rows` the checkpoints by position,
`reports` the artefacts on disk. A text is abstracted to the set of those who
edited it (`disk`), and `added` is what `git add -N` put into the index, which is
how diffs and reverts come to know new files. `PreDeny`, `CallModel`,
`AgentEdits`, `AgentAnswers` with `PostGate`, `WriteReport` and `SaveRow` are the
steps of `remediate_one` and `apply_plugin` (`AgentFails` and `WriteFails` their
exceptions), `Skip` is `--resume`. The agent edits what it likes and says what it
likes: `answer.changes` need not be what it `touched`, a history variable.
`excused` is another: the files of calls that raised or were cut off, which no
gate has seen, and those that escaped the gate. For git may be told to ignore
files (`ignored`): its list of changes leaves them out, and where it lists
anything at all, the harness's own artefacts included (`Artefacts`), the work tree
is not searched. `Unseen` is what the agent then touched without a word, and
`unseen` the history of it.

**ApiCalls.** `call[c]` is the local state of a call of `oai.py` or `sdk.py`: the
parameters of its request (`kw`), the attempt, the turn, the retries and the
oversized tool results of its history. `marks` are the module's sets of models
that refused a parameter before, `client` the client that `_get_client` builds
under a lock (`MissClient`, `LockClient`, `BuildClient`). `PromptRefused` is the
branch that drops or swaps a parameter, with `AttemptAgain` as its count of
attempts; `Overflow` evicts the oldest large result (`_shrink_history`) or gives
up; `AgenticTools` runs the tools of `localtools`; `Delegate` hands a call that
needs more than local tools to the Agent SDK, whose `_gate` is `Allowed` and whose
session has no time limit (`InSession`). The gateway answers as it likes but
always refuses what it refused before.

**SeedGraph, CodeScope, Decompose, Analysis.** Pure operators for the three
stages that decide what a researcher will read, and four actions that run them
in a row on a program chosen at the start, with the models' answers chosen when
asked. A program is a sequence of statements, one to a line; the engine's facts,
`TransferClosure`, `Seed` and the walk over the call graph are computed from it
the way `_scan.py` and `_graph.py` do, and the chunks and pages from them.
The chunks of
S3 are a set, since their order is left out; a bucket of `_pack` is known by the
place of its first file (`BucketStarts`). `FlowsInside` in Analysis is the
reference: an interpreter that follows values step by step inside a function,
without the engine's summaries. A taint chunk over the limits of a chunk of risk
(`Fits`) is split file by file like any other, and `FlowsReviewed` follows its
parts (`PartsOf`).

**FindingFlow.** The list of findings as it goes through the stages: `votes`,
`live` (what is handed on, in order), `verified`, `dropped`, `duplicates`,
`report`. A stage is a few actions, and a call is one step (how calls fail is
Verify's and DeepDive's matter). A stage picks from the list it is given
(`Picked`), so a filter is the set of places it keeps. `Merge` and `Attached` are
`_attach_duplicates`, `Hydrated` is `_hydrate_report` with its remapping of
indices. Three history variables: `into`, the finding that absorbed a finding;
`home`, the one that stands for it now; `meant`, the findings the model named in
its chain.

**Validation, PanelVerdict, CombinedReport.** Runs of S11 follow each other,
and S10 may renew patches in between (`Remediate`). `dto[f]` is what of a
`remediate_report.json` matters, with the number of its patch and of the patch
that was judged last; `ckpt`, `ws`, `repo`, `md` and `sarif` are the
checkpoints, workspaces, root files and combined report. `ResumeHit`, `Refuse`,
`Stage`, `StageFails`, `Session`, `NoBinary`, `WriteBack` and `Save` are
`_process_report` and `_validate_one`; `Crash` may come between any two. What a
session comes back with is a constant per harness; `PanelVerdict` counts its
votes (`Consensus`) and scores its gates in hundredths of a percent.

**PatchLifecycle** is the abstract specification of S10 and S11 together: S10
gives a finding a new patch, S11 gives a patch that is on disk a verdict, one
finding at a time, and nothing else happens to it. Validation implements it
under the mapping `Life`, which reads the standing of a patch off its DTO: the
status, or `stale` when that status was given to an earlier patch. The abstract
specification has no such standing, so a stale verdict is a step it does not
allow.

**Readiness, ScanCommand.** `Readiness` holds what `check_backends`,
`probe_backends`, `config_check` and `doctor` conclude from a profile and a
machine, and `CallsWork`, what the calls of a role really need. A role of sdk
with a shell is not refused but delegated to a session of the Agent SDK
(`Delegates`), which has needs of its own: a Claude CLI, installed or bundled,
that starts (`SessionStarts`), and a credential of the environment for a model
that answers (`SessionAnswers`). `ScanCommand` runs commands one after the other,
with `--resume`, `--stop-after`, kills and commits in between; the stages are one
step each, and a result is abstracted to the commit it speaks of. `HeadSha` is
what git says of the commit: in a repository that, or nothing, since git may
fail or take too long.

The operators named `Bug…` are changed forms of the definition that follows
them, each a slip one could make in that code. Nothing uses them; put in the
place of the definition they show that the properties notice.

## What is checked

| Run | Module | Shows | Distinct states |
|---|---|---|---|
| `deepdive` | MCDeepDive | S4 implements `StageContract` (`ImplementsContract`), an abort reaches every claude child (`CliAbortReachesAll`), at most one child per thread is started after it (`AtMostOneLateChild`), the stage leaves no thread and no child behind (`QuietOnExit`), outcomes are true (`OutcomesTruthful`), the pool always ends (`PoolEnds`), Ctrl-C ends it (`AbortEnds`) | 833 490 |
| `verify` | MCVerify | S6: every finding is in one place for a true reason (`VerdictsTruthful`), a report never counts a call its own abort cut off (`NoAbortInReport`), clearing the flags between repositories revives nobody (`ResetRevivesNobody`) | 1 250 337 |
| `scan_resume` | ScanResume | nothing stale is used (`FreshSlate`), resumed and recomputed results fit together (`Coherent`), a crash costs one stage (`CrashCostsOneStage`), `--stop-after` holds for the shared row (`StopHonoured`) | 3 016 389 |
| `batch` | MCBatchStaging | a scan works on its own entry's code, unless two slugs of a group became one directory (`ScansOwnCode`), an undisturbed batch leaves no source behind (`NothingLeft`), reports survive later purges and stagings (`ReportsKept`) | 90 002 |
| `remediate` | MCRemediation | gated edits of forbidden files are gone, mentioned or not (`ForbiddenKept`), a fix is claimed only for calls that made none (`ClaimIsClean`), no report shows one (`PatchIsClean`), all three but for ignored files the gate could not see, a processed finding has its own report (`SkipsAreDone`), nobody else's edit is taken back (`OthersEditsKept`) | 1 219 300 |
| `findings` | MCFindingFlow | every finding is reported once or dropped once, for a counted reason (`Accounted`), positions survive every reordering (`IndicesHome`), an absorbed call site stays with what stands for it in the end, or overlaps what absorbed it (`SitesKept`), P1 and P2 rest on the CMDB (`ExposureBacked`) | 162 525 |
| `analysis` | MCAnalysis | the seed has every flow the interpreter finds (`FlowsFound`), collapsing loses no suspicious value (`SignalsKept`), every file is in a chunk or on the list of those left out (`Covered`), a flow between files is put before a researcher with source and sink in view, or before two where its chunk is split for its size (`FlowsReviewed`) | 15 086 |
| `api_calls` | MCApiCalls | no call is lost to its parameters (`ParametersNeverLose`) or to its length (`OverflowIsLast`) while something can be dropped or cut, threads share one client (`OneClient`), every call ends that does not wait for a session (`CallsEnd`) | 513 177 |
| `validate` | MCValidation | S10 and S11 implement `PatchLifecycle` (`ImplementsLifecycle`), "validated" is earned in this run by the critical gates (`ValidatedIsEarned`), report and DTO say the same (`ResultAgreesWithDto`) | 1 162 312 |
| `scan_command` | MCScanCommand | who passes preflight or doctor can make every call of detection, as far as a probe can tell of a delegated one (`DetectionReady`), what only S10 and S11 lack does not stop a scan (`GapsDegrade`), S10 edits only at the commit of the report, as far as git told it (`EditsKnowTheHead`) | 1 623 070 |
| `doctor_agrees`, `staged_over` | | one disagreement each between the code and its documentation, see below | |

**Bounds.** The pools have two workers: the races modelled are between a worker
and the main thread, or between two workers for the queue, and every look at
shared state is a step of its own. S4 has two chunks, one with a single run and
one with two, so that a run can fail beside one that succeeds; S6 has three
findings, so that one is still queued while two run. The retry limits are 1 (code:
4, 1 and 3), which is enough for every branch of each loop, and 0 in S6 for the
loops S4 already covers, where `PendingMaxRetries` is 1 instead: only S6 is
agentic. `GuardrailFloor` is 2 (code: 3), so that the gate can be reached with
three tasks. The theorems about S4 and S6 hold for all values of these.

- Scans: three in a row (one to leave something behind, one to fail, one to
  resume), at most two crashes and one lost row since the last fresh scan, and the
  `--stop-after` values around which the branches of the code lie: at ordinary
  rows, at the two steps that share S7's row without saving it, and after it.
  `Oversize` is the stage with the largest payload. The model of scans has no
  concurrency within a scan, and the reset ends what a former scan can influence,
  which is why the third scan is the last interesting one.
- Batches: three in a row, so that a directory can be staged, purged and reused,
  over four entries: two of the same name in different applications, which share a
  directory when not grouped and none when grouped; a local one, which is copied
  only in a group; and a remote one with a name of its own, whose reports must
  stay, but with a slug that becomes the directory of another entry of its
  application. One accident is allowed; the properties of the run are about
  batches without any, and the accident exists so that `MarkerProves` (below) can
  be seen to fail.
- Remediation: two findings in one build file, which is forbidden, so that one
  finding's revert can hit the other's edits, and a forbidden file that does not
  exist at first, so that there is something to create; two sessions, so that the
  second can resume; one crash; both orders of the report; a git repository that
  ignores the build file or does not, or none; one finding the policy denies.
  `Enforce` is TRUE in the instance, while the proofs take either value. The user
  edits between sessions only, and never commits. A crash within the post-gate is
  not told from one within the call.
- API calls: two threads, one model per behaviour that takes any subset of the
  parameters, prompts with and without temperature, thinking and a limit too
  large, agentic calls with tools the loop has or has not. `BaseAttempts` and
  `MaxAttempts` are the code's 3 and 6; the retries of a turn, the evictions and
  the turns are cut to 1, 2 and 2, enough for each to run out before, after and
  together with the others.
- Analysis: a Python view and its store, a Java service and its runner, a page in
  a language the engine does not parse, deployment files of one shape, documents
  and tests; of 23 statements 15 are always there and the others come and go in
  every combination, so that flows appear through copies, fields, returns, helpers
  and sanitizers; the suspicious values of the deployment files vary for one of
  the programs. The limits of chunks and walks are small enough to bind, except
  `MaxFiles` for a chunk of risk, whose lines exceed `RiskLoc` first, and
  `MaxTaint`: beyond that cap flows are left to the other passes, and
  `FlowsReviewed` does not speak of them. With 40 lines to a chunk of risk the
  flow from the view to its store is split, and the one from the service to its
  runner fits.
- Findings: six, so that two share a key, three form a chain of near duplicates,
  one stands in a test, and one, of another class, overlaps a link of that chain
  and not the next, so that only a model merges it; two chunks, one of which
  votes; a threshold low enough for the additional semantic pass of S5, so that a
  finding can be absorbed three times over; one severity band and three endings of
  a verification.
- Validation: two findings whose titles overlap, one of which S10 may remediate
  twice; two runs, one crash; the sessions are those between which the code tells,
  among them nine ways a panel's votes can fall and five panels that are
  incomplete. `Selections` is any sequence of validatable findings, repetitions
  included, as `--finding` allows.
- Commands: two in a row (a scan and its resume, or another's), one commit, eight
  profiles (the shipped default, sdk, codex and full, mixtures of backends, and
  two with a role that sdk delegates), fourteen outfits of programs and variables,
  and on top of it at most one thing that is broken: any one model, the claude
  CLI, or the session of the Agent SDK. git may fail to answer each time it is
  asked.

**Fairness** (`FairSpec`, used by `deepdive`): the operating system schedules
every thread, so the steps of workers and of the main thread are weakly fair.
Children never are: a child may hang for ever, and nothing obliges anybody to
press Ctrl-C. A timeout is fair only as long as nothing is aborted, because what
an abort must show is that the stage ends *without* waiting for one; and writing
a prompt is fair only into a child that no longer runs, because a pipe may be
full. For this last reason `PoolEnds` and `AbortEnds` speak of the claude
backend alone: with codex a hanging child that does not read its stdin stops the
pool for ever, since the timeout is not armed yet.

In `ApiCalls` the steps of a call are weakly fair: a thread that is ready runs,
and a request is answered or times out, with the caller's time limit or the client
library's own. The steps of a delegated session are not: `asyncio.run` waits for a
Claude CLI without a limit, and `max_turns` is passed on only if it is set
(`backends/agent_sdk.py:273-305,344`). `CallsEnd` therefore allows a call to wait
in its session for ever. Nothing is assumed of what the answer is. The other
modules state no liveness: whether a user starts another run is up to the user.

**Deadlock** is checked in every run but the two of `ScanCommand`, where the
bounds on commands and commits stop the model; `Rest`, `Done` and `AllEnded`
let the others rest only where everything has ended.

## Where code and documentation disagree

With a run of their own:

1. `doctor_agrees`: `config_check` reads the backend of `models.validate` from a
   field that role does not have, and takes it for cli; credentials are also
   checked by other rules. `doctor` calls machines not ready on which the scan
   starts, and the reverse, though it is said to exercise "the same path the
   real scan will use".
2. `staged_over`: a workspace is made of hard links, and `diff.patch` and
   `manifest.json` are then written in place, so a repository that has such
   files in its root finds them overwritten by a panel documented as read-only.

Stated in the modules, refuted by TLC when added to the module's configuration,
and kept here without a run:

3. `CodexAbortReachesAll` (DeepDive): `codex_cli._run` reads `_ABORT` before it
   starts a child and never again, so a child registered after `abort()` took
   its snapshot is not killed.
4. `GuardrailDisclosed` (DeepDive): `_deepdive_chunk` swallows the refusals
   `run()` is written to count. `NoGuardrailOutcome` proves that the outcome
   "guardrail" cannot occur at all.
5. `InterruptAborts` (DeepDive): the submit loop stands before the `try`.
6. `OverlayOfThisScan` (ScanResume): the derived `step1.yaml` is not part of a
   fresh scan's reset, and a later `--resume` may apply one made before it.
7. `ScannedIsWhole` (BatchStaging): a purged checkout keeps its report folder
   and its marker, so the next batch takes it for a verified checkout. The
   obvious repair, not to count the reports as content, makes the re-clone
   delete them: the mutant of `ReportsKept` is that repair.
8. `MarkerProves` (BatchStaging): the marker of the former entry is not removed
   when a directory is staged for another; if that is cut off, it vouches for
   the wrong code.
9. `UntouchedStay` (Remediation): a snapshot of a file that is not UTF-8 text
   reads as "did not exist", and the revert deletes it. Outside git all
   forbidden files are revert candidates, so the gate deletes such files
   although no agent touched them.

Met while modelling, visible in the models' states, and named as exceptions in
the properties where they concern one:

- Slugs of a group are made distinct before they are sanitised, so "every repo
  gets its own directory" (`orchestrator/batch.py:142-143`) fails for "a b" and
  "a_b" of one application: the later one's code is scanned for both
  (`ScansOwnCode`).
- git's list of changes is called authoritative
  (`remediation_agent/policy/postgate.py:138`), but leaves out what git ignores.
  An edit of an ignored forbidden file that the agent does not mention is neither
  taken back nor held against it, as soon as git lists anything else
  (`ForbiddenKept`, `ClaimIsClean`); by way of the snapshot it may turn up in the
  report's diff (`PatchIsClean`).
- `_add_taint_chunks` "guarantees the s4 researcher sees source AND sink together"
  (`pipeline/stages/s3_decompose.py:685`), and the split of large chunks of
  risk that follows (lines 962-1002) parts them (`FlowsReviewed`).
- The docstrings of the agentic probe (`orchestrator/preflight.py:336-338,355-357`)
  say that sdk rejects a shell; it delegates to the Agent SDK
  (`backends/sdk.py:454-470`). The probe of such a role passes whenever the
  session comes back, also with an error (`DetectionReady`), and has no time
  limit. On the other hand the role is refused for the endpoint of prompts it
  never makes (`GapsDegrade`).
- A moved commit is refused "when the working tree has moved since the scan"
  (`orchestrator/scan.py:47-49`), but where git fails or needs more than 20
  seconds there is no commit to compare, and S10 goes on unforced
  (`EditsKnowTheHead`).
- The comment in `config/profiles/taint.yaml:211-214` says that a file without a
  resolved span is cut to its first lines and one past the cap of functions loses
  its tail; `_load_graph_slice` ships both whole
  (`pipeline/stages/s4_deepdive.py:1012-1020`).
- A gap of S10 or S11 is announced as "that stage will be skipped"
  (`orchestrator/preflight.py:484-488`), but the gates of these stages look at
  variables of the environment only: a model that is down is found out by the
  stage. A gap through codex or the Anthropic gateway is fatal although only
  S10 needs it (`GapsDegrade` excepts both).
- The commit is pinned when S8 ends, not when the lines were found, and
  uncommitted edits are not noticed (`orchestrator/scan.py:648-672`).
- An empty panel on deepagents leaves the self-reported gates standing
  (`validation/session/launcher.py:198-227`), and `ValidatedIsEarned` therefore
  asks for the panel only where it spoke.
- An answer under a blank tracking id is scored "not fixed" in the report while
  the DTO becomes validated; under a foreign id the report uses another's gates
  (`ResultAgreesWithDto` is stated for the finding's own id).
- A resumed verdict of an older patch enters the combined report; hard failures
  are checkpointed and resumed; a crash between the write-back and the
  augmentation leaves the report without its section; running S10 again strips
  the Validation sections of all findings.
- The fallback that matches a heading by substring can attach a section to
  another finding (`validation/report/augment.py:294-306`), and findings at one
  location share one SARIF result.
- A call site that overlaps the finding that absorbs it is not recorded
  (`pipeline/stages/s7_dedup.py:96-104`), since that finding covers it. When the
  latter is absorbed in its turn, by one that it overlaps and the first does
  not, the report names no line of the first: ranges 30-40 into 20-32 in S5,
  that into 15-21 in S7. `DupLocation` is documented as what lets the report
  "surface every site that needs remediation" (`models.py:1231-1235`).
  The stronger claim, with `SameSite(f, home[f])` for `SameSite(f, into[f])` in
  `SitesKept`, is refuted by TLC.
- Where hard links fail, the copy that follows finds the directory half made and
  raises (`StageFails`).
- `prompt()` of `oai.py` returns from `max_tokens` to the newer name without
  taking off the mark; later calls start from the wrong name again and recover
  within their attempts.

## What is proved

The theorems hold for every number of workers, chunks, findings, runs and
retries, and for every set of backends; for scans, for every number of scans,
crashes and lost rows and every choice of stops; for batches, for every manifest
and number of batches and faults; for remediation, for every set of files and
findings, order of reports, number of sessions and crashes, and with the policy
enforced or not; for API calls, for every number of threads, retries and turns;
for validation, for every set of findings, sessions, runs and crashes; for
commands, for every set of profiles, machines and command lines; for findings,
for every finite set of them with any attributes, any votes, verdicts, groupings
and rankings. They use only the `ASSUME`s of the modules (constants have their
types; at least one task, a finite set of workers, at least one entry; the
defaults a profile's loader fills in; findings are finitely many and their
confidence is a number) and what a theorem names as its assumption.

*S4* (`DeepDive_proofs`). `TypeCorrect`, `CliAbortIsComplete`, `ExitIsQuiet` and
`OneLateChild`: none of these is inductive alone. The invariant `IInv` adds
`CallShape` (a worker without a task is idle; where in a call there is a child,
and when it is registered), `FlagShape` (which flags are set at which step of
the main thread), `ExitShape` (the main thread is out of a joined pool only when
all threads are) and `LateShape` (a thread that has started a child after the
abort will see the flag before it can start another: it is at a place from which
every way leads past a look at `_ABORT`). The re-check after registration is what makes
`CliAbortReachesAll` inductive; without it (codex) it is false.

`OutcomesAreTruthful` and `NoGuardrailOutcome`: `OInv` adds that a task is owned
by at most one worker (`OwnerShape`), that a future's value agrees with how the
runs ended (`FutureShape`), that before the abort nobody has seen an aborted call
(`CleanShape`), and that "guardrail" is never recorded (`RecordShape`): a
refusal reaches a future only when the backends are aborted, and then the main
thread collects no more.

`DeepDiveKeepsContract`: S4 implements `StageContract`. Taking a chunk maps to
`Begin`, a future's delivery to `End`, `Collect` to `Record`, emptying the queue
to `Withdraw`, leaving the pool to `Return` or `Raise`, and every other step of
threads and children to nothing. `QueueShape` says that what is submitted is a
prefix of what is to be, which gives the order, and that a main thread that
still collects has not yet enough refusals to give up; `GivingUp` turns the
stage's count of refusals into the contract's.

`PoolProgress` and `WorkRanksEnd`: why the pool ends, as far as it can be said
without fairness. Every step lowers the rank of the main thread or of a chunk
and raises none (`Settles`), or leaves these and lowers that of one thread and
touches no other (`Works`); a thread's rank orders lexicographically the runs
left, whether it is in one, the restarts left, the retries left, and the place
in the attempt. The three nested retry loops therefore cannot feed one another,
and what keeps a pool from ending can only be that no step is taken: a child
that hangs. `PoolEnds`, that a step *is* taken, remains with TLC.

*S6* (`Verify_proofs`). `VerdictsAreTruthful`, `ReportsHideNoAbort`,
`ResetIsSafe`, `VerifyExitIsQuiet`, `VerifyAbortIsComplete`: a finding in work
is in one thread's hands and not answered for (`OwnerShape`), a delivered future
tells how the model call ended (`FutureShape`), no abort has begun while the
main thread is on its way to a regular return, so that no call was cut off
(`CleanShape`), and what is recorded is what the future holds (`RecordShape`).
That clearing the flags revives nobody rests on `ExitShape` and `CallShape`: a
pool that was joined has neither thread nor child, and the flags are cleared
behind a joined pool only. `VerifyKeepsContract`: S6 implements the same
`StageContract`. Here the guardrail gate does close (in S4 it cannot):
`QueueShape` says that, while the main thread collects, the refusals are not yet
enough to give up, and `GivingUp` that the stage's counters, at the refusal that
closes the gate, say what the contract reads off its ledger.

*Scans* (`ScanResume_proofs`: `ScanTypeCorrect`, `FreshScanIsFresh`,
`ResumeIsCoherent`, `StopIsHonoured`, `CrashIsCheap`). `IInv` says that
everything in the table and in memory belongs to the current fresh scan or is
about to be deleted, and, as long as no row was lost, that the rows present are a
prefix of the chain, each made from the one before it (`RowShape`), that memory
agrees with them (`AgreeShape`), and that no row is ahead of a scan that executes
a stage (`AheadShape`). The last one carries the argument: a stage that is executed
makes a new result, which would orphan every later row made from its former one;
there is none, because a row is missing only where the chain ends. For
`CrashIsCheap` an account is kept of the executions whose result is neither in
the table nor about to be saved (`Wasted`): over all stages there are no more of
them than there were crashes (`CostShape`).

*Batches* (`Commands_proofs`: `StagingTypeCorrect`, `ScansAreOwn`,
`ReportsAreKept`, `NothingIsLeft`). That a scan gets its own code is a fact about
the marker file at the moment of reuse, perhaps batches earlier. `IInv` says that,
as long as there was no fault, code is whole and of the entry the marker names,
except in the one directory being marked (`CodeShape`, `CopyShape`), that a staged
entry has its marker, or one staged after it in the same directory has
(`StagedShape`, for which the entries of a group come in the order of the
manifest, `OrderShape`), and that reports stand only where the marker
of some entry of that directory is (`KeptShape`), so that a lone entry reuses and
never clears them. For `NothingIsLeft`, `TidyShape` says that what a batch is through
with is tidy: no code stands where a unit before the present one was staged,
unless the present one stages there too (`BehindShape`), nor where an entry of the
present unit was given up. At the end of a batch that is nowhere.

*Remediation* (`Remediation_proofs`: `TypeCorrect`, `ReportsStand`,
`ClaimsAreClean`, `PatchesAreClean`, `ForbiddenStays`, `RevertsAreOwn`). The gate
is right although it cannot trust the answer because everything an agent touches
that is forbidden is among its candidates (`TouchedSeen`), but for `Unseen`: in git
the file differs from what is committed or is new, so `git status` lists it unless
it is ignored; where git lists nothing, or outside git, the file exists, so the
scan of the work tree finds it. `CallShape` says what a snapshot holds
during a call, `GateShape` what a reply that passed the gate still names, and
`ReportShape` that a row with an identity has a report of that finding at that
position. `ForbiddenStays` needs `KeptShape` in addition, that snapshots are
themselves free of agents' edits, and assumes that the forbidden files that were
there can be read as text; `RevertsAreOwn` assumes that no forbidden file is
`Binary`. Both assumptions are needed: a snapshot of such a file reads as "did
not exist" (item 9 above).

*API calls* (`ApiCalls_proofs`: `Inductive`, `BuiltOnce`, `ParametersAreDropped`,
`CutBeforeGivenUp`, `EveryStepLowers`, `RanksEnd`). `IInv` holds the types and the
budgets. `BuiltOnce` adds that a lock is held only by a thread that waits for it
and that nobody who holds it has built a client the shared count does not know.
That parameters never lose a call is a counting argument: `RequestShape` bounds
the parameters that are still wrong in a request (`WrongOnes`) by the attempts
that can still be granted, whatever marks other calls have left, and a dropped
parameter takes one from both sides. It needs `MaxAttempts >= BaseAttempts + 2`,
since at most two parameters can be wrong (3 and 6 in the code), and that no call
asks for more tokens than the model gives. `CutBeforeGivenUp` counts the evicted
results of a history against the turn's evictions (`HistoryShape`), for which the
oldest oversized result has to be one, and every eviction one more.
`EveryStepLowers` is to `CallsEnd` what `PoolProgress` is to `PoolEnds`: every
step of a call lowers its rank (the phase, the attempts, the name of the limit
that is left to try, the turns, the retries and cuts of the turn), no step of
another call raises it, and `RanksEnd` says that this cannot go on for ever. A
delegated session is ranked by its turns up to `TurnCap`; that any of them comes is
nowhere assumed.

*Validation* (`Validation_proofs`: `Inductive`, `Refinement`, `ResultsAgree`,
`ValidatedByThePanel`). The refinement is not a matter of one step: that what is
judged is on disk is checked when a finding is staged, and the verdict comes three
steps later. `IInv` carries it: what is queued has a DTO (`QueueOpen`), what is
staged has landed (`StagedLanded`), the patches S10 counted are those in the DTOs
(`PatchesCounted`), and the workspace that is scored holds the answer of this
session and nothing older (`AnswerIsNew`), the fact `ResultsAgree` rests on.
`Remediate` maps to `Patch`, `WriteBack` to `Judge`, every other step stutters.
`ValidatedByThePanel` goes through the arithmetic of `PanelVerdict`: consensus
never makes a pass of a gate the personas failed or did not look at, and a
gate of more than a fifth of the weight cannot be failed by all and still leave
eight tenths of the renormalised score.

*Commands* (`Commands_proofs`: `ReadyToDetect`, `EditsAtTheReport`,
`OnlyDetectionStops`). `CommandShape` and `CheckedShape` say that whoever is past
the preflight has passed it with this profile on this machine; the lemmas
`PreflightMeansReady` and `DoctorMeansReady` say that a probe of one role stands
for all with the same target and tools (`ProbedMeansReady`), a delegated role
being known to start its session and no more. `OnlyDetectionStops` is the converse: what
stops a scan is a probe that failed for a detection role, or one of the two gaps
`GapsDegrade` names. `PinShape` says that a pin is the commit the report was built
at, wherever git gave one, in memory and in the row, and that whoever comes to S10
unforced found it at the gate, or found no answer.

*Findings* (`Findings_proofs`: `NothingLost`, `FindingsAccounted`,
`PlacesFollow`, `SitesSurvive`, `ExposureNeeded`). What the report says at the end
depends on every list before it, so the invariant speaks of the lists. `ListShape`
(itself the theorem `NothingLost`): from the collapse of S4 on, what is handed on,
what is verified and what is dropped hold no finding twice, have none in common,
and are together as long as the raw count. `HomeShape`: what is still in a list
was absorbed by nothing and stands for itself, which is why the passes can be
composed. `IndexShape`: between S7 and S8 an index names a place of S7's list, and
the finding there is the one that stands for the dropped one. `ReportShape`: the
report ranks that list, each finding once. `MergeKeeps` is the heart of `SitesSurvive`:
whatever a grouping maps to whatever else, every chain of absorptions ends at a
finding that is handed on (`RootFound`), and what each link had gathered arrives
there. `PlacesFollow` needs that the sort of S8 permutes (`SortPermutes`): the
places taken by counting what is sooner are all taken, each once (`PlacesTaken`).
The library's induction theorems cannot be instantiated here; where a list or a
chain is followed, the proof takes the least number at which the claim fails
(`LeastNumber`, from the well-foundedness of inclusion among finite sets).

*What is read* (`Findings_proofs`: `SignalsSurvive`, `NoFileLost`). A member of a
cluster is dropped when what it holds is held before it (`BringsNothing`), so the
first member in the order of the cluster that holds a value is kept, or stands for
the cluster (`ClusterKeeps`); that needs that the order names each member once
(`MembersListed`), and that a file is in one cluster only (`DropsKeep`). For
`NoFileLost`, `CoverInv` says that S1's package lists the inventory and modules
that can be iterated, and that S3's manifest covers it: a file that no chunk holds
after the split is left over; it is on the list of the unreachable ones, or in the
group of the first module that names it, of its component or of its directory
(`GroupsCover`), and wherever `_pack` cuts that group, in one bucket
(`PackCovers`). What is reachable contains the entry points, the sinks and the
seeded files (`WithinHolds`), so none of them is on the list. Assumed of the
constants: the files are a list with sizes, and an answer's modules are lists.

**Only model-checked:** the liveness properties `PoolEnds`, `AbortEnds` and
`CallsEnd`, since fairness and ENABLED are beyond this prover (the ranks above are
the part of them it can do); and two invariants of `analysis`. `FlowsFound`
compares two fixed points, the engine's rounds of transfers and the interpreter's
closure, which takes an induction along both; `FlowsReviewed` depends on the
limits: how a chunk is split and a slice is cut decides which of its two forms a
flow has to meet.

## What is not modelled, and why

- The serial branch of S4 (`parallel = 1`): the same loop without a pool.
- `_run_streaming` (`--verbose`): like codex's `_run` it does not look at `_ABORT`
  again once it has registered its child, so `CliAbortReachesAll` says nothing of
  it; it has no heartbeat, and feeds the prompt before its timeout is armed.
- A second Ctrl-C during `shutdown(wait=True)`, and grandchildren that hold a
  child's pipes: process trees are not modelled, a killed child is gone at once.
- Ctrl-C inside a worker's `_run`: Python delivers it to the main thread only.
- Two scanners of the same path at once; call-graph snapshots; a disabled step 2.
- API calls: token accounting, the inputs of the client (certificates, proxies),
  tool results beyond short and large, two models in one process.
- Analysis: one statement to a line; control-flow graphs, reflection, response
  dataflow and the confidence of edges are left out, kinds of transfer edges are
  not kept; ranking and wording of chunks, languages, clipped files (which ship
  whole here) and the cap of `_pick_hop_files`, which cannot bind, are left out.
- Findings: CVSS arithmetic (a vector is a band), texts, severity labels beyond
  bands; how calls fail (see Verify, DeepDive).
- Remediation: the policy file and its globs, prompts, playbook and framework
  detection, report-only mode, files larger than the worktree scan's cap, the
  user committing or editing during a session; a git that fails or times out
  while it is asked, and a target that is only a part of its work tree.
- Validation: failing file I/O of DTOs, files planted in a workspace, the
  confidence flag, narrative text, rounding in the report; of S10 only what it
  leaves (any subset of the findings, each with a status and a patch that
  landed or not); `Within` stands for "is a substring of".
- Commands: the machine does not change during a behaviour; `--repo-file` leads
  to BatchStaging; `setup --write-env` and `--install-agents`, non-configuration
  checks and unknown backends are left out; S0–S7 are one step.
- Manifest parsing, the text of the batch summary; two batches in one workspace
  at once, or `--group-by-app` in some batches only; applications whose ids
  become the same folder name once sanitised; the report folder of an
  application, which stands beside the members' directories and is never touched.
- Prompts, parsing, HTML and text of reports, redaction, language tables and
  rule files: data the properties do not tell apart.
- The parts marked `not_modelled` in `PROJECT.json`.

## Plan

What is left, in order of importance.

1. An abstract gate for S10 (forbidden files are as before the call, nobody
   else's text is touched) that `PostGate` refines, and the contract of S10 and
   S11 towards the report they share.
2. `FlowsFound` as a theorem: that the rounds of `TransferClosure` end in a set
   closed under every transfer, as long as no name on the way is cleaned.
3. A definition of "the same site" that survives chains of overlaps, as S7
   would need it for `SitesKept` to hold of the finding that is reported.
4. A rank for S6's pool like that of S4, and from both the number of children a
   call can start at most, (4+1+1)·(3+1) with the code's limits.
5. `ScanResume` with two scanners and the rows of S10 and S11; the composition
   of `FindingFlow` with `Analysis`, so that a chunk's findings are those its
   pages can show.
