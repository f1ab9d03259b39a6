------------------------------- MODULE ApiCalls -------------------------------
(***************************************************************************)
(* The API backends, backends/oai.py, sdk.py and agent_sdk.py, which reach *)
(* a model over HTTP instead of through a subprocess.  Worker threads make *)
(* calls at the same time; what they share is the module's client and the  *)
(* marks a call leaves for later calls about parameters the model refused. *)
(*   - prompt() sends one request, up to three times (six when refused     *)
(*     parameters had to be dropped);                                      *)
(*   - agentic() is a loop of turns: the model asks for tools, the backend *)
(*     runs them (localtools.py) and sends the results back;               *)
(*   - agent_sdk.agentic() leaves the loop to the Claude Agent SDK and only*)
(*     decides which tools it may use.                                     *)
(* The gateway answers as it likes, but consistently: what it refuses, it  *)
(* always refuses.  One model per behaviour: the marks are per model.      *)
(***************************************************************************)
EXTENDS Naturals, Sequences, FiniteSets

CONSTANTS
  Calls,          \* the calls the scan's threads make
  Sites,          \* the models and gateways the calls may reach, with the
                  \* jobs asked of each
  BaseAttempts,   \* attempts = 3
  MaxAttempts,    \* attempts < 6
  MaxTransients,  \* transients < 4
  MaxShrinks,     \* shrinks < 16
  TurnCap,        \* max_turns
  CallsPerTurn    \* the tools a model asks for in one turn

ASSUME ApiAssumption ==
  /\ IsFiniteSet(Calls)
  /\ {BaseAttempts, MaxAttempts, TurnCap, CallsPerTurn} \subseteq Nat \ {0}
  /\ BaseAttempts <= MaxAttempts
  /\ {MaxTransients, MaxShrinks} \subseteq Nat

(* A model takes the limit of its answer under one name or the other.      *)
ASSUME SitesAssumption ==
  \A s \in Sites :
    /\ s.via \in {"openai", "sdk"}
    /\ s.via = "openai" => s.takes \cap {"max_completion_tokens", "max_tokens"} # {}
    /\ s.via = "sdk" => "max_tokens" \in s.takes

VARIABLES
  site,    \* the model behind the backend and what it accepts; never changes
  job,     \* what each call asks for; never changes
  client,  \* the clients built so far, and the thread that holds the lock
  marks,   \* _NO_TEMP_MODELS, _USE_LEGACY_MAXTOK, _NO_THINK_MODELS
  call     \* the local state of each call

vars == <<site, job, client, marks, call>>

Ops == {"prompt", "agentic", "agent_sdk"}
Params == {"temperature", "thinking", "max_completion_tokens", "max_tokens"}
Marks == {"no_temp", "legacy_maxtok", "no_think"}
Nobody == "nobody"

(* The lock is free: no call's thread is called that.                      *)
ASSUME NobodyAssumption == Nobody \notin Calls

(* Why a call raised: `parameter` is a 400 nothing could be dropped for,   *)
(* `exhausted` the loop that ended without any answer.                     *)
Reasons == {"none", "parameter", "exhausted", "overflow", "final_overflow",
            "transient", "hard", "unsupported"}

(* A call: where it stands, the parameters of its request, the attempt it  *)
(* is at and how many it has, the turn, the retries of this turn, and the  *)
(* oversized tool results in its history, evicted ones included.           *)
NewCall == [pc |-> "idle", kw |-> {}, attempt |-> 1, attempts |-> BaseAttempts,
            turn |-> 1, transients |-> 0, shrinks |-> 0, results |-> <<>>,
            why |-> "none"]

PCs == {"idle", "waiting", "sending", "looping", "final", "session", "done", "failed"}

Init ==
  /\ site \in Sites
  /\ job \in [Calls -> site.jobs]
  /\ client = [built |-> 0, holder |-> Nobody]
  /\ marks = {}
  /\ call = [c \in Calls |-> NewCall]

Put(c, r) == call' = [call EXCEPT ![c] = r]
Fail(c, reason) == Put(c, [call[c] EXCEPT !.pc = "failed", !.why = reason])
Done(c) == Put(c, [call[c] EXCEPT !.pc = "done"])

-----------------------------------------------------------------------------
(* The requests.                                                           *)

(* The name of the token limit, and the temperature unless it was refused  *)
(* before.                                                                 *)
OpenAIPromptKw(j) ==
  {IF "legacy_maxtok" \in marks THEN "max_tokens" ELSE "max_completion_tokens"}
    \cup {p \in {"temperature"} : j.temp /\ "no_temp" \notin marks}

OpenAIAgenticKw ==
  {IF "legacy_maxtok" \in marks THEN "max_tokens" ELSE "max_completion_tokens"}

(* Thinking rules the temperature out; a listed model never gets one.      *)
Thinks(j) == j.think /\ "no_think" \notin marks
Heats(j) == j.temp /\ ~Thinks(j)

SdkPromptKw(j) ==
  {p \in Params : \/ p = "max_tokens"
                  \/ p = "thinking" /\ Thinks(j)
                  \/ p = "temperature" /\ Heats(j) /\ ~site.listed
                                       /\ "no_temp" \notin marks}

FirstKw(j) ==
  IF site.via = "sdk"
  THEN IF j.op = "prompt" THEN SdkPromptKw(j) ELSE {"max_tokens"}
  ELSE IF j.op = "prompt" THEN OpenAIPromptKw(j) ELSE OpenAIAgenticKw

(* localtools.supported: what the local loop can run.                      *)
LocalTools == {"Read", "Glob", "Grep"}
Supported(j) == j.tools \subseteq LocalTools

(* A client exists: the call builds its request.                           *)
Begin(c) ==
  LET j == job[c]
  IN /\ Put(c, [call[c] EXCEPT !.pc = IF j.op = "prompt" THEN "sending" ELSE "looping",
                               !.kw = FirstKw(j)])
     /\ marks' = IF site.via = "sdk" /\ j.op = "prompt" /\ Heats(j) /\ site.listed
                 THEN marks \cup {"no_temp"} ELSE marks

(* openai refuses a tool it does not run before it asks for anything else; *)
(* sdk hands such a call to the Agent SDK, which has its own client.       *)
Refused(c) == job[c].op = "agentic" /\ ~Supported(job[c])

Unsupported(c) ==
  /\ call[c].pc = "idle" /\ site.via = "openai" /\ client.built > 0
  /\ Refused(c)
  /\ Fail(c, "unsupported")
  /\ UNCHANGED <<site, job, client, marks>>

Delegate(c) ==
  /\ call[c].pc = "idle" /\ site.via = "sdk"
  /\ Refused(c)
  /\ Put(c, [call[c] EXCEPT !.pc = "session"])
  /\ UNCHANGED <<site, job, client, marks>>

-----------------------------------------------------------------------------
(* _get_client: looked at without the lock, and again with it.             *)

UseClient(c) ==
  /\ call[c].pc = "idle" /\ client.built > 0 /\ ~Refused(c)
  /\ Begin(c)
  /\ UNCHANGED <<site, job, client>>

MissClient(c) ==
  /\ call[c].pc = "idle" /\ client.built = 0
  /\ site.via = "openai" \/ ~Refused(c)
  /\ Put(c, [call[c] EXCEPT !.pc = "waiting"])
  /\ UNCHANGED <<site, job, client, marks>>

LockClient(c) ==
  /\ call[c].pc = "waiting" /\ client.holder = Nobody
  /\ client' = [client EXCEPT !.holder = c]
  /\ UNCHANGED <<site, job, marks, call>>

(* A bug that could be: no second look under the lock.                     *)
BugBuildClient(c) ==
  /\ call[c].pc = "waiting" /\ client.holder = c
  /\ client' = [built |-> client.built + 1, holder |-> Nobody]
  /\ Put(c, [call[c] EXCEPT !.pc = "idle"])
  /\ UNCHANGED <<site, job, marks>>

BuildClient(c) ==
  /\ call[c].pc = "waiting" /\ client.holder = c
  /\ client' = [built |-> IF client.built = 0 THEN 1 ELSE client.built,
                holder |-> Nobody]
  /\ Put(c, [call[c] EXCEPT !.pc = "idle"])
  /\ UNCHANGED <<site, job, marks>>

-----------------------------------------------------------------------------
(* The gateway.                                                            *)

(* What it finds wrong with a request: a parameter it does not take, or a  *)
(* limit too large for the model.  `hint` is whether the error's text names*)
(* max_completion_tokens: the refusal of either name does (the one names   *)
(* it as unknown, the other as the parameter to use), that of a value may. *)
Complaints(c) ==
  LET kw == call[c].kw
      big == job[c].big /\ call[c].pc = "sending"
  IN {[about |-> p, hint |-> FALSE] :
        p \in kw \cap ({"temperature", "thinking"} \ site.takes)}
     \cup {[about |-> p, hint |-> TRUE] :
             p \in (kw \cap {"max_completion_tokens", "max_tokens"}) \ site.takes}
     \cup {[about |-> p, hint |-> h] : p \in kw \cap {"max_completion_tokens"},
             h \in {x \in BOOLEAN : big /\ ~site.room}}
     \cup {[about |-> p, hint |-> FALSE] : p \in {q \in kw \cap {"max_tokens"} :
                                                    big /\ ~site.room}}

Acceptable(c) == Complaints(c) = {}

-----------------------------------------------------------------------------
(* prompt()                                                                *)

(* A bug that could be: no attempt is granted for the cleaned request.     *)
BugAttemptAgain(c, r) ==
  IF r.attempt = r.attempts
  THEN Put(c, [r EXCEPT !.pc = "failed", !.why = "exhausted"])
  ELSE Put(c, [r EXCEPT !.attempt = @ + 1])

(* A parameter was dropped: the next attempt, one more than there were if  *)
(* this was the last, six at most; after the sixth the loop just ends.     *)
AttemptAgain(c, r) ==
  LET granted == IF r.attempt = r.attempts /\ r.attempts < MaxAttempts
                 THEN r.attempts + 1 ELSE r.attempts
  IN IF r.attempt = granted
     THEN Put(c, [r EXCEPT !.pc = "failed", !.why = "exhausted"])
     ELSE Put(c, [r EXCEPT !.attempt = @ + 1, !.attempts = granted])

Swap(kw, old, new) == (kw \ {old}) \cup {new}

(* openai: what is done about a complaint, and the mark it leaves.  The    *)
(* way back from max_tokens does not take the mark off.                    *)
OpenAIDrop(c, x) ==
  LET r == call[c] IN
  \/ /\ x.about = "temperature"
     /\ AttemptAgain(c, [r EXCEPT !.kw = @ \ {"temperature"}])
     /\ marks' = marks \cup {"no_temp"}
  \/ /\ x.hint /\ "max_completion_tokens" \in r.kw
     /\ AttemptAgain(c, [r EXCEPT !.kw = Swap(@, "max_completion_tokens", "max_tokens")])
     /\ marks' = marks \cup {"legacy_maxtok"}
  \/ /\ x.hint /\ "max_tokens" \in r.kw
     /\ AttemptAgain(c, [r EXCEPT !.kw = Swap(@, "max_tokens", "max_completion_tokens")])
     /\ UNCHANGED marks
  \/ /\ x.about \in {"max_completion_tokens", "max_tokens"} /\ ~x.hint
     /\ Fail(c, "parameter")
     /\ UNCHANGED marks

(* sdk: temperature and thinking are dropped, any other 400 raises.        *)
SdkDrop(c, x) ==
  \/ /\ x.about = "temperature"
     /\ AttemptAgain(c, [call[c] EXCEPT !.kw = @ \ {"temperature"}])
     /\ marks' = marks \cup {"no_temp"}
  \/ /\ x.about = "thinking"
     /\ AttemptAgain(c, [call[c] EXCEPT !.kw = @ \ {"thinking"}])
     /\ marks' = marks \cup {"no_think"}
  \/ /\ x.about \in {"max_completion_tokens", "max_tokens"}
     /\ Fail(c, "parameter")
     /\ UNCHANGED marks

PromptRefused(c) ==
  /\ call[c].pc = "sending"
  /\ \E x \in Complaints(c) :
       IF site.via = "openai" THEN OpenAIDrop(c, x) ELSE SdkDrop(c, x)
  /\ UNCHANGED <<site, job, client>>

PromptAnswered(c) ==
  /\ call[c].pc = "sending" /\ Acceptable(c)
  /\ Done(c)
  /\ UNCHANGED <<site, job, client, marks>>

(* 429, 5xx or a broken connection: again after a minute, unless this was  *)
(* the last attempt.                                                       *)
PromptTransient(c) ==
  LET r == call[c] IN
  /\ r.pc = "sending"
  /\ IF r.attempt < r.attempts THEN Put(c, [r EXCEPT !.attempt = @ + 1])
     ELSE Fail(c, "transient")
  /\ UNCHANGED <<site, job, client, marks>>

(* Any other status raises at once.                                        *)
HardError(c) ==
  /\ call[c].pc \in {"sending", "looping", "final", "session"}
  /\ Fail(c, "hard")
  /\ UNCHANGED <<site, job, client, marks>>

PromptStep(c) == PromptRefused(c) \/ PromptAnswered(c) \/ PromptTransient(c)

-----------------------------------------------------------------------------
(* agentic(): the loop over local tools.                                   *)

(* openai: the new name is replaced by the legacy one, never the other way *)
(* round; the request is sent again without counting a retry.              *)
AgenticRefused(c) ==
  LET r == call[c] IN
  /\ r.pc = "looping" /\ ~Acceptable(c)
  /\ IF site.via = "openai" /\ "max_completion_tokens" \in r.kw
     THEN /\ Put(c, [r EXCEPT !.kw = Swap(@, "max_completion_tokens", "max_tokens")])
          /\ marks' = marks \cup {"legacy_maxtok"}
     ELSE Fail(c, "parameter") /\ UNCHANGED marks
  /\ UNCHANGED <<site, job, client>>

(* A bug that could be: an evicted result is evicted again.                *)
BugEvictable(results) == {i \in DOMAIN results : TRUE}

(* The oversized tool results _shrink_history may still cut down.          *)
Evictable(results) == {i \in DOMAIN results : results[i] = "large"}

Oldest(S) == CHOOSE i \in S : \A k \in S : i <= k

(* The conversation no longer fits.  openai evicts the oldest oversized    *)
(* result and sends again; sdk has no such branch.                         *)
Overflow(c) ==
  LET r == call[c] IN
  /\ r.pc \in {"looping", "final"} /\ Acceptable(c)
  /\ \/ /\ site.via = "openai" /\ r.pc = "looping"
        /\ r.shrinks < MaxShrinks /\ Evictable(r.results) # {}
        /\ Put(c, [r EXCEPT !.shrinks = @ + 1,
                            !.results[Oldest(Evictable(r.results))] = "evicted"])
     \/ /\ \/ site.via # "openai"
           \/ r.pc = "final"
           \/ r.shrinks = MaxShrinks
           \/ Evictable(r.results) = {}
        /\ Fail(c, IF r.pc = "final" THEN "final_overflow" ELSE "overflow")
  /\ UNCHANGED <<site, job, client, marks>>

(* A bug that could be: a retry starts the conversation over, its counters *)
(* with it.                                                                *)
BugAgenticTransient(c) ==
  LET r == call[c] IN
  /\ r.pc = "looping"
  /\ Put(c, [r EXCEPT !.turn = 1, !.results = <<>>, !.shrinks = 0, !.transients = 0])
  /\ UNCHANGED <<site, job, client, marks>>

(* The fifth transient answer raises: the fifth of the turn for openai, of *)
(* the whole session for sdk.  The forced final answer gets no retry.      *)
AgenticTransient(c) ==
  LET r == call[c] IN
  /\ r.pc \in {"looping", "final"}
  /\ IF r.pc = "looping" /\ r.transients < MaxTransients
     THEN Put(c, [r EXCEPT !.transients = @ + 1])
     ELSE Fail(c, "transient")
  /\ UNCHANGED <<site, job, client, marks>>

(* localtools: what a tool returns is a string, and all that matters to the*)
(* loop is whether it is an oversized one.  A path outside the repository, *)
(* a missing file, no match and a bad pattern give a short one, and so does*)
(* a tool the backend does not have: an error is an answer like any other. *)
LocalTargets == [inside : BOOLEAN, found : BOOLEAN, legal : BOOLEAN,
                 size : {"short", "large"}]
ReadResult(t) == IF t.inside /\ t.found THEN t.size ELSE "short"
GlobResult(t) == IF t.legal /\ t.found /\ t.inside THEN t.size ELSE "short"
GrepResult(t) == IF t.legal /\ t.inside /\ t.found THEN t.size ELSE "short"

ToolResult(tool, t) ==
  CASE tool = "Read" -> ReadResult(t)
    [] tool = "Glob" -> GlobResult(t)
    [] tool = "Grep" -> GrepResult(t)
    [] OTHER -> "short"

(* A model may ask for a tool it was not offered.                          *)
ToolResults == {ToolResult(tool, t) : tool \in LocalTools \cup {"Bash"},
                                      t \in LocalTargets}

(* The oversized ones of a turn, as they join the history.                 *)
Oversized(out) ==
  [i \in 1..Cardinality({k \in DOMAIN out : out[k] = "large"}) |-> "large"]

(* The model asks for tools: each is run, its result joins the history.    *)
AgenticTools(c) ==
  LET r == call[c] IN
  /\ r.pc = "looping" /\ Acceptable(c)
  /\ \E n \in 1..CallsPerTurn : \E out \in [1..n -> ToolResults] :
       Put(c, [r EXCEPT
         !.results = @ \o Oversized(out),
         !.turn = IF @ < TurnCap THEN @ + 1 ELSE @,
         !.pc = IF r.turn = TurnCap THEN "final" ELSE @,
         !.shrinks = 0,
         !.transients = IF site.via = "openai" THEN 0 ELSE @])
  /\ UNCHANGED <<site, job, client, marks>>

(* An answer without tool calls ends the loop; in the final request the    *)
(* tools are gone and any answer does.                                     *)
AgenticAnswered(c) ==
  /\ call[c].pc \in {"looping", "final"} /\ Acceptable(c)
  /\ Done(c)
  /\ UNCHANGED <<site, job, client, marks>>

AgenticStep(c) ==
  AgenticRefused(c) \/ Overflow(c) \/ AgenticTransient(c)
    \/ AgenticTools(c) \/ AgenticAnswered(c)

-----------------------------------------------------------------------------
(* agent_sdk.agentic(): the session runs elsewhere, _gate decides.         *)

ReadTools == {"Read", "Glob", "Grep", "LS", "NotebookRead"}
WriteTools == {"Edit", "Write", "MultiEdit", "NotebookEdit"}

(* Reads always; writes to a path that is no link and resolves inside the  *)
(* repository; nothing else, Bash included.                                *)
Targets == [inside : BOOLEAN, link : BOOLEAN]
Allowed(tool, target) ==
  \/ tool \in ReadTools
  \/ tool \in WriteTools /\ target.inside /\ ~target.link

(* A refused tool is an answer like any other: the session goes on.  One   *)
(* without max_turns has no last turn; TurnCap bounds what is counted.     *)
SessionTool(c) ==
  LET r == call[c] IN
  /\ r.pc = "session" /\ r.turn < TurnCap
  /\ \E tool \in job[c].tools, target \in Targets :
       Put(c, [r EXCEPT !.turn = @ + 1,
                        !.results = IF Allowed(tool, target) THEN @
                                    ELSE Append(@, "denied")])
  /\ UNCHANGED <<site, job, client, marks>>

(* The ResultMessage.                                                      *)
SessionResult(c) ==
  /\ call[c].pc = "session"
  /\ Done(c)
  /\ UNCHANGED <<site, job, client, marks>>

-----------------------------------------------------------------------------
Step(c) ==
  \/ UseClient(c) \/ MissClient(c) \/ LockClient(c) \/ BuildClient(c)
  \/ Unsupported(c) \/ Delegate(c)
  \/ PromptStep(c) \/ AgenticStep(c) \/ HardError(c)
  \/ SessionTool(c) \/ SessionResult(c)

Ended(c) == call[c].pc \in {"done", "failed"}

(* Every call has ended: the stage goes on.                                *)
AllEnded == (\A c \in Calls : Ended(c)) /\ UNCHANGED vars

Next == AllEnded \/ \E c \in Calls : Step(c)

(* A call that waits for a session waits for a process without time limit. *)
InSession(c) == call[c].pc = "session"

(* A request is answered or times out, and a thread that is ready runs.    *)
Spec == Init /\ [][Next]_vars /\ \A c \in Calls : WF_vars(~InSession(c) /\ Step(c))

-----------------------------------------------------------------------------
(* Parameters the model does not take never lose a call, whatever the      *)
(* order in which it refuses them and whatever went wrong between: a call  *)
(* is lost to its parameters only on a model that some call of the scan    *)
(* asked for more tokens than it can give (oai.py:280-335, 505-519).         *)
ParametersNeverLose ==
  \A c \in Calls : call[c].why \in {"parameter", "exhausted"} =>
    \E d \in Calls : job[d].big /\ ~site.room

(* A conversation is given up for its length only when every oversized     *)
(* result was cut down, or as many as the turn may cut; except in the      *)
(* forced final request, which cuts none (oai.py:450-462, 520-527, 596-609).   *)
OverflowIsLast ==
  \A c \in Calls :
    LET results == call[c].results
        evicted == {i \in DOMAIN results : results[i] = "evicted"}
    IN call[c].why = "overflow" /\ site.via = "openai" =>
         \/ \A i \in DOMAIN results : results[i] # "large"
         \/ Cardinality(evicted) >= MaxShrinks

(* Threads that find no client at the same time build one between them     *)
(* (oai.py:155-207, sdk.py:115-178).                                       *)
OneClient == client.built <= 1

(* Every call ends, with an answer or an exception, however the gateway    *)
(* answers: the retries, the dropped parameters, the evictions and the     *)
(* turns are all bounded (oai.py:280-364, 505-609).  All but a delegated   *)
(* one, which lasts as long as its session (agent_sdk.py:280-305, 344).    *)
CallsEnd == <>[](\A c \in Calls : Ended(c) \/ InSession(c))
=============================================================================
