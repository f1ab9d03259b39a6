---------------------------- MODULE ApiCalls_proofs ----------------------------
(***************************************************************************)
(* Theorems about the API backends, for any calls, models and limits: the  *)
(* types and with them the bounds on everything that is tried again; that  *)
(* threads build one client; that dropped parameters lose no call; that a  *)
(* conversation is cut down before it is given up; and that every step     *)
(* brings a call nearer to its end.                                        *)
(***************************************************************************)
EXTENDS ApiCalls, Integers, FiniteSetTheorems, SequenceTheorems, WellFoundedInduction, TLAPS

Fields == {"pc", "kw", "attempt", "attempts", "turn", "transients", "shrinks",
           "results", "why"}

(* What the type of a call is, its results left out.                       *)
CallOK(r) ==
  /\ DOMAIN r = Fields
  /\ r.pc \in PCs /\ r.why \in Reasons /\ r.kw \subseteq Params
  /\ r.attempt \in 1..MaxAttempts /\ r.attempts \in BaseAttempts..MaxAttempts
  /\ r.attempt <= r.attempts
  /\ r.turn \in 1..TurnCap
  /\ r.transients \in 0..MaxTransients /\ r.shrinks \in 0..MaxShrinks

SharedOK ==
  /\ site \in Sites /\ \A c \in Calls : job[c] \in site.jobs
  /\ client \in [built : 0..1, holder : Calls \cup {Nobody}]
  /\ marks \subseteq Marks

IInv == SharedOK /\ DOMAIN call = Calls /\ \A c \in Calls : CallOK(call[c])

-----------------------------------------------------------------------------
LEMMA PutOK ==
  ASSUME IInv, SharedOK', NEW c \in Calls, NEW r, CallOK(r), Put(c, r)
  PROVE  IInv'
<1>1. \A d \in Calls : call'[d] = IF d = c THEN r ELSE call[d]
  BY DEF Put, IInv
<1>2. DOMAIN call' = Calls
  BY DEF Put, IInv
<1>3. \A d \in Calls : CallOK(call'[d])
  BY <1>1 DEF IInv
<1> QED BY <1>2, <1>3 DEF IInv, CallOK

LEMMA AttemptOK ==
  ASSUME IInv, SharedOK', NEW c \in Calls, NEW r, CallOK(r), AttemptAgain(c, r)
  PROVE  IInv'
<1> DEFINE granted == IF r.attempt = r.attempts /\ r.attempts < MaxAttempts
                      THEN r.attempts + 1 ELSE r.attempts
<1>1. granted \in BaseAttempts..MaxAttempts
  BY ApiAssumption DEF CallOK
<1>2. CASE r.attempt = granted
  <2>1. CallOK([r EXCEPT !.pc = "failed", !.why = "exhausted"])
    BY DEF CallOK, Fields, PCs, Reasons
  <2> QED BY <1>2, <2>1, PutOK DEF AttemptAgain
<1>3. CASE r.attempt # granted
  <2>1. r.attempt + 1 \in 1..MaxAttempts
    BY <1>3, <1>1, ApiAssumption DEF CallOK
  <2>2. CallOK([r EXCEPT !.attempt = @ + 1, !.attempts = granted])
    <3>1. r.attempt + 1 <= granted
      BY <1>3, <1>1, ApiAssumption DEF CallOK
    <3> QED BY <2>1, <3>1, <1>1 DEF CallOK, Fields
  <2> QED BY <1>3, <2>2, PutOK DEF AttemptAgain
<1> QED BY <1>2, <1>3

(* A call that changes only by fields of these kinds keeps its type.       *)
LEMMA EndOK ==
  ASSUME IInv, SharedOK', NEW c \in Calls,
         Done(c) \/ \E reason \in Reasons : Fail(c, reason)
  PROVE  IInv'
<1>1. CallOK(call[c])
  BY DEF IInv
<1>2. CASE Done(c)
  <2>1. CallOK([call[c] EXCEPT !.pc = "done"])
    BY <1>1 DEF CallOK, Fields, PCs
  <2> QED BY <1>2, <2>1, PutOK DEF Done
<1>3. ASSUME NEW reason \in Reasons, Fail(c, reason) PROVE IInv'
  <2>1. CallOK([call[c] EXCEPT !.pc = "failed", !.why = reason])
    BY <1>1 DEF CallOK, Fields, PCs
  <2> QED BY <1>3, <2>1, PutOK DEF Fail
<1> QED BY <1>2, <1>3

LEMMA InitOK == Init => IInv
<1> SUFFICES ASSUME Init PROVE IInv
  OBVIOUS
<1>1. SharedOK
  BY DEF Init, SharedOK
<1>2. CallOK(NewCall)
  BY ApiAssumption DEF CallOK, NewCall, Fields, PCs, Reasons
<1> QED BY <1>1, <1>2 DEF Init, IInv

(* What a call asks for first, backend by backend.                         *)
LEMMA FirstKwIs ==
  ASSUME NEW c
  PROVE  /\ site.via = "sdk" /\ job[c].op = "prompt" => FirstKw(job[c]) = SdkPromptKw(job[c])
         /\ site.via = "sdk" /\ job[c].op # "prompt" => FirstKw(job[c]) = {"max_tokens"}
         /\ site.via # "sdk" /\ job[c].op = "prompt" => FirstKw(job[c]) = OpenAIPromptKw(job[c])
         /\ site.via # "sdk" /\ job[c].op # "prompt" => FirstKw(job[c]) = OpenAIAgenticKw
<1>1. ASSUME site.via = "sdk", job[c].op = "prompt"
      PROVE  FirstKw(job[c]) = SdkPromptKw(job[c])
  BY <1>1 DEF FirstKw
<1>2. ASSUME site.via = "sdk", job[c].op # "prompt"
      PROVE  FirstKw(job[c]) = {"max_tokens"}
  BY <1>2 DEF FirstKw
<1>3. ASSUME site.via # "sdk", job[c].op = "prompt"
      PROVE  FirstKw(job[c]) = OpenAIPromptKw(job[c])
  BY <1>3 DEF FirstKw
<1>4. ASSUME site.via # "sdk", job[c].op # "prompt"
      PROVE  FirstKw(job[c]) = OpenAIAgenticKw
  BY <1>4 DEF FirstKw
<1> QED BY <1>1, <1>2, <1>3, <1>4

(* The requests' parameters, and the client.                               *)
LEMMA ClientStep ==
  ASSUME IInv, NEW c \in Calls,
         UseClient(c) \/ MissClient(c) \/ LockClient(c) \/ BuildClient(c)
  PROVE  IInv'
<1>1. CallOK(call[c])
  BY DEF IInv
<1>2. CASE UseClient(c)
  <2>1. SharedOK'
    BY <1>2 DEF UseClient, Begin, SharedOK, IInv, Marks
  <2>2. SdkPromptKw(job[c]) \subseteq Params /\ OpenAIPromptKw(job[c]) \subseteq Params
        /\ OpenAIAgenticKw \subseteq Params /\ {"max_tokens"} \subseteq Params
    BY DEF SdkPromptKw, OpenAIPromptKw, OpenAIAgenticKw, Params
  <2> FirstKw(job[c]) \in SUBSET Params
    BY <2>2, FirstKwIs
  <2>3. PICK kw \in SUBSET Params, pc \in {"sending", "looping"} :
          Put(c, [call[c] EXCEPT !.pc = pc, !.kw = kw])
    BY <1>2, <2>2 DEF UseClient, Begin
  <2>4. CallOK([call[c] EXCEPT !.pc = pc, !.kw = kw])
    BY <1>1 DEF CallOK, Fields, PCs
  <2> QED BY <2>1, <2>3, <2>4, PutOK
<1>3. CASE MissClient(c)
  <2>1. CallOK([call[c] EXCEPT !.pc = "waiting"])
    BY <1>1 DEF CallOK, Fields, PCs
  <2> QED BY <1>3, <2>1, PutOK DEF MissClient, SharedOK, IInv
<1>4. CASE LockClient(c)
  BY <1>4 DEF LockClient, SharedOK, IInv, CallOK
<1>5. CASE BuildClient(c)
  <2>1. CallOK([call[c] EXCEPT !.pc = "idle"])
    BY <1>1 DEF CallOK, Fields, PCs
  <2>2. SharedOK'
    BY <1>5 DEF BuildClient, SharedOK, IInv
  <2> QED BY <1>5, <2>1, <2>2, PutOK DEF BuildClient
<1> QED BY <1>2, <1>3, <1>4, <1>5

(* The parameters a complaint is about are those of the request.           *)
LEMMA PromptOK == ASSUME IInv, NEW c \in Calls, PromptStep(c) PROVE IInv'
<1>1. CallOK(call[c])
  BY DEF IInv
<1>2. SharedOK'
  BY DEF PromptStep, PromptRefused, PromptAnswered, PromptTransient, OpenAIDrop, SdkDrop,
         SharedOK, IInv, Marks
<1>3. CASE PromptAnswered(c)
  BY <1>2, <1>3, EndOK DEF PromptAnswered
<1>4. CASE PromptTransient(c)
  <2>1. CASE call[c].attempt < call[c].attempts
    <3>1. CallOK([call[c] EXCEPT !.attempt = @ + 1])
      BY <1>1, <2>1, ApiAssumption DEF CallOK, Fields
    <3> QED BY <1>2, <1>4, <2>1, <3>1, PutOK DEF PromptTransient
  <2>2. CASE ~(call[c].attempt < call[c].attempts)
    BY <1>2, <1>4, <2>2, EndOK DEF PromptTransient, Reasons
  <2> QED BY <2>1, <2>2
<1>5. CASE PromptRefused(c)
  <2>1. Fail(c, "parameter") \/ \E kw \in SUBSET Params : AttemptAgain(c, [call[c] EXCEPT !.kw = kw])
    <3>1. call[c].kw \subseteq Params
      BY <1>1 DEF CallOK
    <3>2. /\ call[c].kw \ {"temperature"} \subseteq Params
          /\ call[c].kw \ {"thinking"} \subseteq Params
          /\ Swap(call[c].kw, "max_completion_tokens", "max_tokens") \subseteq Params
          /\ Swap(call[c].kw, "max_tokens", "max_completion_tokens") \subseteq Params
      BY <3>1 DEF Swap, Params
    <3> QED BY <1>5, <3>2 DEF PromptRefused, OpenAIDrop, SdkDrop
  <2>2. ASSUME NEW kw \in SUBSET Params PROVE CallOK([call[c] EXCEPT !.kw = kw])
    BY <1>1 DEF CallOK, Fields
  <2> QED BY <1>2, <2>1, <2>2, AttemptOK, EndOK DEF Reasons
<1> QED BY <1>3, <1>4, <1>5 DEF PromptStep

LEMMA AgenticOK == ASSUME IInv, NEW c \in Calls, AgenticStep(c) PROVE IInv'
<1>1. CallOK(call[c])
  BY DEF IInv
<1>2. SharedOK'
  BY DEF AgenticStep, AgenticRefused, Overflow, AgenticTransient, AgenticTools,
         AgenticAnswered, SharedOK, IInv, Marks
<1>3. CASE AgenticRefused(c)
  <2>1. CallOK([call[c] EXCEPT !.kw = Swap(@, "max_completion_tokens", "max_tokens")])
    BY <1>1 DEF CallOK, Fields, Swap, Params
  <2> QED BY <1>2, <1>3, <2>1, PutOK, EndOK DEF AgenticRefused, Reasons
<1>4. CASE Overflow(c)
  <2>1. ASSUME NEW i, call[c].shrinks < MaxShrinks
        PROVE  CallOK([call[c] EXCEPT !.shrinks = @ + 1, !.results[i] = "evicted"])
    BY <1>1, <2>1, ApiAssumption DEF CallOK, Fields
  <2>2. CASE Put(c, [call[c] EXCEPT !.shrinks = @ + 1,
                       !.results[Oldest(Evictable(call[c].results))] = "evicted"])
             /\ call[c].shrinks < MaxShrinks
    BY <1>2, <2>1, <2>2, PutOK
  <2> QED BY <1>2, <1>4, <2>2, EndOK DEF Overflow, Reasons
<1>5. CASE AgenticTransient(c)
  <2>1. CASE call[c].pc = "looping" /\ call[c].transients < MaxTransients
    <3>1. CallOK([call[c] EXCEPT !.transients = @ + 1])
      BY <1>1, <2>1, ApiAssumption DEF CallOK, Fields
    <3> QED BY <1>2, <1>5, <2>1, <3>1, PutOK DEF AgenticTransient
  <2>2. CASE ~(call[c].pc = "looping" /\ call[c].transients < MaxTransients)
    BY <1>2, <1>5, <2>2, EndOK DEF AgenticTransient, Reasons
  <2> QED BY <2>1, <2>2
<1>6. CASE AgenticTools(c)
  <2>1. PICK n \in 1..CallsPerTurn : \E out \in [1..n -> ToolResults] :
          Put(c, [call[c] EXCEPT
            !.results = @ \o Oversized(out),
            !.turn = IF @ < TurnCap THEN @ + 1 ELSE @,
            !.pc = IF call[c].turn = TurnCap THEN "final" ELSE @,
            !.shrinks = 0,
            !.transients = IF site.via = "openai" THEN 0 ELSE @])
    BY <1>6 DEF AgenticTools
  <2>2. ASSUME NEW more
        PROVE  CallOK([call[c] EXCEPT
            !.results = more,
            !.turn = IF @ < TurnCap THEN @ + 1 ELSE @,
            !.pc = IF call[c].turn = TurnCap THEN "final" ELSE @,
            !.shrinks = 0,
            !.transients = IF site.via = "openai" THEN 0 ELSE @])
    BY <1>1, ApiAssumption DEF CallOK, Fields, PCs
  <2> QED BY <1>2, <2>1, <2>2, PutOK
<1>7. CASE AgenticAnswered(c)
  BY <1>2, <1>7, EndOK DEF AgenticAnswered
<1> QED BY <1>3, <1>4, <1>5, <1>6, <1>7 DEF AgenticStep

LEMMA OtherOK ==
  ASSUME IInv, NEW c \in Calls,
         Unsupported(c) \/ Delegate(c) \/ HardError(c) \/ SessionTool(c) \/ SessionResult(c)
  PROVE  IInv'
<1>1. CallOK(call[c])
  BY DEF IInv
<1>2. SharedOK'
  BY DEF Unsupported, Delegate, HardError, SessionTool, SessionResult, SharedOK, IInv
<1>3. CASE Unsupported(c) \/ HardError(c) \/ SessionResult(c)
  BY <1>2, <1>3, EndOK DEF Unsupported, HardError, SessionResult, Reasons
<1>4. CASE Delegate(c)
  <2>1. CallOK([call[c] EXCEPT !.pc = "session"])
    BY <1>1 DEF CallOK, Fields, PCs
  <2> QED BY <1>2, <1>4, <2>1, PutOK DEF Delegate
<1>5. CASE SessionTool(c)
  <2>1. PICK tool \in job[c].tools, target \in Targets :
          Put(c, [call[c] EXCEPT !.turn = @ + 1,
                     !.results = IF Allowed(tool, target) THEN @ ELSE Append(@, "denied")])
    BY <1>5 DEF SessionTool
  <2>2. ASSUME NEW more, call[c].turn < TurnCap
        PROVE  CallOK([call[c] EXCEPT !.turn = @ + 1, !.results = more])
    BY <1>1, <2>2, ApiAssumption DEF CallOK, Fields
  <2>3. call[c].turn < TurnCap
    BY <1>5 DEF SessionTool
  <2> QED BY <1>2, <2>1, <2>2, <2>3, PutOK
<1> QED BY <1>3, <1>4, <1>5

LEMMA StepOK == IInv /\ [Next]_vars => IInv'
<1> SUFFICES ASSUME IInv, [Next]_vars PROVE IInv'
  OBVIOUS
<1>1. CASE UNCHANGED vars
  BY <1>1 DEF vars, IInv, SharedOK, CallOK
<1>2. ASSUME NEW c \in Calls, Step(c) PROVE IInv'
  BY <1>2, ClientStep, PromptOK, AgenticOK, OtherOK DEF Step
<1> QED BY <1>1, <1>2 DEF Next, AllEnded

THEOREM Inductive == Spec => []IInv
  BY InitOK, StepOK, PTL DEF Spec

(* However many threads find no client, they build one.                    *)
THEOREM BuiltOnce == Spec => []OneClient
<1>1. IInv => OneClient
  BY DEF IInv, SharedOK, OneClient
<1> QED BY <1>1, Inductive, PTL

-----------------------------------------------------------------------------
(* Parameters.                                                             *)

NoneTooBig == \A d \in Calls : ~(job[d].big /\ ~site.room)

Names == {"max_completion_tokens", "max_tokens"}

(* How many parameters of a request the model does not take.               *)
Wrong(p, kw) == IF p \in kw \ site.takes THEN 1 ELSE 0
WrongOnes(kw) == Wrong("temperature", kw) + Wrong("thinking", kw)
                 + Wrong("max_completion_tokens", kw) + Wrong("max_tokens", kw)

(* A request has one limit, which sdk calls max_tokens; what is still to   *)
(* be dropped from a prompt and what was granted for drops is two at most. *)
(* The loop of openai goes from the new name to the old one only.          *)
RequestShape(r) ==
  /\ r.why \notin {"parameter", "exhausted"}
  /\ r.pc \in {"idle", "waiting"} => r.attempts = BaseAttempts
  /\ r.pc \in {"sending", "looping", "final"} =>
       /\ \E name \in Names : r.kw \cap Names = {name}
       /\ site.via = "sdk" => r.kw \cap Names = {"max_tokens"}
  /\ r.pc = "sending" => r.attempts + WrongOnes(r.kw) <= BaseAttempts + 2
  /\ r.pc \in {"looping", "final"} =>
       /\ r.kw \subseteq Names
       /\ "max_tokens" \in r.kw => "max_tokens" \in site.takes

ParamShape ==
  NoneTooBig =>
    /\ "legacy_maxtok" \in marks => "max_tokens" \in site.takes
    /\ \A c \in Calls : RequestShape(call[c])

LEMMA SiteOK ==
  ASSUME IInv
  PROVE  /\ site.via \in {"openai", "sdk"}
         /\ site.via = "openai" => \E name \in Names : name \in site.takes
         /\ site.via = "sdk" => "max_tokens" \in site.takes
  BY SitesAssumption DEF IInv, SharedOK, Names

LEMMA ParamPut ==
  ASSUME IInv, ParamShape, NoneTooBig, UNCHANGED <<site, job>>, NEW c \in Calls, NEW r,
         RequestShape(r), Put(c, r),
         "legacy_maxtok" \in marks' => "legacy_maxtok" \in marks \/ "max_tokens" \in site.takes
  PROVE  ParamShape'
<1>1. \A d \in Calls : call'[d] = IF d = c THEN r ELSE call[d]
  BY DEF Put, IInv
<1>2. \A d \in Calls : RequestShape(call'[d])
  BY <1>1 DEF ParamShape
<1>3. \A d \in Calls : RequestShape(call[d])'
  BY <1>2 DEF RequestShape, WrongOnes, Wrong
<1> QED BY <1>3 DEF ParamShape

(* With none too big, the only complaints are about what is not taken.     *)
LEMMA ComplaintsAre ==
  ASSUME NoneTooBig, NEW c \in Calls, NEW x \in Complaints(c)
  PROVE  /\ x.about \in call[c].kw \ site.takes
         /\ x.about \in {"temperature", "thinking"} \cup Names
         /\ x.hint <=> x.about \in Names
  BY DEF NoneTooBig, Complaints, Names

(* A drop is granted an attempt.                                           *)
LEMMA DropGoesOn ==
  ASSUME IInv, ParamShape, NoneTooBig, MaxAttempts >= BaseAttempts + 2,
         UNCHANGED <<site, job>>, NEW c \in Calls, call[c].pc = "sending",
         NEW kw \in SUBSET Params,
         \E name \in Names : kw \cap Names = {name},
         site.via = "sdk" => kw \cap Names = {"max_tokens"},
         WrongOnes(kw) + 1 <= WrongOnes(call[c].kw),
         AttemptAgain(c, [call[c] EXCEPT !.kw = kw]),
         "legacy_maxtok" \in marks' => "legacy_maxtok" \in marks \/ "max_tokens" \in site.takes
  PROVE  ParamShape'
<1> DEFINE r == [call[c] EXCEPT !.kw = kw]
           granted == IF r.attempt = r.attempts /\ r.attempts < MaxAttempts
                      THEN r.attempts + 1 ELSE r.attempts
<1>1. CallOK(call[c]) /\ RequestShape(call[c])
  BY DEF IInv, ParamShape
<1>2. /\ r.attempt = call[c].attempt /\ r.attempts = call[c].attempts
      /\ r.pc = "sending" /\ r.kw = kw /\ r.why = call[c].why /\ DOMAIN r = Fields
  BY <1>1 DEF CallOK, Fields
<1>3. WrongOnes(kw) \in Nat /\ WrongOnes(call[c].kw) \in Nat
  BY DEF WrongOnes, Wrong
<1>4. call[c].attempts + WrongOnes(call[c].kw) <= BaseAttempts + 2
  BY <1>1 DEF RequestShape
<1>5. r.attempt # granted /\ granted + WrongOnes(kw) <= BaseAttempts + 2
  BY <1>1, <1>2, <1>3, <1>4, ApiAssumption DEF CallOK
<1>6. Put(c, [r EXCEPT !.attempt = @ + 1, !.attempts = granted])
  BY <1>5 DEF AttemptAgain
<1>7. RequestShape([r EXCEPT !.attempt = @ + 1, !.attempts = granted])
  <2> DEFINE s == [r EXCEPT !.attempt = @ + 1, !.attempts = granted]
  <2>1. s.pc = "sending" /\ s.kw = kw /\ s.why = call[c].why /\ s.attempts = granted
    BY <1>2 DEF Fields
  <2>2. s.why \notin {"parameter", "exhausted"}
    BY <1>1, <2>1 DEF RequestShape
  <2> HIDE DEF s
  <2>3. RequestShape(s)
    BY <2>1, <2>2, <1>5 DEF RequestShape
  <2> QED BY <2>3 DEF s
<1> QED BY <1>6, <1>7, ParamPut

(* A call that ends otherwise than over its parameters.                    *)
LEMMA ParamEnd ==
  ASSUME IInv, ParamShape, NoneTooBig, UNCHANGED <<site, job, marks>>, NEW c \in Calls,
         Done(c) \/ \E reason \in Reasons \ {"parameter", "exhausted"} : Fail(c, reason)
  PROVE  ParamShape'
<1>1. CallOK(call[c]) /\ RequestShape(call[c])
  BY DEF IInv, ParamShape
<1>2. CASE Done(c)
  <2>1. RequestShape([call[c] EXCEPT !.pc = "done"])
    BY <1>1 DEF RequestShape, CallOK, Fields
  <2> QED BY <1>2, <2>1, ParamPut DEF Done
<1>3. ASSUME NEW reason \in Reasons \ {"parameter", "exhausted"}, Fail(c, reason)
      PROVE  ParamShape'
  <2>1. RequestShape([call[c] EXCEPT !.pc = "failed", !.why = reason])
    BY <1>1 DEF RequestShape, CallOK, Fields
  <2> QED BY <1>3, <2>1, ParamPut DEF Fail
<1> QED BY <1>2, <1>3

LEMMA ParamInit == Init => ParamShape
<1> SUFFICES ASSUME Init PROVE ParamShape
  OBVIOUS
<1>1. RequestShape(NewCall)
  BY DEF RequestShape, NewCall
<1> QED BY <1>1 DEF Init, ParamShape

(* sdk knows the limit by one name.                                        *)
LEMMA SdkNames ==
  ASSUME NEW c
  PROVE  /\ SdkPromptKw(job[c]) \cap Names = {"max_tokens"}
         /\ "max_completion_tokens" \notin SdkPromptKw(job[c])
<1>1. "max_tokens" \in SdkPromptKw(job[c]) /\ SdkPromptKw(job[c]) \subseteq Params
  BY DEF SdkPromptKw, Params
<1>2. "max_completion_tokens" \notin SdkPromptKw(job[c])
  BY DEF SdkPromptKw
<1> QED BY <1>1, <1>2 DEF Names, Params

LEMMA ParamClient ==
  ASSUME IInv, ParamShape, NoneTooBig, NEW c \in Calls,
         UseClient(c) \/ MissClient(c) \/ LockClient(c) \/ BuildClient(c) \/ Delegate(c)
  PROVE  ParamShape'
<1>1. CallOK(call[c]) /\ RequestShape(call[c])
  BY DEF IInv, ParamShape
<1>2. CASE UseClient(c)
  <2> DEFINE j == job[c]
             kw == FirstKw(j)
             pc == IF j.op = "prompt" THEN "sending" ELSE "looping"
             r == [call[c] EXCEPT !.pc = pc, !.kw = kw]
  <2>1. Put(c, r) /\ UNCHANGED <<site, job>>
        /\ ("legacy_maxtok" \in marks' => "legacy_maxtok" \in marks)
    BY <1>2 DEF UseClient, Begin
  <2> /\ site.via = "sdk" /\ j.op = "prompt" => kw = SdkPromptKw(j)
      /\ site.via = "sdk" /\ j.op # "prompt" => kw = {"max_tokens"}
      /\ site.via # "sdk" /\ j.op = "prompt" => kw = OpenAIPromptKw(j)
      /\ site.via # "sdk" /\ j.op # "prompt" => kw = OpenAIAgenticKw
    BY FirstKwIs
  <2>2. /\ r.pc = pc /\ r.kw = kw /\ r.why = call[c].why /\ r.attempts = call[c].attempts
    BY <1>1 DEF CallOK, Fields
  <2>3. call[c].attempts = BaseAttempts
    BY <1>1, <1>2 DEF UseClient, RequestShape
  <2>4. \E name \in Names : kw \cap Names = {name}
    BY SiteOK DEF Names, SdkPromptKw, OpenAIPromptKw, OpenAIAgenticKw, Params
  <2>5. site.via = "sdk" => kw \cap Names = {"max_tokens"}
    <3>1. CASE j.op = "prompt"
      BY <3>1, SdkNames
    <3>2. CASE j.op # "prompt"
      BY <3>2 DEF Names
    <3> QED BY <3>1, <3>2
  <2>6. WrongOnes(kw) <= 2 \/ pc = "looping"
    <3>1. CASE site.via = "sdk" /\ j.op = "prompt"
      <4>1. "max_completion_tokens" \notin kw /\ "max_tokens" \in site.takes
        BY <3>1, SiteOK, SdkNames
      <4> HIDE DEF kw
      <4> QED BY <4>1 DEF WrongOnes, Wrong
    <3>2. CASE site.via # "sdk" /\ j.op = "prompt"
      BY <3>2, SiteOK DEF WrongOnes, Wrong, OpenAIPromptKw
    <3> QED BY <3>1, <3>2
  <2>7. pc = "looping" =>
          kw \subseteq Names /\ ("max_tokens" \in kw => "max_tokens" \in site.takes)
    BY SiteOK DEF OpenAIAgenticKw, Names, ParamShape
  <2>8. WrongOnes(kw) \in Nat /\ BaseAttempts \in Nat
    BY ApiAssumption DEF WrongOnes, Wrong
  <2> HIDE DEF r, kw, j
  <2>9. RequestShape(r)
    BY <1>1, <2>2, <2>3, <2>4, <2>5, <2>6, <2>7, <2>8 DEF RequestShape
  <2> QED BY <2>1, <2>9, ParamPut
<1>3. CASE LockClient(c)
  BY <1>3 DEF LockClient, ParamShape, RequestShape, WrongOnes, Wrong
<1>4. CASE MissClient(c)
  <2>1. RequestShape([call[c] EXCEPT !.pc = "waiting"])
    BY <1>1, <1>4 DEF MissClient, RequestShape, CallOK, Fields
  <2> QED BY <1>4, <2>1, ParamPut DEF MissClient
<1>5. CASE BuildClient(c)
  <2>1. RequestShape([call[c] EXCEPT !.pc = "idle"])
    BY <1>1, <1>5 DEF BuildClient, RequestShape, CallOK, Fields
  <2> QED BY <1>5, <2>1, ParamPut DEF BuildClient
<1>6. CASE Delegate(c)
  <2>1. RequestShape([call[c] EXCEPT !.pc = "session"])
    BY <1>1 DEF RequestShape, CallOK, Fields
  <2> QED BY <1>6, <2>1, ParamPut DEF Delegate
<1> QED BY <1>2, <1>3, <1>4, <1>5, <1>6

LEMMA ParamPrompt ==
  ASSUME IInv, ParamShape, NoneTooBig, MaxAttempts >= BaseAttempts + 2,
         NEW c \in Calls, PromptStep(c)
  PROVE  ParamShape'
<1>1. CallOK(call[c]) /\ RequestShape(call[c])
  BY DEF IInv, ParamShape
<1>2. CASE PromptAnswered(c)
  BY <1>2, ParamEnd DEF PromptAnswered
<1>3. CASE PromptTransient(c)
  <2>1. CASE call[c].attempt < call[c].attempts
    <3>1. RequestShape([call[c] EXCEPT !.attempt = @ + 1])
      BY <1>1 DEF RequestShape, CallOK, Fields
    <3> QED BY <1>3, <2>1, <3>1, ParamPut DEF PromptTransient
  <2>2. CASE ~(call[c].attempt < call[c].attempts)
    BY <1>3, <2>2, ParamEnd DEF PromptTransient, Reasons
  <2> QED BY <2>1, <2>2
<1>4. CASE PromptRefused(c)
  <2>1. PICK x \in Complaints(c) : IF site.via = "openai" THEN OpenAIDrop(c, x) ELSE SdkDrop(c, x)
    BY <1>4 DEF PromptRefused
  <2>2. call[c].pc = "sending" /\ UNCHANGED <<site, job>>
    BY <1>4 DEF PromptRefused
  <2> DEFINE kw == call[c].kw
  <2>3. /\ x.about \in kw \ site.takes
        /\ x.about \in {"temperature", "thinking"} \cup Names
        /\ x.hint <=> x.about \in Names
    BY ComplaintsAre
  <2>4. PICK name \in Names : kw \cap Names = {name}
    BY <1>1, <2>2 DEF RequestShape
  <2>5. kw \subseteq Params /\ (site.via = "sdk" => name = "max_tokens")
    BY <1>1, <2>2, <2>4 DEF RequestShape, CallOK
  <2>6. ASSUME NEW p \in {"temperature", "thinking"}, x.about = p,
               AttemptAgain(c, [call[c] EXCEPT !.kw = @ \ {p}]),
               "legacy_maxtok" \in marks' => "legacy_maxtok" \in marks
        PROVE  ParamShape'
    <3>1. (kw \ {p}) \cap Names = {name}
      BY <2>4, <2>6 DEF Names
    <3>2. WrongOnes(kw \ {p}) + 1 <= WrongOnes(kw)
      BY <2>3, <2>6 DEF WrongOnes, Wrong
    <3>3. kw \ {p} \in SUBSET Params
      BY <2>5
    <3> QED BY <2>2, <2>4, <2>5, <2>6, <3>1, <3>2, <3>3, DropGoesOn
  <2>7. ASSUME NEW old \in Names, NEW new \in Names, old # new, old \in kw, site.via = "openai",
               x.hint, AttemptAgain(c, [call[c] EXCEPT !.kw = Swap(@, old, new)]),
               "legacy_maxtok" \in marks' => "legacy_maxtok" \in marks \/ new = "max_tokens"
        PROVE  ParamShape'
    <3>1. old = name /\ old \notin site.takes /\ new \in site.takes
      BY <2>3, <2>4, <2>7, SiteOK DEF Names
    <3>2. Swap(kw, old, new) \cap Names = {new}
      BY <2>4, <2>7, <3>1 DEF Swap, Names
    <3>3. WrongOnes(Swap(kw, old, new)) + 1 <= WrongOnes(kw)
      BY <2>4, <2>7, <3>1 DEF WrongOnes, Wrong, Swap, Names
    <3>4. Swap(kw, old, new) \in SUBSET Params
      BY <2>5 DEF Swap, Names, Params
    <3> QED BY <2>2, <2>7, <3>1, <3>2, <3>3, <3>4, DropGoesOn
  <2>8. CASE site.via = "openai"
    BY <2>1, <2>3, <2>6, <2>7, <2>8 DEF OpenAIDrop, Names
  <2>9. CASE site.via # "openai"
    <3>1. x.about \notin Names
      BY <2>3, <2>4, <2>5, <2>9, SiteOK DEF Names
    <3> QED BY <2>1, <2>3, <2>6, <2>9, <3>1 DEF SdkDrop, Names
  <2> QED BY <2>8, <2>9
<1> QED BY <1>2, <1>3, <1>4 DEF PromptStep

LEMMA ParamAgentic ==
  ASSUME IInv, ParamShape, NoneTooBig, NEW c \in Calls, AgenticStep(c)
  PROVE  ParamShape'
<1>1. CallOK(call[c]) /\ RequestShape(call[c])
  BY DEF IInv, ParamShape
<1>2. CASE AgenticRefused(c)
  <2>1. call[c].pc = "looping" /\ Complaints(c) # {} /\ UNCHANGED <<site, job>>
    BY <1>2 DEF AgenticRefused, Acceptable
  <2>2. PICK x \in Complaints(c) : TRUE
    BY <2>1
  <2>3. x.about \in call[c].kw \ site.takes
    BY ComplaintsAre
  <2>4. /\ call[c].kw \subseteq Names
        /\ "max_tokens" \in call[c].kw => "max_tokens" \in site.takes
        /\ site.via = "sdk" => call[c].kw \cap Names = {"max_tokens"}
        /\ \E name \in Names : call[c].kw \cap Names = {name}
    BY <1>1, <2>1 DEF RequestShape
  <2>5. /\ call[c].kw = {"max_completion_tokens"} /\ "max_completion_tokens" \notin site.takes
        /\ site.via = "openai"
    BY <2>3, <2>4, SiteOK DEF Names
  <2>6. "max_tokens" \in site.takes
    BY <2>5, SiteOK DEF Names
  <2>7. Put(c, [call[c] EXCEPT !.kw = {"max_tokens"}])
    BY <1>2, <2>5 DEF AgenticRefused, Swap
  <2>8. RequestShape([call[c] EXCEPT !.kw = {"max_tokens"}])
    BY <1>1, <2>1, <2>6 DEF RequestShape, CallOK, Fields, Names
  <2> QED BY <2>1, <2>6, <2>7, <2>8, ParamPut
<1>3. CASE Overflow(c)
  <2>1. ASSUME NEW i
        PROVE  RequestShape([call[c] EXCEPT !.shrinks = @ + 1, !.results[i] = "evicted"])
    BY <1>1 DEF RequestShape, CallOK, Fields
  <2>2. CASE Put(c, [call[c] EXCEPT !.shrinks = @ + 1,
                       !.results[Oldest(Evictable(call[c].results))] = "evicted"])
    BY <1>3, <2>1, <2>2, ParamPut DEF Overflow
  <2> QED BY <1>3, <2>2, ParamEnd DEF Overflow, Reasons
<1>4. CASE AgenticTransient(c)
  <2>1. RequestShape([call[c] EXCEPT !.transients = @ + 1])
    BY <1>1 DEF RequestShape, CallOK, Fields
  <2> QED BY <1>4, <2>1, ParamPut, ParamEnd DEF AgenticTransient, Reasons
<1>5. CASE AgenticTools(c)
  <2>1. call[c].pc = "looping" /\ UNCHANGED <<site, job, marks>>
    BY <1>5 DEF AgenticTools
  <2>2. PICK n \in 1..CallsPerTurn : \E out \in [1..n -> ToolResults] :
          Put(c, [call[c] EXCEPT
            !.results = @ \o Oversized(out),
            !.turn = IF @ < TurnCap THEN @ + 1 ELSE @,
            !.pc = IF call[c].turn = TurnCap THEN "final" ELSE @,
            !.shrinks = 0,
            !.transients = IF site.via = "openai" THEN 0 ELSE @])
    BY <1>5 DEF AgenticTools
  <2>3. ASSUME NEW more
        PROVE  RequestShape([call[c] EXCEPT
            !.results = more,
            !.turn = IF @ < TurnCap THEN @ + 1 ELSE @,
            !.pc = IF call[c].turn = TurnCap THEN "final" ELSE @,
            !.shrinks = 0,
            !.transients = IF site.via = "openai" THEN 0 ELSE @])
    BY <1>1, <2>1 DEF RequestShape, CallOK, Fields
  <2> QED BY <2>1, <2>2, <2>3, ParamPut
<1>6. CASE AgenticAnswered(c)
  BY <1>6, ParamEnd DEF AgenticAnswered
<1> QED BY <1>2, <1>3, <1>4, <1>5, <1>6 DEF AgenticStep

LEMMA ParamOther ==
  ASSUME IInv, ParamShape, NoneTooBig, NEW c \in Calls,
         Unsupported(c) \/ HardError(c) \/ SessionTool(c) \/ SessionResult(c)
  PROVE  ParamShape'
<1>1. CallOK(call[c]) /\ RequestShape(call[c])
  BY DEF IInv, ParamShape
<1>2. CASE Unsupported(c) \/ HardError(c) \/ SessionResult(c)
  BY <1>2, ParamEnd DEF Unsupported, HardError, SessionResult, Reasons
<1>3. CASE SessionTool(c)
  <2>1. PICK tool \in job[c].tools, target \in Targets :
          Put(c, [call[c] EXCEPT !.turn = @ + 1,
                     !.results = IF Allowed(tool, target) THEN @ ELSE Append(@, "denied")])
    BY <1>3 DEF SessionTool
  <2>2. ASSUME NEW more PROVE RequestShape([call[c] EXCEPT !.turn = @ + 1, !.results = more])
    BY <1>1 DEF RequestShape, CallOK, Fields
  <2> QED BY <1>3, <2>1, <2>2, ParamPut DEF SessionTool
<1> QED BY <1>2, <1>3

LEMMA ParamStep ==
  ASSUME MaxAttempts >= BaseAttempts + 2
  PROVE  IInv /\ ParamShape /\ [Next]_vars => ParamShape'
<1> SUFFICES ASSUME IInv, ParamShape, [Next]_vars, NoneTooBig' PROVE ParamShape'
  BY DEF ParamShape
<1>1. UNCHANGED <<site, job>>
  BY DEF Next, AllEnded, Step, UseClient, MissClient, LockClient, BuildClient, Unsupported,
         Delegate, PromptStep, PromptRefused, PromptAnswered, PromptTransient, AgenticStep,
         AgenticRefused, Overflow, AgenticTransient, AgenticTools, AgenticAnswered,
         HardError, SessionTool, SessionResult, vars
<1>2. NoneTooBig
  BY <1>1 DEF NoneTooBig
<1>3. CASE UNCHANGED vars
  BY <1>3 DEF vars, ParamShape, RequestShape, WrongOnes, Wrong, NoneTooBig
<1>4. ASSUME NEW c \in Calls, Step(c) PROVE ParamShape'
  BY <1>2, <1>4, ParamClient, ParamPrompt, ParamAgentic, ParamOther DEF Step
<1> QED BY <1>3, <1>4 DEF Next, AllEnded

(* A call is lost to its parameters only where some call asks for more     *)
(* tokens than the model gives: two attempts beyond the regular ones are   *)
(* enough, whatever other threads found out and whatever failed between.   *)
THEOREM ParametersAreDropped ==
  ASSUME MaxAttempts >= BaseAttempts + 2
  PROVE  Spec => []ParametersNeverLose
<1>1. ParamShape => ParametersNeverLose
  BY DEF ParamShape, RequestShape, ParametersNeverLose, NoneTooBig
<1>2. IInv /\ ParamShape /\ [Next]_vars => ParamShape'
  BY ParamStep
<1> QED BY <1>1, <1>2, ParamInit, Inductive, PTL DEF Spec

-----------------------------------------------------------------------------
(* The length of a conversation.                                           *)

Evicted(results) == {i \in DOMAIN results : results[i] = "evicted"}

(* What a history is made of; every eviction of this turn is in it, and a  *)
(* call is given up for its length by its last step only, when there is    *)
(* nothing left to evict or the turn has evicted all it may.               *)
HistoryShape(r) ==
  /\ r.results \in Seq({"large", "evicted", "denied"})
  /\ r.shrinks <= Cardinality(Evicted(r.results))
  /\ r.why = "overflow" =>
       /\ r.pc = "failed"
       /\ site.via = "openai" => Evictable(r.results) = {} \/ r.shrinks = MaxShrinks

History == \A c \in Calls : HistoryShape(call[c])

(* A set of numbers has a least one: the intervals up to them are          *)
(* well-founded under inclusion.                                           *)
LEMMA LeastNumber ==
  ASSUME NEW S \in SUBSET Nat, S # {}
  PROVE  \E i \in S : \A k \in S : i <= k
<1> DEFINE T == {1..n : n \in S}
<1>1. T \subseteq FiniteSubsetsOf(Nat) /\ T # {}
  <2>1. \A n \in S : 1..n \in SUBSET Nat /\ IsFiniteSet(1..n)
    BY FS_Interval
  <2> QED BY <2>1 DEF FiniteSubsetsOf
<1>2. PICK x \in T : \A y \in T : <<y, x>> \notin StrictSubsetOrdering(Nat)
  BY <1>1, FS_StrictSubsetOrderingWellFounded, WFMin
<1>3. PICK i \in S : x = 1..i
  OBVIOUS
<1>4. ASSUME NEW k \in S, k < i PROVE FALSE
  <2>1. <<1..k, 1..i>> \in StrictSubsetOrdering(Nat)
    BY <1>4 DEF StrictSubsetOrdering
  <2> QED BY <2>1, <1>2, <1>3
<1> QED BY <1>4

(* What _shrink_history cuts down is the oldest oversized result.          *)
LEMMA OldestIsEvictable ==
  ASSUME NEW results \in Seq({"large", "evicted", "denied"}), Evictable(results) # {}
  PROVE  /\ Oldest(Evictable(results)) \in DOMAIN results
         /\ results[Oldest(Evictable(results))] = "large"
<1>1. Evictable(results) \in SUBSET Nat
  BY DEF Evictable
<1>2. \E i \in Evictable(results) : \A k \in Evictable(results) : i <= k
  BY <1>1, LeastNumber
<1>3. Oldest(Evictable(results)) \in Evictable(results)
  BY <1>2 DEF Oldest
<1> QED BY <1>3 DEF Evictable

LEMMA EvictedFinite ==
  ASSUME NEW results \in Seq({"large", "evicted", "denied"})
  PROVE  IsFiniteSet(Evicted(results)) /\ Cardinality(Evicted(results)) \in Nat
<1>1. IsFiniteSet(DOMAIN results)
  <2>1. DOMAIN results = 1..Len(results) /\ Len(results) \in Int
    OBVIOUS
  <2> QED BY <2>1, FS_Interval
<1>2. Evicted(results) \in SUBSET DOMAIN results
  BY DEF Evicted
<1> QED BY <1>1, <1>2, FS_Subset, FS_CardinalityType

(* One eviction more.                                                      *)
LEMMA EvictOne ==
  ASSUME NEW results \in Seq({"large", "evicted", "denied"}), Evictable(results) # {}
  PROVE  LET cut == [results EXCEPT ![Oldest(Evictable(results))] = "evicted"]
         IN  /\ cut \in Seq({"large", "evicted", "denied"})
             /\ Cardinality(Evicted(cut)) = Cardinality(Evicted(results)) + 1
<1> DEFINE i == Oldest(Evictable(results))
           cut == [results EXCEPT ![i] = "evicted"]
<1>1. i \in DOMAIN results /\ results[i] = "large"
  BY OldestIsEvictable
<1> HIDE DEF i
<1>2. cut \in Seq({"large", "evicted", "denied"})
  BY <1>1, ExceptSeq
<1>3. Evicted(cut) = Evicted(results) \cup {i} /\ i \notin Evicted(results)
  BY <1>1 DEF Evicted
<1>4. Cardinality(Evicted(cut)) = Cardinality(Evicted(results)) + 1
  BY <1>3, EvictedFinite, FS_AddElement
<1> QED BY <1>2, <1>4 DEF i

(* What a turn's tools, and a refused one, add.                            *)
LEMMA OversizedAre ==
  ASSUME NEW n \in Nat, NEW out \in [1..n -> ToolResults]
  PROVE  Oversized(out) \in Seq({"large", "evicted", "denied"})
<1> DEFINE L == {k \in DOMAIN out : out[k] = "large"}
<1>1. IsFiniteSet(DOMAIN out) /\ L \in SUBSET DOMAIN out
  BY FS_Interval
<1>2. Cardinality(L) \in Nat
  BY <1>1, FS_Subset, FS_CardinalityType
<1> HIDE DEF L
<1>3. [i \in 1..Cardinality(L) |-> "large"] \in Seq({"large", "evicted", "denied"})
  BY <1>2
<1> QED BY <1>3 DEF Oversized, L

LEMMA HistoryPut ==
  ASSUME IInv, History, UNCHANGED site, NEW c \in Calls, NEW r, HistoryShape(r), Put(c, r)
  PROVE  History'
<1>1. \A d \in Calls : call'[d] = IF d = c THEN r ELSE call[d]
  BY DEF Put, IInv
<1>2. \A d \in Calls : HistoryShape(call'[d])
  BY <1>1 DEF History
<1> QED BY <1>2 DEF History, HistoryShape

(* A step that leaves the history alone and does not end over its length.  *)
LEMMA HistoryKept ==
  ASSUME IInv, History, UNCHANGED site, NEW c \in Calls, NEW r, Put(c, r),
         call[c].pc # "failed", r.results = call[c].results, r.shrinks = call[c].shrinks,
         r.why = call[c].why \/ r.why # "overflow"
  PROVE  History'
<1>1. HistoryShape(call[c]) /\ call[c].why # "overflow"
  BY DEF History, HistoryShape
<1>2. HistoryShape(r)
  BY <1>1 DEF HistoryShape
<1> QED BY <1>2, HistoryPut

LEMMA HistoryInit == Init => History
<1> SUFFICES ASSUME Init PROVE History
  OBVIOUS
<1>1. Evicted(<<>>) = {} /\ Cardinality({}) = 0
  BY FS_EmptySet DEF Evicted
<1>2. HistoryShape(NewCall)
  BY <1>1 DEF HistoryShape, NewCall
<1> QED BY <1>2 DEF Init, History

(* The steps that neither cut the history nor add to it.                   *)
LEMMA HistoryQuiet ==
  ASSUME IInv, History, NEW c \in Calls,
         \/ UseClient(c) \/ MissClient(c) \/ LockClient(c) \/ BuildClient(c)
         \/ Unsupported(c) \/ Delegate(c) \/ PromptStep(c) \/ HardError(c) \/ SessionResult(c)
         \/ AgenticRefused(c) \/ AgenticTransient(c) \/ AgenticAnswered(c)
  PROVE  History'
<1>1. DOMAIN call[c] = Fields /\ UNCHANGED site
  BY DEF IInv, CallOK, UseClient, MissClient, LockClient, BuildClient, Unsupported, Delegate,
         PromptStep, PromptRefused, PromptAnswered, PromptTransient, HardError, SessionResult,
         AgenticRefused, AgenticTransient, AgenticAnswered
<1>2. CASE LockClient(c)
  BY <1>2 DEF LockClient, History, HistoryShape
<1>3. CASE UseClient(c) \/ MissClient(c) \/ BuildClient(c) \/ Delegate(c)
  <2>1. call[c].pc # "failed"
    BY <1>3 DEF UseClient, MissClient, BuildClient, Delegate
  <2>2. ASSUME NEW pc, NEW kw, Put(c, [call[c] EXCEPT !.pc = pc, !.kw = kw])
        PROVE  History'
    BY <1>1, <2>1, <2>2, HistoryKept DEF Fields
  <2>3. ASSUME NEW pc, Put(c, [call[c] EXCEPT !.pc = pc])
        PROVE  History'
    BY <1>1, <2>1, <2>3, HistoryKept DEF Fields
  <2> QED BY <1>3, <2>2, <2>3 DEF UseClient, Begin, MissClient, BuildClient, Delegate
<1>4. ASSUME call[c].pc # "failed",
             Done(c) \/ \E reason \in Reasons \ {"overflow"} : Fail(c, reason)
      PROVE  History'
  <2>1. CASE Done(c)
    BY <1>1, <1>4, <2>1, HistoryKept DEF Done, Fields
  <2>2. ASSUME NEW reason \in Reasons \ {"overflow"}, Fail(c, reason) PROVE History'
    BY <1>1, <1>4, <2>2, HistoryKept DEF Fail, Fields
  <2> QED BY <1>4, <2>1, <2>2
<1>5. CASE Unsupported(c) \/ HardError(c) \/ SessionResult(c) \/ AgenticAnswered(c)
           \/ PromptAnswered(c)
  BY <1>4, <1>5
     DEF Unsupported, HardError, SessionResult, AgenticAnswered, PromptAnswered, Reasons
<1>6. CASE AgenticTransient(c) \/ PromptTransient(c)
  <2>1. call[c].pc # "failed"
    BY <1>6 DEF AgenticTransient, PromptTransient
  <2>2. CASE \/ Put(c, [call[c] EXCEPT !.transients = @ + 1])
             \/ Put(c, [call[c] EXCEPT !.attempt = @ + 1])
    BY <1>1, <2>1, <2>2, HistoryKept DEF Fields
  <2> QED BY <1>4, <1>6, <2>1, <2>2 DEF AgenticTransient, PromptTransient, Reasons
<1>7. CASE AgenticRefused(c)
  <2>1. call[c].pc # "failed"
    BY <1>7 DEF AgenticRefused
  <2>2. ASSUME NEW kw, Put(c, [call[c] EXCEPT !.kw = kw]) PROVE History'
    BY <1>1, <2>1, <2>2, HistoryKept DEF Fields
  <2> QED BY <1>4, <1>7, <2>1, <2>2 DEF AgenticRefused, Reasons
<1>8. CASE PromptRefused(c)
  <2>1. call[c].pc # "failed"
    BY <1>8 DEF PromptRefused
  <2>2. ASSUME NEW kw, AttemptAgain(c, [call[c] EXCEPT !.kw = kw]) PROVE History'
    BY <1>1, <2>1, <2>2, HistoryKept DEF AttemptAgain, Fields
  <2>3. Fail(c, "parameter") \/ \E kw : AttemptAgain(c, [call[c] EXCEPT !.kw = kw])
    BY <1>8 DEF PromptRefused, OpenAIDrop, SdkDrop
  <2> QED BY <1>4, <2>1, <2>2, <2>3 DEF Reasons
<1> QED BY <1>2, <1>3, <1>5, <1>6, <1>7, <1>8 DEF PromptStep

(* The conversation no longer fits.                                        *)
LEMMA HistoryOverflow ==
  ASSUME IInv, History, NEW c \in Calls, Overflow(c)
  PROVE  History'
<1> DEFINE r == call[c]
<1>1. /\ DOMAIN r = Fields /\ r.shrinks \in Nat /\ HistoryShape(r) /\ UNCHANGED site
      /\ r.pc \in {"looping", "final"} /\ r.why # "overflow"
  BY ApiAssumption DEF Overflow, IInv, CallOK, History, HistoryShape
<1>2. r.results \in Seq({"large", "evicted", "denied"})
  BY <1>1 DEF HistoryShape
<1> HIDE DEF r
<1>3. ASSUME Evictable(r.results) # {},
             Put(c, [r EXCEPT !.shrinks = @ + 1,
                              !.results[Oldest(Evictable(r.results))] = "evicted"])
      PROVE  History'
  <2> DEFINE cut == [r.results EXCEPT ![Oldest(Evictable(r.results))] = "evicted"]
             s == [r EXCEPT !.shrinks = @ + 1, !.results = cut]
  <2>1. cut \in Seq({"large", "evicted", "denied"})
        /\ Cardinality(Evicted(cut)) = Cardinality(Evicted(r.results)) + 1
    BY <1>2, <1>3, EvictOne
  <2>2. Put(c, s)
    BY <1>1, <1>3 DEF Fields
  <2>3. s.results = cut /\ s.shrinks = r.shrinks + 1 /\ s.why = r.why
    BY <1>1 DEF Fields
  <2>4. Cardinality(Evicted(r.results)) \in Nat /\ r.shrinks <= Cardinality(Evicted(r.results))
    BY <1>1, <1>2, EvictedFinite DEF HistoryShape
  <2> HIDE DEF cut, s
  <2>5. HistoryShape(s)
    BY <1>1, <2>1, <2>3, <2>4 DEF HistoryShape
  <2> QED BY <1>1, <2>2, <2>5, HistoryPut
<1>4. ASSUME NEW reason, Fail(c, reason),
             reason = "overflow" /\ site.via = "openai"
               => Evictable(r.results) = {} \/ r.shrinks = MaxShrinks
      PROVE  History'
  <2> DEFINE s == [r EXCEPT !.pc = "failed", !.why = reason]
  <2>1. Put(c, s)
    BY <1>4 DEF Fail, r
  <2>2. s.results = r.results /\ s.shrinks = r.shrinks /\ s.why = reason /\ s.pc = "failed"
    BY <1>1 DEF Fields
  <2> HIDE DEF s
  <2>3. HistoryShape(s)
    BY <1>1, <1>4, <2>2 DEF HistoryShape
  <2> QED BY <1>1, <2>1, <2>3, HistoryPut
<1> QED BY <1>3, <1>4 DEF Overflow, r

(* Results join the history: of local tools, and of a session's refusals.  *)
LEMMA HistoryGrows ==
  ASSUME IInv, History, NEW c \in Calls, AgenticTools(c) \/ SessionTool(c)
  PROVE  History'
<1> DEFINE r == call[c]
           Kinds == {"large", "evicted", "denied"}
<1>1. /\ DOMAIN r = Fields /\ HistoryShape(r) /\ UNCHANGED site
      /\ r.pc # "failed" /\ r.why # "overflow" /\ r.results \in Seq(Kinds)
  BY DEF AgenticTools, SessionTool, IInv, CallOK, History, HistoryShape
<1> HIDE DEF r
<1>2. ASSUME NEW s, Put(c, s), s.results \in Seq(Kinds), s.why = r.why,
             s.shrinks <= Cardinality(Evicted(s.results))
      PROVE  History'
  <2>1. HistoryShape(s)
    BY <1>1, <1>2 DEF HistoryShape
  <2> QED BY <1>1, <1>2, <2>1, HistoryPut
<1>3. CASE AgenticTools(c)
  <2>1. PICK n \in 1..CallsPerTurn : \E out \in [1..n -> ToolResults] :
          Put(c, [r EXCEPT
            !.results = @ \o Oversized(out),
            !.turn = IF @ < TurnCap THEN @ + 1 ELSE @,
            !.pc = IF r.turn = TurnCap THEN "final" ELSE @,
            !.shrinks = 0,
            !.transients = IF site.via = "openai" THEN 0 ELSE @])
    BY <1>3 DEF AgenticTools, r
  <2>2. PICK out \in [1..n -> ToolResults] :
          Put(c, [r EXCEPT
            !.results = @ \o Oversized(out),
            !.turn = IF @ < TurnCap THEN @ + 1 ELSE @,
            !.pc = IF r.turn = TurnCap THEN "final" ELSE @,
            !.shrinks = 0,
            !.transients = IF site.via = "openai" THEN 0 ELSE @])
    BY <2>1
  <2>3. Oversized(out) \in Seq(Kinds)
    BY OversizedAre, ApiAssumption
  <2> DEFINE more == r.results \o Oversized(out)
             s == [r EXCEPT
                    !.results = more,
                    !.turn = IF @ < TurnCap THEN @ + 1 ELSE @,
                    !.pc = IF r.turn = TurnCap THEN "final" ELSE @,
                    !.shrinks = 0,
                    !.transients = IF site.via = "openai" THEN 0 ELSE @]
  <2>4. more \in Seq(Kinds)
    BY <1>1, <2>3
  <2>5. Put(c, s)
    BY <1>1, <2>2 DEF Fields
  <2>6. s.results = more /\ s.why = r.why /\ s.shrinks = 0
    BY <1>1 DEF Fields
  <2> HIDE DEF more, s
  <2>7. Cardinality(Evicted(more)) \in Nat
    BY <2>4, EvictedFinite
  <2> QED BY <1>2, <2>4, <2>5, <2>6, <2>7
<1>4. CASE SessionTool(c)
  <2>1. PICK tool \in job[c].tools, target \in Targets :
          Put(c, [r EXCEPT !.turn = @ + 1,
                     !.results = IF Allowed(tool, target) THEN @ ELSE Append(@, "denied")])
    BY <1>4 DEF SessionTool, r
  <2> DEFINE more == IF Allowed(tool, target) THEN r.results ELSE Append(r.results, "denied")
             s == [r EXCEPT !.turn = @ + 1, !.results = more]
  <2>2. more \in Seq(Kinds) /\ Evicted(more) = Evicted(r.results)
    BY <1>1 DEF Evicted
  <2>3. Put(c, s)
    BY <1>1, <2>1 DEF Fields
  <2>4. s.results = more /\ s.why = r.why /\ s.shrinks = r.shrinks
    BY <1>1 DEF Fields
  <2> HIDE DEF more, s
  <2> QED BY <1>1, <1>2, <2>2, <2>3, <2>4 DEF HistoryShape
<1> QED BY <1>3, <1>4

LEMMA HistoryStep == IInv /\ History /\ [Next]_vars => History'
<1> SUFFICES ASSUME IInv, History, [Next]_vars PROVE History'
  OBVIOUS
<1>1. CASE UNCHANGED vars
  BY <1>1 DEF vars, History, HistoryShape
<1>2. ASSUME NEW c \in Calls, Step(c) PROVE History'
  BY <1>2, HistoryQuiet, HistoryOverflow, HistoryGrows DEF Step, AgenticStep
<1> QED BY <1>1, <1>2 DEF Next, AllEnded

(* For any turns, tools and limits: a conversation of openai is given up   *)
(* for its length only when no oversized result is left to cut, or as many *)
(* were cut as a turn may.  The count of a turn may start again, the cut   *)
(* results do not grow back, so that the count never runs ahead of them.   *)
THEOREM CutBeforeGivenUp == Spec => []OverflowIsLast
<1>1. IInv /\ History => OverflowIsLast
  <2> SUFFICES ASSUME IInv, History, NEW c \in Calls, call[c].why = "overflow",
                      site.via = "openai"
               PROVE  \/ \A i \in DOMAIN call[c].results : call[c].results[i] # "large"
                      \/ Cardinality(Evicted(call[c].results)) >= MaxShrinks
    BY DEF OverflowIsLast, Evicted
  <2>1. /\ Evictable(call[c].results) = {} \/ call[c].shrinks = MaxShrinks
        /\ call[c].shrinks <= Cardinality(Evicted(call[c].results))
    BY DEF History, HistoryShape
  <2> QED BY <2>1 DEF Evictable
<1> QED BY <1>1, HistoryInit, HistoryStep, Inductive, PTL DEF Spec
-----------------------------------------------------------------------------
(* Why every call ends.                                                    *)

(* How far a call is from its end: first the client, then the work, then   *)
(* the forced final request.                                               *)
Phase(c) ==
  LET at == call[c].pc IN
  IF at = "idle" THEN IF client.built = 0 THEN 6 ELSE 3
  ELSE IF at = "waiting" THEN IF client.holder = c THEN 4 ELSE 5
  ELSE IF at \in {"sending", "looping", "session"} THEN 2
  ELSE IF at = "final" THEN 1 ELSE 0

(* Within a phase: the attempts, the name of the limit that is still to be *)
(* tried, the turns, and what is left to this turn to try again or cut.    *)
NewNames(c) == IF "max_completion_tokens" \in call[c].kw THEN 1 ELSE 0
Left(c) == (MaxTransients - call[c].transients) + (MaxShrinks - call[c].shrinks)

Rank(c) ==
  [i \in 1..5 |-> IF i = 1 THEN Phase(c)
                  ELSE IF i = 2 THEN MaxAttempts - call[c].attempt
                  ELSE IF i = 3 THEN NewNames(c)
                  ELSE IF i = 4 THEN TurnCap - call[c].turn
                  ELSE Left(c)]

Less == {p \in Nat \X Nat : p[1] < p[2]}
Ranks == [1..5 -> Nat]
Lower == LexProductOrdering(Less, Nat, 5)

(* No rank can be lowered for ever.                                        *)
THEOREM RanksEnd == IsWellFoundedOn(Lower, Ranks)
<1>1. ASSUME NEW S \in SUBSET Nat, S # {}
      PROVE  \E i \in S : \A k \in S : <<k, i>> \notin Less
  <2>1. PICK i \in S : \A k \in S : i <= k
    BY <1>1, LeastNumber
  <2> QED BY <2>1 DEF Less
<1>2. IsWellFoundedOn(Less, Nat)
  BY <1>1, MinWF
<1> QED BY <1>2, WFLexProductOrdering DEF Lower, Ranks

LEMMA RankType == ASSUME IInv, NEW c \in Calls PROVE Rank(c) \in Ranks
<1>1. CallOK(call[c])
  BY DEF IInv
<1>2. /\ Phase(c) \in Nat /\ MaxAttempts - call[c].attempt \in Nat /\ NewNames(c) \in Nat
      /\ TurnCap - call[c].turn \in Nat /\ Left(c) \in Nat
  BY <1>1, ApiAssumption DEF CallOK, Phase, NewNames, Left
<1> QED BY <1>2 DEF Rank, Ranks

(* What it takes to lower a rank.                                          *)
Falls(c) ==
  \/ Phase(c)' < Phase(c)
  \/ /\ Phase(c)' = Phase(c)
     /\ \/ call'[c].attempt > call[c].attempt
        \/ /\ call'[c].attempt = call[c].attempt
           /\ \/ NewNames(c)' < NewNames(c)
              \/ /\ NewNames(c)' = NewNames(c)
                 /\ \/ call'[c].turn > call[c].turn
                    \/ call'[c].turn = call[c].turn /\ Left(c)' < Left(c)

LEMMA RankFalls ==
  ASSUME IInv, IInv', NEW c \in Calls, Falls(c)
  PROVE  <<Rank(c)', Rank(c)>> \in Lower
<1>1. Rank(c) \in Ranks /\ Rank(c)' \in Ranks
  <2>1. CallOK(call'[c])
    BY DEF IInv, CallOK
  <2>2. /\ Phase(c)' \in Nat /\ MaxAttempts - call'[c].attempt \in Nat /\ NewNames(c)' \in Nat
        /\ TurnCap - call'[c].turn \in Nat /\ Left(c)' \in Nat
    BY <2>1, ApiAssumption DEF CallOK, Phase, NewNames, Left
  <2> QED BY <2>2, RankType DEF Rank, Ranks
<1>2. CallOK(call[c]) /\ CallOK(call'[c])
  BY DEF IInv, CallOK
<1>3. SUFFICES \E j \in 1..5 : /\ \A i \in 1..(j - 1) : Rank(c)'[i] = Rank(c)[i]
                               /\ Rank(c)'[j] < Rank(c)[j]
  BY <1>1 DEF Lower, LexProductOrdering, Less, Ranks
<1>4. /\ Rank(c)[1] = Phase(c) /\ Rank(c)'[1] = Phase(c)'
      /\ Rank(c)[2] = MaxAttempts - call[c].attempt /\ Rank(c)'[2] = MaxAttempts - call'[c].attempt
      /\ Rank(c)[3] = NewNames(c) /\ Rank(c)'[3] = NewNames(c)'
      /\ Rank(c)[4] = TurnCap - call[c].turn /\ Rank(c)'[4] = TurnCap - call'[c].turn
      /\ Rank(c)[5] = Left(c) /\ Rank(c)'[5] = Left(c)'
  BY DEF Rank
<1> QED BY <1>2, <1>4, ApiAssumption DEF CallOK, Falls

(* The call that moves.                                                    *)
LEMMA PutIs ==
  ASSUME IInv, NEW c \in Calls, NEW r, Put(c, r)
  PROVE  call'[c] = r /\ \A d \in Calls \ {c} : call'[d] = call[d]
BY DEF Put, IInv

LEMMA DomainIs == IInv => DOMAIN call = Calls
BY DEF IInv

LEMMA EndFalls ==
  ASSUME IInv, NEW c \in Calls, call[c].pc \notin {"done", "failed"},
         Done(c) \/ \E reason \in Reasons : Fail(c, reason)
  PROVE  Falls(c)
<1>1. CallOK(call[c])
  BY DEF IInv
<1>2. Phase(c) > 0
  BY <1>1 DEF CallOK, PCs, Phase
<1>3. call'[c].pc \in {"done", "failed"}
  BY <1>1, DomainIs DEF Put, Done, Fail, CallOK, Fields
<1> QED BY <1>2, <1>3 DEF Falls, Phase

LEMMA ClientFalls ==
  ASSUME IInv, NEW c \in Calls,
         UseClient(c) \/ MissClient(c) \/ LockClient(c) \/ BuildClient(c)
  PROVE  Falls(c)
<1>1. CallOK(call[c]) /\ client \in [built : 0..1, holder : Calls \cup {Nobody}]
  BY DEF IInv, SharedOK
<1>2. CASE UseClient(c)
  <2>1. call'[c].pc \in {"sending", "looping"}
    BY <1>1, <1>2, DomainIs DEF Put, UseClient, Begin, CallOK, Fields
  <2> QED BY <1>2, <2>1 DEF UseClient, Falls, Phase
<1>3. CASE MissClient(c)
  <2>1. call'[c].pc = "waiting"
    BY <1>1, <1>3, PutIs DEF MissClient, CallOK, Fields
  <2> QED BY <1>3, <2>1 DEF MissClient, Falls, Phase
<1>4. CASE LockClient(c)
  BY <1>1, <1>4, NobodyAssumption DEF LockClient, Falls, Phase
<1>5. CASE BuildClient(c)
  <2>1. call'[c].pc = "idle" /\ client'.built # 0
    BY <1>1, <1>5, PutIs DEF BuildClient, CallOK, Fields
  <2> QED BY <1>5, <2>1 DEF BuildClient, Falls, Phase
<1> QED BY <1>2, <1>3, <1>4, <1>5

(* A request that is sent again is a new attempt, or there is none left.   *)
LEMMA AttemptFalls ==
  ASSUME IInv, NEW c \in Calls, call[c].pc = "sending",
         NEW r, CallOK(r), r.pc = "sending", r.attempt = call[c].attempt,
         AttemptAgain(c, r)
  PROVE  Falls(c)
<1> DEFINE granted == IF r.attempt = r.attempts /\ r.attempts < MaxAttempts
                      THEN r.attempts + 1 ELSE r.attempts
<1>1. CASE r.attempt = granted
  <2>1. call'[c].pc = "failed"
    BY <1>1, DomainIs DEF Put, AttemptAgain, CallOK, Fields
  <2> QED BY <2>1 DEF Falls, Phase
<1>2. CASE r.attempt # granted
  <2>1. call'[c].pc = "sending" /\ call'[c].attempt = r.attempt + 1
    BY <1>2, DomainIs DEF Put, AttemptAgain, CallOK, Fields
  <2>2. r.attempt \in Nat
    BY ApiAssumption DEF CallOK
  <2> QED BY <2>1, <2>2 DEF Falls, Phase
<1> QED BY <1>1, <1>2

LEMMA PromptFalls == ASSUME IInv, NEW c \in Calls, PromptStep(c) PROVE Falls(c)
<1>1. CallOK(call[c]) /\ call[c].pc = "sending"
  BY DEF IInv, PromptStep, PromptRefused, PromptAnswered, PromptTransient
<1>2. ASSUME NEW kw, kw \subseteq Params, AttemptAgain(c, [call[c] EXCEPT !.kw = kw])
      PROVE  Falls(c)
  <2>1. CallOK([call[c] EXCEPT !.kw = kw])
    BY <1>1, <1>2 DEF CallOK, Fields
  <2>2. /\ [call[c] EXCEPT !.kw = kw].pc = "sending"
        /\ [call[c] EXCEPT !.kw = kw].attempt = call[c].attempt
    BY <1>1 DEF CallOK, Fields
  <2> HIDE DEF CallOK
  <2> QED BY <1>1, <1>2, <2>1, <2>2, AttemptFalls
<1>3. CASE PromptRefused(c)
  <2>1. PICK x \in Complaints(c) :
          IF site.via = "openai" THEN OpenAIDrop(c, x) ELSE SdkDrop(c, x)
    BY <1>3 DEF PromptRefused
  <2>2. \A p \in Params : call[c].kw \ {p} \subseteq Params
    BY <1>1 DEF CallOK
  <2>3. \A p, q \in Params : Swap(call[c].kw, p, q) \subseteq Params
    BY <1>1 DEF CallOK, Swap
  <2>4. CASE site.via = "openai"
    BY <2>1, <2>4, <2>2, <2>3, <1>2, <1>1, EndFalls DEF OpenAIDrop, Params, Reasons
  <2>5. CASE site.via # "openai"
    BY <2>1, <2>5, <2>2, <1>2, <1>1, EndFalls DEF SdkDrop, Params, Reasons
  <2> QED BY <2>4, <2>5
<1>4. CASE PromptAnswered(c)
  BY <1>1, <1>4, EndFalls DEF PromptAnswered
<1>5. CASE PromptTransient(c)
  <2>1. CASE call[c].attempt < call[c].attempts
    <3>1. call'[c].attempt = call[c].attempt + 1 /\ call'[c].pc = "sending"
      BY <1>1, <1>5, <2>1, PutIs DEF PromptTransient, CallOK, Fields
    <3>2. call[c].attempt \in Nat
      BY <1>1, ApiAssumption DEF CallOK
    <3> QED BY <1>1, <3>1, <3>2 DEF Falls, Phase
  <2>2. CASE ~(call[c].attempt < call[c].attempts)
    BY <1>1, <1>5, <2>2, EndFalls DEF PromptTransient, Reasons
  <2> QED BY <2>1, <2>2
<1> QED BY <1>3, <1>4, <1>5 DEF PromptStep

LEMMA AgenticFalls == ASSUME IInv, NEW c \in Calls, AgenticStep(c) PROVE Falls(c)
<1>1. CallOK(call[c]) /\ call[c].pc \in {"looping", "final"}
  BY DEF IInv, AgenticStep, AgenticRefused, Overflow, AgenticTransient, AgenticTools,
         AgenticAnswered
<1>2. /\ call[c].turn \in Nat /\ call[c].transients \in Nat /\ call[c].shrinks \in Nat
      /\ MaxTransients \in Nat /\ MaxShrinks \in Nat /\ TurnCap \in Nat
      /\ call[c].turn <= TurnCap
  BY <1>1, ApiAssumption DEF CallOK
<1>3. CASE AgenticRefused(c)
  <2>1. CASE site.via = "openai" /\ "max_completion_tokens" \in call[c].kw
    <3>1. /\ call'[c].pc = call[c].pc /\ call'[c].attempt = call[c].attempt
          /\ call'[c].kw = Swap(call[c].kw, "max_completion_tokens", "max_tokens")
      BY <1>1, <1>3, <2>1, PutIs DEF AgenticRefused, CallOK, Fields
    <3>2. "max_completion_tokens" \notin call'[c].kw
      BY <3>1 DEF Swap
    <3> QED BY <1>3, <2>1, <3>1, <3>2 DEF AgenticRefused, Falls, Phase, NewNames
  <2>2. CASE ~(site.via = "openai" /\ "max_completion_tokens" \in call[c].kw)
    BY <1>1, <1>3, <2>2, EndFalls DEF AgenticRefused, Reasons
  <2> QED BY <2>1, <2>2
<1>4. CASE Overflow(c)
  <2>1. CASE \E reason \in Reasons : Fail(c, reason)
    BY <1>1, <2>1, EndFalls
  <2>2. CASE /\ call[c].pc = "looping"
             /\ Put(c, [call[c] EXCEPT !.shrinks = @ + 1,
                          !.results[Oldest(Evictable(call[c].results))] = "evicted"])
    <3>1. /\ call'[c].pc = "looping" /\ call'[c].attempt = call[c].attempt
          /\ call'[c].kw = call[c].kw /\ call'[c].turn = call[c].turn
          /\ call'[c].shrinks = call[c].shrinks + 1
          /\ call'[c].transients = call[c].transients
      BY <1>1, <2>2, DomainIs DEF Put, CallOK, Fields
    <3> QED BY <1>2, <2>2, <3>1 DEF Falls, Phase, NewNames, Left
  <2> QED BY <1>4, <2>1, <2>2 DEF Overflow, Reasons
<1>5. CASE AgenticTransient(c)
  <2>1. CASE call[c].pc = "looping" /\ call[c].transients < MaxTransients
    <3>1. /\ call'[c].pc = "looping" /\ call'[c].attempt = call[c].attempt
          /\ call'[c].kw = call[c].kw /\ call'[c].turn = call[c].turn
          /\ call'[c].shrinks = call[c].shrinks
          /\ call'[c].transients = call[c].transients + 1
      BY <1>1, <1>5, <2>1, PutIs DEF AgenticTransient, CallOK, Fields
    <3> QED BY <1>2, <2>1, <3>1 DEF Falls, Phase, NewNames, Left
  <2>2. CASE ~(call[c].pc = "looping" /\ call[c].transients < MaxTransients)
    BY <1>1, <1>5, <2>2, EndFalls DEF AgenticTransient, Reasons
  <2> QED BY <2>1, <2>2
<1>6. CASE AgenticTools(c)
  <2>1. PICK n \in 1..CallsPerTurn : \E out \in [1..n -> ToolResults] :
          Put(c, [call[c] EXCEPT
            !.results = @ \o Oversized(out),
            !.turn = IF @ < TurnCap THEN @ + 1 ELSE @,
            !.pc = IF call[c].turn = TurnCap THEN "final" ELSE @,
            !.shrinks = 0,
            !.transients = IF site.via = "openai" THEN 0 ELSE @])
    BY <1>6 DEF AgenticTools
  <2>2. call[c].pc = "looping"
    BY <1>6 DEF AgenticTools
  <2>3. /\ call'[c].pc = IF call[c].turn = TurnCap THEN "final" ELSE "looping"
        /\ call'[c].turn = IF call[c].turn < TurnCap THEN call[c].turn + 1 ELSE call[c].turn
        /\ call'[c].attempt = call[c].attempt /\ call'[c].kw = call[c].kw
    BY <1>1, <2>1, <2>2, DomainIs DEF Put, CallOK, Fields
  <2>4. CASE call[c].turn = TurnCap
    BY <2>2, <2>3, <2>4 DEF Falls, Phase
  <2>5. CASE call[c].turn # TurnCap
    BY <1>2, <2>2, <2>3, <2>5 DEF Falls, Phase, NewNames
  <2> QED BY <2>4, <2>5
<1>7. CASE AgenticAnswered(c)
  BY <1>1, <1>7, EndFalls DEF AgenticAnswered
<1> QED BY <1>3, <1>4, <1>5, <1>6, <1>7 DEF AgenticStep

LEMMA OtherFalls ==
  ASSUME IInv, NEW c \in Calls,
         Unsupported(c) \/ Delegate(c) \/ HardError(c) \/ SessionTool(c) \/ SessionResult(c)
  PROVE  Falls(c)
<1>1. CallOK(call[c])
  BY DEF IInv
<1>2. CASE Unsupported(c) \/ HardError(c) \/ SessionResult(c)
  BY <1>1, <1>2, EndFalls DEF Unsupported, HardError, SessionResult, Reasons
<1>3. CASE Delegate(c)
  <2>1. call'[c].pc = "session"
    BY <1>1, <1>3, PutIs DEF Delegate, CallOK, Fields
  <2> QED BY <1>3, <2>1 DEF Delegate, Falls, Phase
<1>4. CASE SessionTool(c)
  <2>1. /\ call[c].pc = "session" /\ call'[c].pc = "session"
        /\ call'[c].attempt = call[c].attempt /\ call'[c].kw = call[c].kw
        /\ call'[c].turn = call[c].turn + 1
    <3>1. PICK tool \in job[c].tools, target \in Targets :
            Put(c, [call[c] EXCEPT !.turn = @ + 1,
                                   !.results = IF Allowed(tool, target) THEN @
                                               ELSE Append(@, "denied")])
      BY <1>4 DEF SessionTool
    <3>2. call'[c] = [call[c] EXCEPT !.turn = @ + 1,
                                     !.results = IF Allowed(tool, target) THEN @
                                                 ELSE Append(@, "denied")]
      BY <3>1, PutIs
    <3>3. {"pc", "attempt", "kw", "turn", "results"} \subseteq DOMAIN call[c]
      BY <1>1 DEF CallOK, Fields
    <3>4. call[c].pc = "session"
      BY <1>4 DEF SessionTool
    <3> HIDE <1>4
    <3> QED BY <3>2, <3>3, <3>4
  <2>2. call[c].turn \in Nat
    BY <1>1, ApiAssumption DEF CallOK
  <2> QED BY <2>1, <2>2 DEF Falls, Phase, NewNames
<1> QED BY <1>2, <1>3, <1>4

(* The other calls wait, or find the client built.                         *)
LEMMA OthersWait ==
  ASSUME IInv, IInv', NEW c \in Calls, Step(c), NEW d \in Calls, d # c
  PROVE  Rank(d)' = Rank(d) \/ <<Rank(d)', Rank(d)>> \in Lower
<1>1. call'[d] = call[d]
  <2>1. call' = call \/ \E r : Put(c, r)
    BY DEF Step, UseClient, MissClient, LockClient, BuildClient, Unsupported, Delegate, Begin,
           PromptStep, PromptRefused, PromptAnswered, PromptTransient, OpenAIDrop, SdkDrop,
           AttemptAgain, AgenticStep, AgenticRefused, Overflow, AgenticTransient,
           AgenticTools, AgenticAnswered, HardError, SessionTool, SessionResult, Done, Fail
  <2> QED BY <2>1, PutIs
<1>2. \/ client' = client
      \/ LockClient(c) \/ BuildClient(c)
  BY DEF Step, UseClient, MissClient, Unsupported, Delegate,
         PromptStep, PromptRefused, PromptAnswered, PromptTransient,
         AgenticStep, AgenticRefused, Overflow, AgenticTransient,
         AgenticTools, AgenticAnswered, HardError, SessionTool, SessionResult
<1>3. client \in [built : 0..1, holder : Calls \cup {Nobody}]
  BY DEF IInv, SharedOK
<1>4. Phase(d)' = Phase(d) \/ Phase(d)' < Phase(d)
  <2>1. CASE client' = client
    BY <1>1, <2>1 DEF Phase
  <2>2. CASE LockClient(c)
    BY <1>1, <1>3, <2>2, NobodyAssumption DEF LockClient, Phase
  <2>3. CASE BuildClient(c)
    <3>1. client.holder = c /\ client'.holder = Nobody /\ client'.built # 0
      BY <1>3, <2>3 DEF BuildClient
    <3> QED BY <1>1, <3>1, NobodyAssumption DEF Phase
  <2> QED BY <1>2, <2>1, <2>2, <2>3
<1>5. CASE Phase(d)' = Phase(d)
  BY <1>1, <1>5 DEF Rank, NewNames, Left
<1>6. CASE Phase(d)' < Phase(d)
  BY <1>6, RankFalls DEF Falls
<1> QED BY <1>4, <1>5, <1>6

(* Every step a call takes lowers its rank, and no step of another raises  *)
(* it: whatever the gateway answers, a call has only finitely many steps   *)
(* to take, of a delegated session those that TurnCap counts.  With the    *)
(* fairness of Spec that is CallsEnd; the retries, the dropped parameters, *)
(* the evictions and the turns have no way to feed one another             *)
(* (oai.py:280-364, 505-609; sdk.py:283-350, 491-579).                     *)
StepsLower ==
  \A c \in Calls : Step(c) =>
    /\ <<Rank(c)', Rank(c)>> \in Lower
    /\ \A d \in Calls \ {c} : Rank(d)' = Rank(d) \/ <<Rank(d)', Rank(d)>> \in Lower

THEOREM EveryStepLowers == Spec => [][StepsLower]_vars
<1>1. IInv /\ [Next]_vars => [StepsLower]_vars
  <2> SUFFICES ASSUME IInv, [Next]_vars, NEW c \in Calls, Step(c)
               PROVE  /\ <<Rank(c)', Rank(c)>> \in Lower
                      /\ \A d \in Calls \ {c} :
                           Rank(d)' = Rank(d) \/ <<Rank(d)', Rank(d)>> \in Lower
    BY DEF StepsLower
  <2>1. IInv'
    BY StepOK
  <2>2. Falls(c)
    BY ClientFalls, PromptFalls, AgenticFalls, OtherFalls DEF Step
  <2> QED BY <2>1, <2>2, RankFalls, OthersWait
<1> QED BY <1>1, Inductive, PTL DEF Spec
=============================================================================
