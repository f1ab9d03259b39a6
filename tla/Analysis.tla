------------------------------ MODULE Analysis ------------------------------
(***************************************************************************)
(* From the repository to what a researcher reads of it: the static seed   *)
(* (S0), the mapping (S1), the review chunks (S3) and the code S4 loads for *)
(* each. The program, its configuration files and the profile are chosen   *)
(* at the start; the models' answers when they are asked.                  *)
(***************************************************************************)
EXTENDS Decompose

CONSTANTS
  Program,   \* the statements there can be, in scanning order
  Cases,     \* [on: statements there are, conf, profile: mode, gate, slice]
  Plans      \* what the strategist can answer

VARIABLES
  case,      \* the one of Cases this scan is about
  stage,     \* the stage that is next
  seed,      \* S0's SeedPackage
  ctx,       \* S1's ContextPackage
  manifest,  \* S3's chunks, and the files it leaves out
  pages      \* for each chunk the lines shown, and those of its neighbours

analysisVars == <<case, stage, seed, ctx, manifest, pages>>

Prog(on) == SelectSeq(Program, LAMBDA s : s \in on)
NoContext == [files |-> <<>>]
NoManifest == [chunks |-> {}, unreachable |-> {}]

AnalysisInit ==
  /\ case \in Cases /\ stage = "seed" /\ seed = EmptySeed
  /\ ctx = NoContext /\ manifest = NoManifest /\ pages = <<>>

(* S0 never raises: without rules, or when a step of it fails, it is empty.*)
BuildSeed ==
  /\ stage = "seed" /\ stage' = "map"
  /\ seed' \in {Seed(Prog(case.on)), EmptySeed}
  /\ UNCHANGED <<case, ctx, manifest, pages>>

(* S1, with the agent's answer when it is asked.                           *)
MapRepo ==
  /\ stage = "map" /\ stage' = "plan"
  /\ \E answer \in IF AgentAsked(case.profile.mode, seed, Inventory(case.conf))
                   THEN MapAnswers ELSE {NoAnswer} :
       ctx' = Context(Prog(case.on), case.conf, seed, answer)
  /\ UNCHANGED <<case, seed, manifest, pages>>

(* S3; a strategist that fails leaves the chunks to the other passes.      *)
PlanChunks ==
  /\ stage = "plan" /\ stage' = "read"
  /\ \E plan \in Plans \cup {<<>>} : manifest' = Manifest(ctx, plan, case.profile.gate)
  /\ UNCHANGED <<case, seed, ctx, pages>>

(* S4 loads the code of every chunk.                                       *)
LoadCode ==
  /\ stage = "read" /\ stage' = "done"
  /\ pages' = [c \in manifest.chunks |->
       [code |-> ChunkCode(Prog(case.on), ctx, c, case.profile.slice),
        near |-> NeighborContext(ctx, c)]]
  /\ UNCHANGED <<case, seed, ctx, manifest>>

Done == stage = "done" /\ UNCHANGED analysisVars

AnalysisNext == BuildSeed \/ MapRepo \/ PlanChunks \/ LoadCode \/ Done
AnalysisSpec == AnalysisInit /\ [][AnalysisNext]_analysisVars

-----------------------------------------------------------------------------
(* Where a value goes inside one function, a step at a time: between names *)
(* <<name>> and fields <<receiver, name>>.                                 *)
Passes(prog, fid) ==
  LET on(op) == {s \in ToSet(prog) : FnOf(s) = fid /\ s.op = op}
      writes == on("set") \cup {s \in on("call") : /\ s.name \in DOMAIN Accessor
                                                   /\ s.args # <<>> /\ s.recv # ""}
      reads == on("get") \cup {s \in on("call") : /\ s.name \in DOMAIN Accessor
                                                  /\ s.args = <<>> /\ s.recv # ""}
      calls == {s \in on("call") : \E g \in TargetsOf(s) : MayReturnTaint(prog, g)}
  IN  {<<<<s.args[1]>>, <<s.to>>>> : s \in on("copy")}
        \cup {<<<<s.args[1]>>, FieldOf(s)>> : s \in writes}
        \cup {<<FieldOf(s), <<s.to>>>> : s \in reads}
        \cup UNION {{<<<<a>>, <<s.to>>>> : a \in ToSet(s.args)} : s \in calls}

(* A flow inside one function: from a source to an argument of a sink, by  *)
(* copies, fields and calls that give back what they are given, no name on *)
(* the way being handed to a cleaning function.                            *)
FlowsInside(prog) ==
  {f \in ToSet(Sources(prog)) \X ToSet(Sinks(prog)) :
     LET s == f[1]
         k == f[2]
         reached == {n[1] : n \in {m \in Closure(Passes(prog, FnOf(s)), {<<s.to>>}) :
                                     Len(m) = 1}}
         cleaning == {c \in ToSet(prog) : /\ FnOf(c) = FnOf(s)
                                          /\ c.op = "call" /\ c.name \in Sanitizers}
     IN  /\ FnOf(s) = FnOf(k) /\ FnOf(s) \in Known /\ s.to # ""
         /\ Compatible(s, k)
         /\ ToSet(k.args) \cap reached # {}
         /\ \A c \in cleaning : ToSet(c.args) \cap reached = {}}

(* The walk through a function loses no flow: what can be followed step by *)
(* step, in whatever order the steps stand, ends as evidence that is not   *)
(* marked as cleaned.                                                      *)
FlowsFound ==
  stage = "map" /\ seed # EmptySeed =>
    \A f \in FlowsInside(Prog(case.on)) : \E e \in ToSet(seed.evidence) :
       e.source = f[1] /\ e.sink = f[2] /\ ~e.sanitized

(* Collapsing configuration files loses no suspicious value: each of one   *)
(* that is left out stands in a file of the same shape that is kept, as    *)
(* far as the file could be read again.                                    *)
SignalsKept ==
  stage = "plan" =>
    \A f \in Walked \ ToSet(ctx.files) :
      case.conf[f].signals \subseteq 
        UNION {case.conf[g].signals : g \in {h \in ToSet(ctx.files) : 
                                              Ext[h] \in ConfigExts /\ Shape[h] = Shape[f]}}

(* No file falls between the passes: what may be swept up is in a chunk or *)
(* on the list of the files left out, and that list names no file with an  *)
(* entry point, a sink or a seeded flow.                                   *)
Covered ==
  stage = "read" =>
    /\ \A f \in ToSet(ctx.files) : CatchallEligible(f) =>
         \/ f \in manifest.unreachable
         \/ \E c \in manifest.chunks : f \in ToSet(c.files)
    /\ \A f \in manifest.unreachable :
         /\ \A e \in ToSet(ctx.entryPoints) : e.file # f
         /\ \A s \in ToSet(ctx.sinks) : s.file # f
         /\ \A p \in ToSet(ctx.paths) : f \notin ToSet(FilesOf(p))

(* The flows between files that the seed has shown.                        *)
CrossFlows ==
  {e \in ToSet(seed.evidence) : /\ ~e.sanitized /\ Cardinality(ToSet(FilesOf(e.path))) >= 2
                                /\ {e.source.file, e.sink.file} \subseteq ToSet(ctx.files)}

(* The chunks of the manifest that are left of a taint chunk.              *)
PartsOf(t) ==
  {c \in manifest.chunks : /\ c.kind = "taint" /\ ToSet(c.files) \subseteq ToSet(t.files)
                           /\ <<c.path, c.source, c.sink>> = <<t.path, t.source, t.sink>>}

(* The code of one of the chunks shows the sink, that of another a source: *)
(* of the same one, when it was not split.                                 *)
Shown(parts, e, d, whole) ==
  \E c, k \in parts : /\ <<d.source.file, d.source.line>> \in pages[c].code
                      /\ <<e.sink.file, e.sink.line>> \in pages[k].code
                      /\ whole => c = k

(* A flow between files that the seed has shown is put before a researcher *)
(* as long as there is room: a taint chunk is made of both files, and the  *)
(* code loaded for it shows the sink, and a source in the first file.  One *)
(* researcher sees the two together if the chunk is within the limits of a *)
(* chunk of risk; else it is split, and they may see one each.             *)
FlowsReviewed ==
  stage = "done" =>
    LET taint == TaintChunks(ctx)
    IN  Len(taint) < MaxTaint =>
          \A e \in CrossFlows : \E t \in ToSet(taint), d \in CrossFlows :
            /\ {e.source.file, e.sink.file} \subseteq ToSet(t.files)
            /\ d.source.file = e.source.file
            /\ Shown(PartsOf(t), e, d, Fits(t.files))
=============================================================================
