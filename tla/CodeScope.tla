----------------------------- MODULE CodeScope -----------------------------
(***************************************************************************)
(* S1: which files are in scope, and what is known about them. Of the files*)
(* the walk has found near-duplicate configuration files are collapsed, the*)
(* mapping agent's answer is held against the inventory, the static seed   *)
(* is merged in, and a call graph is completed.                            *)
(***************************************************************************)
EXTENDS SeedGraph

CONSTANTS
  ConfigExts, Shape,   \* configuration file -> the set of its keys, "" if none
  MinCluster, KeepPerTopDir,
  ManyFiles, ManyEntries, FewSinks,  \* when a thin seed is not enough
  AppFile,      \* a file that tells a service or a web application
  MapAnswers,      \* what the mapping agent can answer
  TreeSitter,   \* whether the parser package is there
  Rounds        \* step1.call_graph_rounds

ScopeAssumption ==
  /\ MinCluster \in Nat \ {0} /\ Rounds \in Nat \ {0}
  /\ \A a \in MapAnswers : /\ a.modules \in Seq(ToSet(a.modules))
                           /\ \A m \in ToSet(a.modules) : m \in Seq(ToSet(m))
ASSUME ScopeAssumption

-----------------------------------------------------------------------------
(* _dedup_configs. conf tells of a configuration file the suspicious values*)
(* it holds and whether it can still be read a second time.                *)

(* The order in which a member stands for its cluster: production first,   *)
(* then the larger, then by name.                                          *)
EnvRank(f) ==
  IF "prod" \in Dirs(f) THEN 0
  ELSE IF Dirs(f) \cap {"cert", "stag", "stg"} # {} THEN 1
  ELSE IF Dirs(f) \cap {"perf", "qa"} # {} THEN 2 ELSE 3
RepBefore(f, g) ==
  \/ EnvRank(f) < EnvRank(g)
  \/ EnvRank(f) = EnvRank(g) /\ Bytes[f] > Bytes[g]
  \/ /\ EnvRank(f) = EnvRank(g) /\ Bytes[f] = Bytes[g]
     /\ FileRank(f) < FileRank(g)

Representatives(members) ==
  IF KeepPerTopDir
  THEN {members[i] : i \in {j \in DOMAIN members : \A h \in 1 .. j - 1 :
                              TopDir(members[h]) # TopDir(members[j])}}
  ELSE {members[1]}

(* What can be read again of the files that stand for the cluster, and of  *)
(* the members before one. A member that is dropped adds nothing to it.    *)
SignalsIn(f, conf) == IF conf[f].stays THEN conf[f].signals ELSE {}
SignalsBefore(members, i, conf) ==
  UNION {SignalsIn(f, conf) : f \in Representatives(members) \cup {members[j] : j \in 1 .. i - 1}}

(* A bug: a member that shares a value with one that is kept is dropped.   *)
BugBringsNothing(members, i, conf) ==
  LET own == conf[members[i]].signals
  IN  own \cap SignalsBefore(members, i, conf) # {} \/ own = {}

(* The members of a large cluster that are dropped: each brings nothing    *)
(* suspicious that the ones before it do not have.                         *)
BringsNothing(members, i, conf) ==
  conf[members[i]].signals \subseteq SignalsBefore(members, i, conf)
ClusterDrops(cluster, conf) ==
  LET members == InOrder(cluster, RepBefore)
      dropped == {i \in DOMAIN members : /\ members[i] \notin Representatives(members)
                                         /\ conf[members[i]].stays
                                         /\ BringsNothing(members, i, conf)}
  IN  {members[i] : i \in dropped}

ConfigDrops(files, conf) ==
  LET candidates == {f \in files : Ext[f] \in ConfigExts}
      clusters == {{f \in candidates : Shape[f] = h} : 
                     h \in {Shape[f] : f \in candidates} \ {""}}
  IN  IF Cardinality(candidates) < MinCluster THEN {}
      ELSE UNION {ClusterDrops(c, conf) : 
                    c \in {d \in clusters : Cardinality(d) >= MinCluster}}

Inventory(conf) == Walked \ ConfigDrops(Walked, conf)

-----------------------------------------------------------------------------
(* When the agent is asked.                                                *)

HasLang(f) == Lang[f] # ""
RepoKinds(seed, files) ==
  (IF \E i \in DOMAIN seed.entryPoints : seed.entryPoints[i].kind = "network"
   THEN {"web-api"} ELSE {})
  \cup (IF files \cap AppFile # {} THEN {"service"} ELSE {})
Escalates(seed, files) ==
  /\ Cardinality({f \in files : HasLang(f)}) > ManyFiles
  /\ RepoKinds(seed, files) # {}
  /\ Len(seed.entryPoints) >= ManyEntries /\ Len(seed.sinks) < FewSinks

SeedIsThere(seed) == seed # EmptySeed
AgentAsked(mode, seed, files) ==
  ~ (mode = "gap_fill" /\ SeedIsThere(seed) /\ ~Escalates(seed, files))

(* An answer that is not JSON counts as an empty one.                      *)
NoAnswer == [sinks |-> <<>>, entryPoints |-> <<>>, modules |-> <<>>, calls |-> {}]

(* _resolve_scope_path: a path the agent names, or the only one that it is *)
(* under a top directory; with two the path is not guessed.                *)
ResolvePath(path, keep) ==
  LET exact == {f \in keep : Path[f] = path}
      under == {f \in keep : Len(Path[f]) > 1 /\ Tail(Path[f]) = path}
  IN  IF exact # {} THEN exact
      ELSE IF Cardinality(under) = 1 THEN under ELSE {}

(* What is left of a list whose records name a path.                       *)
InScope(list, keep) ==
  LET hits == SelectSeq(list, LAMBDA r : ResolvePath(r.file, keep) # {})
  IN  [i \in DOMAIN hits |-> 
         [hits[i] EXCEPT !.file = CHOOSE f \in ResolvePath(@, keep) : TRUE]]
SeedInScope(list, keep) == SelectSeq(list, LAMBDA r : r.file \in keep)

ModulesInScope(modules, keep) ==
  LET Kept(m) == Picked(m, {j \in DOMAIN m : ResolvePath(m[j], keep) # {}})
      Resolved(paths) == [j \in DOMAIN paths |-> CHOOSE f \in ResolvePath(paths[j], keep) : TRUE]
  IN  [i \in DOMAIN modules |-> Resolved(Kept(modules[i]))]

(* The hops of a seed path that are in scope, if two of them are.          *)
HopsOf(e) ==
  <<<<e.source.file, e.source.line>>>>
    \o [i \in 1 .. Len(e.path) - 1 |-> <<e.path[i + 1][1], Meta(e.path[i + 1]).lo>>]
    \o <<<<e.sink.file, e.sink.line>>>>
SeedPaths(seed, keep) ==
  LET Kept(i) == SelectSeq(HopsOf(seed.paths[i]), LAMBDA h : h[1] \in keep)
  IN  SelectSeq([i \in DOMAIN seed.paths |-> Kept(i)], LAMBDA p : Len(p) >= 2)

(* The evidence whose two ends are in scope. That it was cleaned is not    *)
(* among the fields that are copied.                                       *)
SeedEvidence(seed, keep) ==
  LET kept == SelectSeq(seed.evidence, LAMBDA e : /\ e.source.file \in keep
                                                  /\ e.sink.file \in keep)
      Copy(e) == [source |-> <<e.source.file, e.source.line>>,
                  sink |-> <<e.sink.file, e.sink.line>>,
                  path |-> SelectSeq(e.path, LAMBDA q : q[1] \in keep),
                  sanitized |-> FALSE]
  IN  [i \in DOMAIN kept |-> Copy(kept[i])]

-----------------------------------------------------------------------------
(* The call graph: edges between <<file, name>>, the places where functions*)
(* are defined, and their spans.                                           *)

ModuleScope == "<module>"
Graph(edges, located, spans) == [edges |-> edges, located |-> located, spans |-> spans]
Defs(files) == {FnId(fd.file, fd.name) : fd \in {d \in ToSet(Fns) : d.file \in files}}
CallsIn(prog, files) == {s \in ToSet(prog) : s.op = "call" /\ s.file \in files}

(* _resolve_callee_files: the same file, the only one, the one that is     *)
(* imported, or the nearest ones.                                          *)
CalleeFiles(n, f, defs, useImports) ==
  LET cands == {d[1] : d \in {e \in defs : e[2] = n}}
      from == ImportOf(f, n)
      imported == {c \in cands : from # <<>> /\ (IsSuffix(from, Path[c])
                                   \/ IsSuffix(Append(from, n), Path[c]))}
      nearest == InOrder(cands, LAMBDA c, d :
                   \/ PrefixScore(f, c) > PrefixScore(f, d)
                   \/ PrefixScore(f, c) = PrefixScore(f, d) /\ FileRank(c) < FileRank(d))
      chosen == IF useImports /\ imported # {}
                THEN SelectSeq(nearest, LAMBDA c : c \in imported) ELSE nearest
  IN  IF f \in cands THEN {f}
      ELSE IF Cardinality(cands) <= 1 THEN cands
      ELSE ToSet(SubSeq(chosen, 1, Min({MaxTargets, Len(chosen)})))

Caller(s) == IF s.fn = "" THEN ModuleScope ELSE s.fn

(* ts_graph.build: every call of a known name; of the edges that were there*)
(* those between real definitions stay.                                    *)
BuildGraph(prog, files, old) ==
  LET defs == Defs(files)
      named == {s \in CallsIn(prog, files) : s.name # Caller(s)}
      edges == UNION {{<<FnId(s.file, Caller(s)), FnId(t, s.name)>> : 
                         t \in CalleeFiles(s.name, s.file, defs, FALSE)} : s \in named}
  IN  Graph(edges \cup {e \in old.edges : e[1] \in defs /\ e[2] \in defs}, defs, defs)

(* _supplement_call_graph, without the parser: the agent's bare names,     *)
(* found in some file, and the calls of names that lead to a seed.         *)
Callers(calls, targets) ==
  LET round[n \in 0 .. Rounds] ==
        IF n = 0 THEN [hits |-> {}, new |-> targets, known |-> targets]
        ELSE LET last == round[n - 1]
                 hits == {s \in calls : s.name \in last.new}
                 new == {s.fn : s \in hits} \ (last.known \cup {""})
             IN  [hits |-> last.hits \cup hits, new |-> new, known |-> last.known \cup new]
  IN  round[Rounds].hits

SupplementGraph(prog, files, bare, seeds, spans) ==
  LET source == {f \in files : HasLang(f)}
      calls == CallsIn(prog, source)
      defs == Defs(source)
      seen == {s.name : s \in calls} \cup {d[2] : d \in defs}
      Sites(n) == {d[1] : d \in {e \in defs : e[2] = n}}
      Edge(f, n, c) == {<<FnId(f, n), FnId(t, c)>> : t \in CalleeFiles(c, f, defs, TRUE)}
      agent == UNION {UNION {Edge(f, e[1], e[2]) : f \in Sites(e[1])} : 
                        e \in {b \in bare : b[1] \in seen /\ b[2] \in seen}}
      targets == (seeds \cup UNION {{e[1], e[2]} : e \in bare}) \cap seen
      found == {s \in Callers(calls, targets) : s.name # Caller(s)}
      edges == agent \cup UNION {Edge(s.file, Caller(s), s.name) : s \in found}
      names == UNION {{e[1][2], e[2][2]} : e \in edges}
  IN  Graph(edges, {d \in defs : d[2] \in names}, spans)

(* The languages of which the seed names a file.                           *)
CoveredLangs(g) == {Lang[q[1]] : q \in g.spans \cup g.located
                                     \cup UNION {{e[1], e[2]} : e \in g.edges}}
MergeGraph(g, seed) ==
  Graph(g.edges \cup seed.edges, g.located \cup seed.located, g.spans \cup seed.spans)

(* The seed's graph with what is missing of it: whole when the seed has all*)
(* three artifacts, and then for the languages the engine does not parse.  *)
CompleteGraph(prog, files, seed, bare, eps, sinks) ==
  LET own == Graph(seed.graph, seed.spans, seed.spans)
      whole == own.edges # {} /\ own.spans # {}
      residual == {f \in files : HasLang(f) /\ Lang[f] \notin CoveredLangs(own)}
      source == {f \in files : HasLang(f)}
      names == {eps[i].fn : i \in DOMAIN eps} \cup {sinks[i].fn : i \in DOMAIN sinks}
      given == IF own.edges # {} THEN {<<e[1][2], e[2][2]>> : e \in own.edges} ELSE bare
  IN  IF ~whole
      THEN IF TreeSitter THEN BuildGraph(prog, source, own)
           ELSE SupplementGraph(prog, files, given, names, own.spans)
      ELSE IF residual = {} \/ ~TreeSitter THEN own
      ELSE MergeGraph(BuildGraph(prog, residual, own), own)

-----------------------------------------------------------------------------
(* S1 as a whole: the package the later stages read. Entry points of a     *)
(* framework are added a second time.                                      *)
EntriesOfSeed(eps) ==
  LET framework == SelectSeq(eps, LAMBDA e : e.kind = "framework")
      Closed(list) == [i \in DOMAIN list |-> list[i] @@ [unauth |-> FALSE]]
  IN  Closed(eps) \o Closed(framework)
ContextEntries(seed, answer, keep) ==
  InScope(answer.entryPoints, keep) \o EntriesOfSeed(SeedInScope(seed.entryPoints, keep))
ContextSinks(seed, answer, keep) ==
  InScope(answer.sinks, keep) \o SeedInScope(seed.sinks, keep)

Package(keep, seed, answer, eps, sinks, g) ==
  [files |-> Sorted(keep),
   entryPoints |-> eps, sinks |-> sinks,
   modules |-> ModulesInScope(answer.modules, keep),
   evidence |-> SeedEvidence(seed, keep), paths |-> SeedPaths(seed, keep),
   edges |-> g.edges, located |-> g.located, spans |-> g.spans]
WithGraph(prog, keep, seed, answer, eps, sinks) ==
  Package(keep, seed, answer, eps, sinks,
          CompleteGraph(prog, keep, seed, answer.calls, eps, sinks))
Mapped(prog, keep, seed, answer) ==
  WithGraph(prog, keep, seed, answer, ContextEntries(seed, answer, keep),
            ContextSinks(seed, answer, keep))
Context(prog, conf, seed, answer) == Mapped(prog, Inventory(conf), seed, answer)
=============================================================================
