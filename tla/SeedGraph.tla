----------------------------- MODULE SeedGraph -----------------------------
(***************************************************************************)
(* The static seed (S0): the callgraph engine reads every source file into *)
(* facts, matches calls against source and sink rules, resolves calls to   *)
(* definitions by name, and follows the data from a source to a sink.      *)
(*                                                                         *)
(* A program is a sequence of statements, in the order in which the files  *)
(* are scanned, one statement to a line.  A statement is a record          *)
(*   [file, fn, line, op, recv, name, args, to, markup]                    *)
(* "call" is  to = recv.name(args),  "copy"  to = args[1],  "return" of    *)
(* args[1],  "set" is  recv.name = args[1],  "get" is  to = recv.name,     *)
(* "put" is  recv[...] = args[1].  "" stands for no name, and for an       *)
(* argument that is no identifier; fn "" is the top level of the file.     *)
(***************************************************************************)
EXTENDS Lists, SequencesExt, FiniteSetsExt

CONSTANTS
  Files,        \* the files of the repository in the order of their names
  Lang,         \* file -> language key, "" for none
  Path,         \* file -> its directories and its stem, in order
  Ext, Bytes,   \* file -> its extension, its size
  Escaping,     \* links that lead out of the repository
  ExclDirs, ExclExts, ExclGlobs, MaxBytes,  \* left out; globs as their files
  Fns,          \* the definitions, in order: [file, name, lo, hi, marks]
  Imports,      \* file -> local name -> imported module, as its parts
  Plugins,      \* languages the engine parses
  SourceRules, SinkRules,  \* the specs, in order
  Compat,       \* source kind -> sink kinds that can follow it
  RiskyKinds,   \* kinds that name an attack worth a deeper walk
  Protected,    \* families of sinks that any source goes with
  Sanitizers,   \* names of functions that clean their argument
  Accessor,     \* setX, getX -> the property they stand for
  MaxTargets,   \* step1.call_graph_max_targets
  BaseHops, HighHops,      \* depth of the walk, and of a high-risk one
  PerSource,    \* paths kept per source function
  PathBudget,   \* paths kept in all
  LargeFanout,  \* sources times sinks from which the budget is extended
  Extra, FanoutExtra       \* by how much: many paths, a large fanout

SeedAssumption ==
  /\ Files \in Seq(ToSet(Files)) /\ \A f \in ToSet(Files) : Bytes[f] \in Nat
  /\ MaxTargets \in Nat \ {0} /\ PathBudget \in Nat \ {0}
  /\ BaseHops \in Nat /\ HighHops >= BaseHops
ASSUME SeedAssumption

(* The members of a set in an order that is strict and total on them.       *)
InOrder(S, Before(_, _)) ==
  [i \in 1 .. Cardinality(S) |-> 
     CHOOSE x \in S : Cardinality({y \in S : Before(y, x)}) = i - 1]

FileRank(f) == CHOOSE i \in DOMAIN Files : Files[i] = f
Sorted(files) == InOrder(files, LAMBDA f, g : FileRank(f) < FileRank(g))
Dirs(f) == ToSet(Front(Path[f]))
TopDir(f) == Head(Path[f])

(* _walk_repo, which S0 and S1 share.                                      *)
Excluded(f) ==
  \/ f \in Escaping
  \/ Dirs(f) \cap ExclDirs # {} \/ Ext[f] \in ExclExts \/ f \in ExclGlobs
  \/ Bytes[f] > MaxBytes
Walked == {f \in ToSet(Files) : ~Excluded(f)}

(* The files S0 parses: step0.languages and the plugins there are.         *)
ParsedFiles == {f \in Walked : Lang[f] \in Plugins}
FnSet == {fd \in ToSet(Fns) : fd.file \in ParsedFiles}

(* A function is known by its file and its bare name.                      *)
FnId(f, n) == <<f, n>>
FnOf(s) == FnId(s.file, s.fn)
Meta(fid) == CHOOSE fd \in FnSet : FnId(fd.file, fd.name) = fid
Known == {FnId(fd.file, fd.name) : fd \in FnSet}

-----------------------------------------------------------------------------
(* What the extractors make of a statement: facts <<kind, s>>.             *)

Idents(s) == SelectSeq(s.args, LAMBDA a : a # "")
Fact(kind, s, given) == IF given THEN {<<kind, s>>} ELSE {}
Method(s, names) == s.op = "call" /\ s.recv # "" /\ s.name \in names

(* Calls, copies of a name and returns are read alike in three languages.  *)
PyFacts(s) == 
  Fact("call", s, s.op = "call") \cup Fact("return", s, s.op = "return")
    \cup Fact("assign", s, s.op = "copy" /\ s.args[1] # "")
JavaFacts(s) == PyFacts(s)
CsFacts(s) == PyFacts(s)

PyFieldFacts(s) ==
  Fact("write", s, s.op = "set") \cup Fact("read", s, s.op = "get")
    \cup Fact("store", s, s.op = "put" \/ Method(s, {"append", "add"}))

(* Java: accessors stand for the property, a[i] = x is not seen.           *)
JavaFieldFacts(s) ==
  Fact("write", s, s.op = "set" \/ (Method(s, DOMAIN Accessor) /\ s.args # <<>>))
    \cup Fact("read", s, s.op = "get" \/ (Method(s, DOMAIN Accessor) /\ s.args = <<>>))
    \cup Fact("store", s, Method(s, {"add", "put"}))

CsFieldFacts(s) ==
  Fact("write", s, s.op = "set") \cup Fact("read", s, s.op = "get")
    \cup Fact("store", s, s.op = "put" \/ Method(s, {"Add"}))

(* JavaScript and Go: functions and calls, no facts.                       *)
JsFacts(s) == {}
GoFacts(s) == {}

FactsOf(s) ==
  CASE Lang[s.file] = "python" -> PyFacts(s) \cup PyFieldFacts(s)
    [] Lang[s.file] = "java" -> JavaFacts(s) \cup JavaFieldFacts(s)
    [] Lang[s.file] = "csharp" -> CsFacts(s) \cup CsFieldFacts(s)
    [] Lang[s.file] = "go" -> GoFacts(s)
    [] OTHER -> JsFacts(s)

Facts(prog, kind, fid) ==
  SelectSeq(prog, LAMBDA s : /\ s.file \in ParsedFiles /\ FnOf(s) = fid
                             /\ \E f \in FactsOf(s) : f[1] = kind)
FactSet(prog, kind, fid) == ToSet(Facts(prog, kind, fid))

-----------------------------------------------------------------------------
(* Matching a call against the rules.                                      *)

ImportOf(f, n) == IF n \in DOMAIN Imports[f] THEN Imports[f][n] ELSE <<>>

(* _match_call for one rule: [form, langs, module, class, methods, kind,   *)
(* cwe, family].                                                           *)
Matches(r, s) ==
  LET resolved == IF s.recv = "" THEN <<>> ELSE ImportOf(s.file, s.recv) IN
  /\ Lang[s.file] \in r.langs /\ s.name \in r.methods
  /\ \/ /\ r.form = "ctor" /\ s.recv = ""
        /\ IsPrefix(r.module, ImportOf(s.file, s.name))
     \/ /\ r.form = "qualified" /\ resolved # <<>>
        /\ \/ IsPrefix(r.module, resolved)
           \/ /\ Lang[s.file] \in {"java", "csharp", "kotlin", "scala"}
              /\ r.class # "" /\ Last(resolved) = r.class
     \/ /\ r.form = "attr"
        /\ \/ r.module = <<s.recv>>
           \/ /\ resolved # <<>>
              /\ \/ IsPrefix(r.module, resolved) \/ IsSuffix(r.module, resolved)

(* Responses written as markup are sinks without a rule.                   *)
SemanticSink(s) ==
  \/ /\ Lang[s.file] = "python"
     /\ \/ s.name \in {"render_template", "TemplateResponse"}
        \/ s.name \in {"Response", "HTMLResponse", "HttpResponse"} /\ s.markup
  \/ /\ Lang[s.file] = "java" /\ s.name \in {"print", "println", "write"}
     /\ s.recv \in {"response", "writer", "out"} /\ s.markup
Markup == [kind |-> "xss", cwe |-> "79", family |-> "html-response"]

NoRule == [kind |-> "none", cwe |-> "", family |-> ""]
FirstOf(rules, m) == IF m = {} THEN NoRule ELSE rules[Min(m)]
FirstMatch(rules, s) == FirstOf(rules, {i \in DOMAIN rules : Matches(rules[i], s)})

SourceRule(s) == FirstMatch(SourceRules, s)
OrMarkup(r, s) == IF r = NoRule /\ SemanticSink(s) THEN Markup ELSE r
SinkRule(s) == OrMarkup(FirstMatch(SinkRules, s), s)

(* scan_file: the calls of a file that match.                              *)
IsCall(s) == s.op = "call" /\ s.file \in ParsedFiles
Sources(prog) == SelectSeq(prog, LAMBDA s : IsCall(s) /\ SourceRule(s) # NoRule)
Sinks(prog) == SelectSeq(prog, LAMBDA s : IsCall(s) /\ SinkRule(s) # NoRule)

HighRisk(rule) ==
  \/ rule.cwe \in {"22", "78", "79", "89", "90", "94", "95", "434", "502", "601",
                   "611", "918"}
  \/ rule.kind \in RiskyKinds

KindsFit(from, r) ==
  \/ r.family \in Protected
  \/ from = "other" \/ r.kind = "other" \/ from \notin DOMAIN Compat
  \/ r.kind \in Compat[from]
Compatible(s, k) == KindsFit(SourceRule(s).kind, SinkRule(k))

-----------------------------------------------------------------------------
(* Resolving a call by name.                                               *)

PrefixScore(f, g) ==
  LET a == Front(Path[f])
      b == Front(Path[g])
  IN  Len(LongestCommonPrefix({a, b}))

DefsOf(n) ==
  LET defs == SelectSeq(Fns, LAMBDA fd : fd.file \in ParsedFiles /\ fd.name = n)
  IN  [i \in DOMAIN defs |-> FnId(defs[i].file, n)]
Capped(fids) == SubSeq(fids, 1, Min({Len(fids), MaxTargets}))

(* _resolve_called_fids: a single definition, those of the same file, or   *)
(* the nearest ones; a bare name that is defined elsewhere more than once  *)
(* is given up.                                                            *)
Resolve(file, recv, n) ==
  LET cands == DefsOf(n)
      same == SelectSeq(cands, LAMBDA c : c[1] = file)
      hint == IF recv = "" THEN <<>> ELSE ImportOf(file, recv)
      Score(c) == PrefixScore(file, c[1]) + 
                    Cardinality({i \in DOMAIN hint : hint[i] \in ToSet(Path[c[1]])})
      Nearest == SelectSeq(cands, LAMBDA c : \A d \in ToSet(cands) :
                                               Score(d) <= Score(c))
  IN  IF Len(cands) <= 1 THEN cands
      ELSE IF same # <<>> THEN Capped(same)
      ELSE IF recv = "" THEN <<>> ELSE Capped(Nearest)

TargetsOf(s) == ToSet(Resolve(s.file, s.recv, s.name))
CallsOut(prog, fid) == SelectSeq(prog, LAMBDA s : IsCall(s) /\ FnOf(s) = fid)

CallGraph(prog) ==
  UNION {{<<FnOf(s), g>> : g \in TargetsOf(s) \ {FnOf(s)}} :
           s \in {c \in ToSet(prog) : IsCall(c) /\ FnOf(c) \in Known}}

-----------------------------------------------------------------------------
(* Following tainted data through one function. The state of a walk:       *)
(* tainted locals, fields <<receiver, field>>, containers and parameter    *)
(* slots, and the names that hold a cleaned value.                         *)

FieldOf(s) == <<s.recv, IF s.op = "call" THEN Accessor[s.name] ELSE s.name>>
Element(s) ==  \* Java: the first argument that is a name
  IF Lang[s.file] # "java" THEN s.args[1]
  ELSE IF Idents(s) = <<>> THEN "" ELSE Idents(s)[1]

ApplySanitizers(calls, t) ==
  FoldLeft(LAMBDA u, c :
    LET hit == ToSet(Idents(c)) \cap (u.locals \cup u.containers)
    IN  IF c.name \notin Sanitizers \/ hit = {} THEN u
        ELSE [u EXCEPT !.locals = @ \ hit, !.containers = @ \ hit,
                       !.clean = @ \cup ({c.to} \ {""})],
    t, calls)

ApplyFieldWrites(writes, t) ==
  [t EXCEPT !.fields = @ \cup {FieldOf(s) : s \in {w \in writes : 
                                                 Element(w) \in t.locals}}]

ApplyFieldReads(reads, t) ==
  [t EXCEPT !.locals = @ \cup ({s.to : s \in {r \in reads : FieldOf(r) \in t.fields}}
                                \ {""})]

ApplyContainerWrites(stores, t) ==
  [t EXCEPT !.containers = @ \cup {s.recv : s \in {w \in stores : 
                                                 Element(w) \in t.locals}}]

(* The copies of a local, to the fixed point.                              *)
ApplyLocalAliases(assigns, t) ==
  [t EXCEPT !.locals = Closure({<<a.args[1], a.to>> : a \in assigns}, @)]

(* The positions at which a call is given something tainted; a parameter   *)
(* is known by its position only.                                          *)
TaintedSlots(c, t, containers) ==
  LET ids == Idents(c) IN
  {i \in DOMAIN ids : ids[i] \in t.locals \cup containers \/ i \in t.slots}

MayReturnTaint(prog, g) == \E r \in FactSet(prog, "return", g) : Idents(r) # <<>>

ApplyReturnToLocal(prog, calls, t) ==
  FoldLeft(LAMBDA u, c :
    IF /\ c.to # "" /\ TaintedSlots(c, u, {}) # {}
       /\ \E g \in TargetsOf(c) : MayReturnTaint(prog, g)
    THEN [u EXCEPT !.locals = @ \cup {c.to}] ELSE u,
    t, calls)

Transfer(prog, fid, t) ==
  LET calls == Facts(prog, "call", fid)
      clean == ApplySanitizers(calls, t)
      wrote == ApplyFieldWrites(FactSet(prog, "write", fid), clean)
      read  == ApplyFieldReads(FactSet(prog, "read", fid), wrote)
      put   == ApplyContainerWrites(FactSet(prog, "store", fid), read)
      same  == ApplyLocalAliases(FactSet(prog, "assign", fid), put)
  IN  ApplyReturnToLocal(prog, calls, same)

Grew(t, u) ==
  \/ Cardinality(u.locals) > Cardinality(t.locals)
  \/ Cardinality(u.fields) > Cardinality(t.fields)
  \/ Cardinality(u.containers) > Cardinality(t.containers)

(* A bug: one pass.                                                        *)
BugTransferClosure(prog, fid, t) == Transfer(prog, fid, t)
(* Rounds until one of them adds nothing. Each but the first and the last  *)
(* adds a local, a field or a container, so that the bound is out of reach.*)
MostRounds(prog, fid) ==
  2 + Cardinality({s.to : s \in {r \in ToSet(prog) : FnOf(r) = fid}})
    + Cardinality({FieldOf(s) : s \in FactSet(prog, "write", fid)})
    + Cardinality({s.recv : s \in FactSet(prog, "store", fid)})
Grown(t, u) == [changed |-> Grew(t, u), taint |-> u]
Round(prog, fid, last) ==
  IF ~last.changed THEN last ELSE Grown(last.taint, Transfer(prog, fid, last.taint))
TransferClosure(prog, fid, t) ==
  LET round[n \in 0 .. MostRounds(prog, fid)] ==
        IF n = 0 THEN [changed |-> TRUE, taint |-> t] ELSE Round(prog, fid, round[n - 1])
  IN  round[MostRounds(prog, fid)].taint

NoTaint == [locals |-> {}, fields |-> {}, containers |-> {}, slots |-> {},
            clean |-> {}]

(* _seed_source_taint: the name the source is assigned to.                 *)
SeedTaint(prog, s) ==
  [NoTaint EXCEPT !.locals = {c.to : c \in {d \in FactSet(prog, "call", FnOf(s)) :
                                          d.line = s.line}} \ {""}]

(* The walk along the functions of a path: what is left at a boundary is   *)
(* the positions of the tainted arguments, and the cleaned names.          *)
AtSink(at, t) ==
  IF \E c \in at : TaintedSlots(c, t, t.containers) # {} THEN "tainted"
  ELSE IF \E c \in at : ToSet(Idents(c)) \cap t.clean # {} THEN "sanitized" ELSE "none"
Crossed(prog, from, to, t) ==
  [NoTaint EXCEPT !.clean = t.clean,
     !.slots = UNION {TaintedSlots(c, t, {}) :
                        c \in {d \in FactSet(prog, "call", from) : to \in TargetsOf(d)}}]
WalkEnds(prog, k, path, left) ==
  IF \E i \in 2 .. Len(path) : left[i].slots = {} THEN "none"
  ELSE AtSink({c \in FactSet(prog, "call", Last(path)) : c.line = k.line}, left[Len(path)])
Walk(prog, s, k, path) ==
  LET left[i \in DOMAIN path] ==
        TransferClosure(prog, path[i],
          IF i = 1 THEN SeedTaint(prog, s)
          ELSE Crossed(prog, path[i - 1], path[i], left[i - 1]))
  IN  WalkEnds(prog, k, path, left)

HasFacts(prog, path) ==
  \E i \in DOMAIN path, kind \in {"assign", "return", "call"} :
     Facts(prog, kind, path[i]) # <<>>

(* Without facts a path stands as it is; with facts it must be shown.      *)
EvidenceFor(prog, s, k, path) ==
  IF HasFacts(prog, path) THEN Walk(prog, s, k, path)
  ELSE "tainted"

FlowShown(s, k, path, how) ==
  IF how = "none" \/ ~Compatible(s, k) THEN <<>>
  ELSE <<[source |-> s, sink |-> k, path |-> path, sanitized |-> how = "sanitized"]>>
Flow(prog, s, k, path) == FlowShown(s, k, path, EvidenceFor(prog, s, k, path))

-----------------------------------------------------------------------------
(* build_taint_paths.                                                      *)

InFn(hits, fid) == SelectSeq(hits, LAMBDA h : FnOf(h) = fid)

(* Inside one function: each of its sources with each of its sinks.       *)
FlowsOf(prog, s, sinks, path) ==
  FlattenSeq([j \in DOMAIN sinks |-> Flow(prog, s, sinks[j], path)])
FlowsOver(prog, sources, sinks) ==
  FlattenSeq([i \in DOMAIN sources |-> 
    FlowsOf(prog, sources[i], InFn(sinks, FnOf(sources[i])), <<FnOf(sources[i])>>)])
IntraPaths(prog) == FlowsOver(prog, Sources(prog), Sinks(prog))

(* The walk over the call graph, breadth first; a function is reached once.*)
(* The paths are in the order in which they were queued, and the n-th step  *)
(* looks at the n-th.                                                      *)
CalleesAt(calls) ==
  FlattenSeq([i \in DOMAIN calls |-> Resolve(calls[i].file, calls[i].recv, calls[i].name)])
NewCallees(prog, path, seen) ==
  Firsts(SelectSeq(CalleesAt(CallsOut(prog, Last(path))), LAMBDA g : g \notin seen))
Onward(paths, path, new) == paths \o [i \in DOMAIN new |-> Append(path, new[i])]
ReachStep(prog, hops, paths, n) ==
  IF n > Len(paths) \/ Len(paths[n]) - 1 > hops THEN paths
  ELSE Onward(paths, paths[n],
              NewCallees(prog, paths[n], {Last(p) : p \in ToSet(paths)}))
Reach(prog, fid, hops) ==
  LET queued[n \in 0 .. Cardinality(Known)] ==
        IF n = 0 THEN <<<<fid>>>> ELSE ReachStep(prog, hops, queued[n - 1], n)
  IN  Tail(queued[Cardinality(Known)])

(* From the sources of a function along the call graph: deeper when one of *)
(* them is of high risk, and then to the sinks of high risk alone.         *)
HopsFrom(srcs) ==
  IF \E i \in DOMAIN srcs : HighRisk(SourceRule(srcs[i])) THEN HighHops ELSE BaseHops
SinksAfter(prog, path) ==
  SelectSeq(InFn(Sinks(prog), Last(path)), LAMBDA k :
              Len(path) - 1 <= BaseHops \/ HighRisk(SinkRule(k)))
FlowsTo(prog, srcs, k, path) ==
  FlattenSeq([i \in DOMAIN srcs |-> Flow(prog, srcs[i], k, path)])
FlowsAlong(prog, srcs, sinks, path) ==
  FlattenSeq([j \in DOMAIN sinks |-> FlowsTo(prog, srcs, sinks[j], path)])
FlowsOn(prog, srcs, paths) ==
  FlattenSeq([i \in DOMAIN paths |-> 
                FlowsAlong(prog, srcs, SinksAfter(prog, paths[i]), paths[i])])
PathsFrom(prog, fid, hops) ==
  SelectSeq(Reach(prog, fid, hops), LAMBDA p : Len(p) - 1 <= hops)
FlowsFrom(prog, fid, srcs) == FlowsOn(prog, srcs, PathsFrom(prog, fid, HopsFrom(srcs)))
SourceFns(sources) == Firsts([i \in DOMAIN sources |-> FnOf(sources[i])])
FlowsFromAll(prog, fns) ==
  FlattenSeq([i \in DOMAIN fns |-> FlowsFrom(prog, fns[i], InFn(Sources(prog), fns[i]))])
InterPaths(prog) ==
  FlowsFromAll(prog, SelectSeq(SourceFns(Sources(prog)), LAMBDA fid : fid \in Known))

(* A path is ranked by confidence, severity and tightness, in sixtieths of *)
(* hundredths.                                                             *)
Severity(cwe) ==
  CASE cwe \in {"22", "78", "89", "94", "502", "918"} -> 10
    [] cwe \in {"79", "80"} -> 9 [] cwe \in {"95", "601", "90"} -> 8
    [] cwe \in {"434", "269"} -> 7 [] cwe = "611" -> 6 [] OTHER -> 5

(* The hops of a path: the source line, the functions after the first,     *)
(* the sink line.                                                          *)
Hops(e) == Len(e.path) + 1
ScorePath(e) ==
  LET hops == Hops(e) - 1
      conf == IF hops = 1 THEN 10 ELSE IF hops <= 3 THEN 8 ELSE 5
  IN  conf * Severity(SinkRule(e.sink).cwe) * (60 \div hops)

FamilyOf(r) == <<r.cwe, IF r.family # "" THEN r.family ELSE r.kind>>
Family(e) == FamilyOf(SinkRule(e.sink))

EffectiveBudget(prog, paths) ==
  IF Len(Sources(prog)) * Len(Sinks(prog)) >= LargeFanout THEN PathBudget + FanoutExtra
  ELSE IF Len(paths) > PathBudget THEN PathBudget + Extra ELSE PathBudget

(* _filter_paths_by_budget, best first: the first that is over the budget  *)
(* and brings no protected family ends it.                                 *)
Better(d, e) == ScorePath(d) > ScorePath(e)
ByScore(paths) ==
  InOrder(DOMAIN paths, LAMBDA m, n : \/ Better(paths[m], paths[n])
                                      \/ ~Better(paths[n], paths[m]) /\ m < n)
Permuted(list, order) == [i \in DOMAIN order |-> list[order[i]]]
(* A path for a pair of function and family that is there already goes when*)
(* the function has its share or the budget is used up.  Functions of the  *)
(* same name in different files count as one.                              *)
SourceFn(e) ==
  IF e.source.fn # "" THEN <<e.source.fn>> ELSE <<e.source.file, e.source.line>>
SamePair(d, e) == SourceFn(d) = SourceFn(e) /\ Family(d) = Family(e)
KeepOrStop(acc, e, again, fromFn, guarded, full) ==
  IF acc.over \/ (again /\ (fromFn >= PerSource \/ full)) THEN acc
  ELSE IF full /\ ~guarded THEN [acc EXCEPT !.over = TRUE]
  ELSE [acc EXCEPT !.kept = Append(@, e)]
Consider(acc, e, budget) ==
  KeepOrStop(acc, e, \E x \in ToSet(acc.kept) : SamePair(x, e),
    Quantify(DOMAIN acc.kept, LAMBDA i : SourceFn(acc.kept[i]) = SourceFn(e)),
    /\ Family(e)[2] \in Protected
    /\ \A x \in ToSet(acc.kept) : Family(x)[2] # Family(e)[2],
    Len(acc.kept) >= budget)
KeptOf(ranked, budget) ==
  FoldLeft(LAMBDA acc, e : Consider(acc, e, budget), [kept |-> <<>>, over |-> FALSE],
           ranked).kept
FilterPaths(prog, paths) ==
  KeptOf(Permuted(paths, ByScore(paths)), EffectiveBudget(prog, paths))

-----------------------------------------------------------------------------
(* Entry points the frameworks make: a declaration carries marks, a Python *)
(* body reads the request.                                                 *)

PyMarkers(prog, fd) ==
  (fd.marks \cap {"request"}) \cup
  {m \in {"GET", "POST", "META", "FILES"} : \E s \in ToSet(prog) :
       /\ FnOf(s) = FnId(fd.file, fd.name)
       /\ s.op = "get" /\ s.recv = "request" /\ s.name = m}
JavaMarkers(fd) ==
  fd.marks \cap {"@RequestParam", "@PathVariable", "@RequestBody", "@RequestHeader",
                 "ServletRequest", "HttpServletRequest"}
CsMarkers(fd) ==
  fd.marks \cap {"[FromQuery]", "[FromRoute]", "[FromBody]", "[FromHeader]"}

Markers(prog, fd) ==
  CASE Lang[fd.file] = "python" -> PyMarkers(prog, fd)
    [] Lang[fd.file] = "java" -> JavaMarkers(fd)
    [] Lang[fd.file] = "csharp" -> CsMarkers(fd)
    [] OTHER -> {}

(* _emit_framework_entry_points: a mark is known by the bare name of its   *)
(* function, so that the first file that has it takes it.                  *)
MarkTaken(prog, m, j) ==
  \E h \in 1 .. j - 1 : /\ Fns[h].file \in ParsedFiles /\ Fns[h].name = Fns[j].name
                        /\ m \in Markers(prog, Fns[h])
Marked(prog) ==
  {j \in DOMAIN Fns : /\ Fns[j].file \in ParsedFiles
                      /\ \E m \in Markers(prog, Fns[j]) : ~MarkTaken(prog, m, j)}
FrameworkEntryPoints(prog) ==
  LET Entry(fd) == [file |-> fd.file, fn |-> fd.name, kind |-> "framework"]
      Entries(at) == [i \in DOMAIN at |-> Entry(Fns[at[i]])]
  IN  Entries(Ascending(Marked(prog)))

LineName == "<line>"
(* The functions sources stand in, and those of the frameworks, once each. *)
SourceEntry(h) == [file |-> h.file, fn |-> IF h.fn = "" THEN LineName ELSE h.fn,
                   kind |-> SourceRule(h).kind]
SourceEntries(hits) == [i \in DOMAIN hits |-> SourceEntry(hits[i])]
SameFn(d, e) == d.file = e.file /\ d.fn = e.fn
OncePerFn(all) ==
  Permuted(all, Ascending({i \in DOMAIN all : \A j \in 1 .. i - 1 : ~SameFn(all[j], all[i])}))
EntryPoints(prog) == 
  OncePerFn(SourceEntries(Sources(prog)) \o FrameworkEntryPoints(prog))

SinkRecord(k) == [file |-> k.file, line |-> k.line,
                  fn |-> IF k.fn = "" THEN k.name ELSE k.fn]
SinkRecordsOf(hits) == Firsts([i \in DOMAIN hits |-> SinkRecord(hits[i])])
SinkRecords(prog) == SinkRecordsOf(Sinks(prog))

(* Functions the graph artifacts name: ends of edges and homes of hits.    *)
Relevant(prog) ==
  Known \cap (UNION {{e[1], e[2]} : e \in CallGraph(prog)}
             \cup {FnOf(h) : h \in ToSet(Sources(prog)) \cup ToSet(Sinks(prog))})

SeedWith(prog, evidence) ==
  [entryPoints |-> EntryPoints(prog), sinks |-> SinkRecords(prog), evidence |-> evidence,
   paths |-> FilterPaths(prog, SelectSeq(evidence, LAMBDA e : ~e.sanitized)),
   graph |-> CallGraph(prog), spans |-> Relevant(prog)]
Seed(prog) == SeedWith(prog, IntraPaths(prog) \o InterPaths(prog))
EmptySeed == [entryPoints |-> <<>>, sinks |-> <<>>, evidence |-> <<>>, paths |-> <<>>,
              graph |-> {}, spans |-> {}]
=============================================================================
