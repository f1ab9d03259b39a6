----------------------------- MODULE Decompose -----------------------------
(***************************************************************************)
(* S3: the review chunks. The strategist's chunks are held against the     *)
(* inventory; chunks for the data flows, for what no chunk covers yet, for *)
(* the specialists and for forgotten threats are added. And what S4 shows  *)
(* the researcher of a chunk: whole files, or slices of them. The chunks   *)
(* are a set: their order (the rank), wording and languages are left out.  *)
(***************************************************************************)
EXTENDS CodeScope

CONSTANTS
  Loc,          \* file -> its number of lines
  MaxHops,      \* step3.taint_max_hops
  MaxTaint,     \* step3.taint_max_chunks
  CleanNames,   \* bare names that end a flow in the walk of S3
  RiskLoc, MaxFiles, CatchLoc, CatchFiles, SpecLoc,   \* chunk sizes
  MinRatio,     \* percent of files that must be reachable
  SkipExts, SkipDirs, SkipNames,   \* never swept up; names as their files
  SecurityConfigs, IacFiles,
  Specialists,  \* those enabled, in order
  SeenBy,       \* specialist -> files that hold what it looks for
  Threats,      \* S2's threats: [id, surface, tokens, specialists, files]
  ThreatFiles,  \* files of a fallback chunk
  SmallLoc, LargeLoc,
  Pad, GraphPad, MaxFuncs, Window, Overlap, NeighborLines, MaxNeighbors

(* Names in the order of the lists they come in.                           *)
NameRank(q) ==
  LET at == {i \in DOMAIN Fns : FnId(Fns[i].file, Fns[i].name) = q}
  IN  IF at = {} THEN 0 ELSE Min(at)
QBefore(p, q) ==
  \/ FileRank(p[1]) < FileRank(q[1])
  \/ FileRank(p[1]) = FileRank(q[1]) /\ NameRank(p) < NameRank(q)

Nodes(ctx) == UNION {{e[1], e[2]} : e \in ctx.edges}
FilesOf(path) == [i \in DOMAIN path |-> path[i][1]]

(* Same-name definitions of a file share one span.                         *)
Lo(q) == Min({fd.lo : fd \in {d \in ToSet(Fns) : FnId(d.file, d.name) = q}})
Hi(q) == Max({fd.hi : fd \in {d \in ToSet(Fns) : FnId(d.file, d.name) = q}})

(* qnodes_at for one line: the first span around it, what the graph knows  *)
(* of the file, or the nearest span.                                       *)
QnodeAt(ctx, f, line) ==
  LET spans == {q \in ctx.spans : q[1] = f}
      around == {q \in spans : Lo(q) <= line /\ line <= Hi(q)}
      members == {q \in Nodes(ctx) : q[1] = f}
      Far(q) == IF line < Lo(q) THEN Lo(q) - line ELSE line - Hi(q)
      First(set) == {q \in set : \A r \in set : r = q \/ QBefore(q, r)}
  IN  IF around # {} THEN {q \in around : \A r \in around : r = q \/ Lo(q) < Lo(r)}
      ELSE IF members # {} THEN First(members)
      ELSE First({q \in spans : \A r \in spans : Far(q) <= Far(r)})

-----------------------------------------------------------------------------
(* Taint chunks.                                                           *)

MatchQnodes(ctx, f, n) ==
  LET cands == {q \in Nodes(ctx) : q[2] = n}
      here == {q \in cands : q[1] = f}
      alike == {q \in cands : IsSuffix(Path[q[1]], Path[f]) \/ IsSuffix(Path[f], Path[q[1]])}
  IN  IF here # {} THEN here ELSE IF alike # {} THEN alike ELSE {<<f, n>>}

SinkQnodes(ctx, s) ==
  IF s.fn # "" THEN MatchQnodes(ctx, s.file, s.fn) ELSE QnodeAt(ctx, s.file, s.line)
SinksAt(ctx, q) == SelectSeq(ctx.sinks, LAMBDA s : q \in SinkQnodes(ctx, s))
SinkNodes(ctx) == UNION {SinkQnodes(ctx, s) : s \in ToSet(ctx.sinks)}

Hit(sinkQn, path, files, source, sink) ==
  [sinkQn |-> sinkQn, path |-> path, files |-> files, source |-> source, sink |-> sink]
NoQnode == <<"", "">>

(* _seed_paths_for_entry: the flows of S0 whose source is in the file of   *)
(* the entry point, over two files at least; without any, the paths.       *)
EvidenceHits(ctx, ep) ==
  LET kept == SelectSeq(ctx.evidence, LAMBDA e :
                /\ ~e.sanitized /\ e.source[1] = ep.file
                /\ Cardinality(IF e.path = <<>> THEN {e.source[1], e.sink[1]}
                               ELSE ToSet(FilesOf(e.path))) >= 2)
      SinkQn(e) == LET at == QnodeAt(ctx, e.sink[1], e.sink[2])
                   IN  IF at # {} THEN CHOOSE q \in at : TRUE
                       ELSE IF e.path # <<>> THEN Last(e.path) ELSE NoQnode
      AsHit(e) == Hit(SinkQn(e), Firsts(e.path),
                      FilesOf(e.path) \o <<ep.file, e.sink[1]>>, e.source, e.sink)
  IN  Firsts([i \in DOMAIN kept |-> AsHit(kept[i])])

PathHits(ctx, ep) ==
  LET kept == SelectSeq(ctx.paths, LAMBDA p : ep.file \in ToSet(FilesOf(p)))
      Fn(h) == QnodeAt(ctx, h[1], h[2])
      Named(p) == SelectSeq(p, LAMBDA h : Fn(h) # {})
      Funcs(p) == [i \in DOMAIN Named(p) |-> CHOOSE q \in Fn(Named(p)[i]) : TRUE]
      SinkQn(p) == IF Fn(Last(p)) = {} THEN NoQnode ELSE CHOOSE q \in Fn(Last(p)) : TRUE
      AsHit(p) == Hit(SinkQn(p), Funcs(p), FilesOf(p) \o <<ep.file>>, Head(p), Last(p))
  IN  [i \in DOMAIN kept |-> AsHit(kept[i])]

OrElse(hits, others) == IF hits # <<>> THEN hits ELSE others
SeedHits(ctx, ep) == OrElse(EvidenceHits(ctx, ep), PathHits(ctx, ep))

(* _bfs_to_sinks. A name is visited once, by the first path that comes by; *)
(* what is reached through a cleaning name is not reported.                *)
Onto(at, new) ==
  [i \in DOMAIN new |-> [path |-> Append(at.path, new[i]),
                         cleaned |-> at.cleaned \/ new[i][2] \in CleanNames]]
Callees(ctx, at, visited) ==
  Onto(at, InOrder({e[2] : e \in {d \in ctx.edges : d[1] = Last(at.path)}} \ visited,
                   QBefore))
Explored(sinks, walk, more) ==
  [queue |-> walk.queue \o SelectSeq(more, LAMBDA m : Len(m.path) <= MaxHops),
   found |-> walk.found
               \o SelectSeq(more, LAMBDA m : ~m.cleaned /\ Last(m.path) \in sinks),
   visited |-> walk.visited \cup {Last(m.path) : m \in ToSet(more)}]
(* The n-th step of the walk looks at the n-th entry that was queued.      *)
Explore(ctx, sinks, walk, n) ==
  IF n > Len(walk.queue) THEN walk
  ELSE Explored(sinks, walk, Callees(ctx, walk.queue[n], walk.visited))
TaintWalk(ctx, sinks, start) ==
  LET walk[n \in 0 .. Cardinality(Nodes(ctx)) + 1] ==
        IF n = 0 THEN [queue |-> <<[path |-> <<start>>, cleaned |-> FALSE]>>,
                       found |-> <<>>, visited |-> {start}]
        ELSE Explore(ctx, sinks, walk[n - 1], n)
      found == walk[Cardinality(Nodes(ctx)) + 1].found
  IN  [i \in DOMAIN found |-> found[i].path]

(* The walk from an entry point, or else the sinks of its own file.        *)
WalkFrom(ctx, starts) ==
  FlattenSeq([i \in DOMAIN starts |-> TaintWalk(ctx, SinkNodes(ctx), starts[i])])
OwnSinks(ctx, ep) ==
  LET own == SelectSeq(ctx.sinks, LAMBDA s : s.file = ep.file)
  IN  [i \in DOMAIN own |-> <<<<ep.file, ep.fn>>, <<own[i].file, own[i].fn>>>>]
GraphHit(ep, p, at) ==
  LET there == at # <<>>
      files == IF there THEN [i \in DOMAIN at |-> at[i].file] ELSE <<Last(p)[1]>>
      ref == IF there THEN <<at[1].file, at[1].line>> ELSE <<Last(p)[1], 0>>
  IN  Hit(Last(p), p, FilesOf(p) \o <<ep.file>> \o files, <<ep.file, 0>>, ref)
GraphHitsOn(ctx, ep, paths) ==
  [i \in DOMAIN paths |-> GraphHit(ep, paths[i], SinksAt(ctx, Last(paths[i])))]
GraphHits(ctx, ep) ==
  GraphHitsOn(ctx, ep,
    OrElse(WalkFrom(ctx, InOrder(MatchQnodes(ctx, ep.file, ep.fn), QBefore)), OwnSinks(ctx, ep)))

(* The threat whose surface is the entry function, or shares a word of it. *)
NoThreat == "none"
ThreatFor(ep) ==
  LET Exact == {i \in DOMAIN Threats : Threats[i].surface = ep.fn}
      Alike == {i \in DOMAIN Threats : ep.fn \in Threats[i].tokens}
  IN  IF Exact # {} THEN Threats[Min(Exact)].id
      ELSE IF Alike # {} THEN Threats[Min(Alike)].id ELSE NoThreat

TotalLoc(files) == FoldLeft(LAMBDA n, f : n + Loc[f], 0, files)
SizeFor(files) ==
  LET n == TotalLoc(files)
  IN  IF n < SmallLoc THEN "small" ELSE IF n < LargeLoc THEN "medium" ELSE "large"

ReviewChunk(kind, files, focus, threat) ==
  [kind |-> kind, files |-> files, focus |-> focus, threat |-> threat,
   size |-> SizeFor(files), path |-> <<>>, source |-> <<"", 0>>, sink |-> <<"", 0>>]
WithFiles(c, files) ==
  [kind |-> c.kind, files |-> files, focus |-> c.focus, threat |-> c.threat,
   size |-> SizeFor(files), path |-> c.path, source |-> c.source, sink |-> c.sink]

TaintChunk(ctx, ep, h) ==
  LET files == Firsts(SelectSeq(h.files, LAMBDA f : f \in ToSet(ctx.files)))
  IN  [ReviewChunk("taint", files, {ep.fn}, ThreatFor(ep)) EXCEPT
         !.path = h.path, !.source = h.source, !.sink = h.sink]

(* The entry points, those open to everybody first, then by their kind.    *)
EntryKinds == <<"cli", "deserialization", "file", "framework", "ipc", "network", "other">>
InEntryOrder(eps) ==
  LET Of(unauth, kind) == SelectSeq(eps, LAMBDA e : e.unauth = unauth /\ e.kind = kind)
      All(unauth) == FlattenSeq([i \in DOMAIN EntryKinds |-> Of(unauth, EntryKinds[i])])
  IN  All(TRUE) \o All(FALSE)

(* Per entry point a chunk for each hit that is not one for the same       *)
(* function, sink and files again.                                         *)
Signature(ep, h, c) ==
  <<ep.fn, IF h.sinkQn = NoQnode THEN h.sink ELSE h.sinkQn, ToSet(c.files)>>
AddOnce(acc, c, sig) ==
  IF Len(acc.chunks) >= MaxTaint \/ c.files = <<>> \/ sig \in acc.seen THEN acc
  ELSE [chunks |-> Append(acc.chunks, c), seen |-> acc.seen \cup {sig}]
AddHit(ep, acc, h, c) == AddOnce(acc, c, Signature(ep, h, c))
AddHits(ctx, ep, acc) ==
  FoldLeft(LAMBDA a, h : AddHit(ep, a, h, TaintChunk(ctx, ep, h)), acc,
           SeedHits(ctx, ep) \o GraphHits(ctx, ep))
TaintChunks(ctx) ==
  IF ctx.entryPoints = <<>> \/ ctx.sinks = <<>> THEN <<>>
  ELSE FoldLeft(LAMBDA acc, ep : AddHits(ctx, ep, acc), [chunks |-> <<>>, seen |-> {}],
                InEntryOrder(ctx.entryPoints)).chunks

-----------------------------------------------------------------------------
(* Grouping and packing.                                                   *)

FileEdges(ctx) ==
  {<<e[1][1], e[2][1]>> : e \in {d \in ctx.edges : d[1][1] # d[2][1]}}

(* _cohesive_groups: by the first module that has the file, then by        *)
(* connected component, then by the first two parts of the path.           *)
ModuleGroups(modules, files) ==
  LET Earlier(i) == UNION {ToSet(modules[j]) : j \in {h \in DOMAIN modules : h < i}}
      Places(i) == {k \in DOMAIN modules[i] : modules[i][k] \in files \ Earlier(i)}
  IN  {Picked(modules[i], Places(i)) : i \in DOMAIN modules}
CohesiveGroups(ctx, files) ==
  LET pending == files \ UNION {ToSet(m) : m \in ToSet(ctx.modules)}
      both == FileEdges(ctx) \cup {<<e[2], e[1]>> : e \in FileEdges(ctx)}
      among == {e \in both : e[1] \in pending /\ e[2] \in pending}
      linked == {f \in pending : \E e \in both : e[1] = f}
      rest == pending \ linked
      Key(f) == SubSeq(Path[f], 1, 2)
  IN  ModuleGroups(ctx.modules, files)
        \cup {Sorted(Within(among, {f}, Len(Files))) : f \in linked}
        \cup {Sorted({g \in rest : Key(g) = Key(f)}) : f \in rest}

(* _pack: a group is cut where the next file would be too much. A bucket   *)
(* is known by the place of its first file.                                *)
BucketStarts(files, maxLoc, maxFiles) ==
  LET start[i \in DOMAIN files] ==
        IF i = 1 THEN 1
        ELSE LET from == start[i - 1]
                 full == \/ TotalLoc(SubSeq(files, from, i - 1)) + Loc[files[i]] > maxLoc
                         \/ i - from >= maxFiles
             IN  IF full THEN i ELSE from
  IN  start
Bucket(files, start, first) == Picked(files, {j \in DOMAIN files : start[j] = first})

(* A bug: the last bucket of a group that is cut is lost.                  *)
BugPackGroup(files, maxLoc, maxFiles) ==
  LET start == BucketStarts(files, maxLoc, maxFiles)
      firsts == {start[j] : j \in DOMAIN files}
  IN  {Bucket(files, start, i) : i \in {k \in firsts : k = 1 \/ k # Max(firsts)}}

PackGroup(files, maxLoc, maxFiles) ==
  LET start == BucketStarts(files, maxLoc, maxFiles)
  IN  {Bucket(files, start, start[j]) : j \in DOMAIN files}
Pack(groups, maxLoc, maxFiles) == UNION {PackGroup(g, maxLoc, maxFiles) : g \in groups}

(* _split_oversize_risk_chunks: every chunk there is by now, those of the  *)
(* flows too.                                                              *)
Fits(files) == TotalLoc(files) <= RiskLoc /\ Len(files) <= MaxFiles
SplitChunks(ctx, chunks) ==
  LET Shards(c) == IF Fits(c.files) THEN {c.files}
                   ELSE Pack(CohesiveGroups(ctx, ToSet(c.files)), RiskLoc, MaxFiles)
  IN  UNION {{WithFiles(c, files) : files \in Shards(c)} : c \in chunks}

-----------------------------------------------------------------------------
(* What no chunk covers.                                                   *)

(* _normalize_chunk_files: the file that is named, or the only one of that *)
(* name.                                                                   *)
NormalizedFiles(ctx, names) ==
  LET Found(p) == LET exact == {f \in ToSet(ctx.files) : Path[f] = p}
                      same == {f \in ToSet(ctx.files) : Last(Path[f]) = Last(p)}
                  IN  IF exact # {} THEN exact
                      ELSE IF Cardinality(same) = 1 THEN same ELSE {}
      known == SelectSeq(names, LAMBDA p : Found(p) # {})
  IN  Firsts([i \in DOMAIN known |-> CHOOSE f \in Found(known[i]) : TRUE])

CatchallEligible(f) ==
  f \notin SkipNames /\ Ext[f] \notin SkipExts /\ Dirs(f) \cap SkipDirs = {}

(* _reachable_files: forward from the entry points, backward from the      *)
(* sinks, what the seed's paths name, and languages no graph knows of.     *)
ReachableFiles(ctx) ==
  LET eps == {e.file : e \in ToSet(ctx.entryPoints)}
      sinks == {s.file : s \in ToSet(ctx.sinks)}
      seeded == UNION {ToSet(FilesOf(p)) : p \in ToSet(ctx.paths)}
      sameName == {r \in ctx.edges \X ctx.located : r[1][2][2] = r[2][2]}
      byName == {<<r[1][1][1], r[2][1]>> : r \in sameName}
      fwd == FileEdges(ctx) \cup byName
      seen == eps \cup sinks \cup seeded \cup {q[1] : q \in Nodes(ctx) \cup ctx.located}
      langs == {Lang[f] : f \in seen}
      steps == Len(Files)
  IN  Within(fwd, eps, steps) \cup Within({<<e[2], e[1]>> : e \in fwd}, sinks, steps)
        \cup seeded
        \cup {f \in ToSet(ctx.files) : HasLang(f) /\ Lang[f] \notin langs}

(* _add_catchall_chunks: the files left, all of them or the reachable ones.*)
Leftover(ctx, chunks) ==
  {f \in ToSet(ctx.files) : /\ CatchallEligible(f)
                            /\ \A c \in chunks : f \notin ToSet(c.files)}
TooSparse(kept, all) == 100 * Cardinality(kept) < MinRatio * Cardinality(all)
Unreachable(ctx, chunks, gate) ==
  LET all == Leftover(ctx, chunks)
      kept == all \cap ReachableFiles(ctx)
  IN  IF gate /\ (ctx.entryPoints # <<>> \/ ctx.sinks # <<>>) /\ ~TooSparse(kept, all)
      THEN all \ kept ELSE {}
CatchallChunks(ctx, chunks, gate) ==
  LET files == Leftover(ctx, chunks) \ Unreachable(ctx, chunks, gate)
  IN  {ReviewChunk("catchall", bucket, {}, NoThreat) :
         bucket \in Pack(CohesiveGroups(ctx, files), CatchLoc, CatchFiles)}

-----------------------------------------------------------------------------
(* Specialists and threats.                                                *)

IsSource(f) == HasLang(f) \/ f \in SecurityConfigs \cup IacFiles

HasSurface(ctx, spec) ==
  CASE spec = "access-control" -> 
         \/ \E e \in ToSet(ctx.entryPoints) : e.unauth \/ e.kind \in {"network", "ipc"}
         \/ \E i \in DOMAIN Threats : "access-control" \in Threats[i].specialists
    [] spec = "batch-etl" -> 
         \/ \E e \in ToSet(ctx.entryPoints) : e.kind \in {"file", "cli"}
         \/ \E f \in ToSet(ctx.files) : f \in SeenBy[spec]
    [] spec = "iac" -> \E f \in ToSet(ctx.files) : f \in IacFiles
    [] spec \in {"crypto", "deserialization"} -> 
         \E f \in ToSet(ctx.files) : IsSource(f) /\ f \in SeenBy[spec]
    [] OTHER -> TRUE

SpecialistFocus(ctx, files) == {q[2] : q \in {d \in ctx.located : d[1] \in ToSet(files)}}
SpecialistChunks(ctx) ==
  LET source == {f \in ToSet(ctx.files) : IsSource(f)}
      enabled == {s \in ToSet(Specialists) : HasSurface(ctx, s)}
      Scope(spec) == IF spec = "iac" THEN source \cap IacFiles ELSE source
      Sweep(spec) == {ReviewChunk(spec, bucket, SpecialistFocus(ctx, bucket), NoThreat) :
                        bucket \in Pack(CohesiveGroups(ctx, Scope(spec)), SpecLoc, MaxFiles)}
  IN  UNION {Sweep(s) : s \in enabled}

(* _add_threat_surface_fallback_chunks: a threat no chunk names gets the   *)
(* files its words point at.                                               *)
Touched(ctx, t) ==
  {e \in ToSet(ctx.entryPoints) : e.fn = t.surface \/ e.fn \in t.tokens}
CandidateFiles(ctx, chunks, t) ==
  LET swept == UNION {ToSet(c.files) : c \in {d \in chunks : d.kind \in t.specialists}}
      files == swept \cup (t.files \cap ToSet(ctx.files)) \cup {e.file : e \in Touched(ctx, t)}
  IN  SubSeq(Sorted(files), 1, Min({ThreatFiles, Cardinality(files)}))
FallbackChunks(ctx, chunks) ==
  LET named == {c.threat : c \in chunks}
      missing == {t \in ToSet(Threats) : /\ t.id \notin named
                                         /\ CandidateFiles(ctx, chunks, t) # <<>>}
  IN  {ReviewChunk("threat", CandidateFiles(ctx, chunks, t),
                   {e.fn : e \in Touched(ctx, t)}, t.id) : t \in missing}

(* A threat S2 does not know of is taken off.                              *)
KnownThreat(c) ==
  IF \E i \in DOMAIN Threats : Threats[i].id = c.threat THEN c
  ELSE [c EXCEPT !.threat = NoThreat]

(* The whole of S3, from the strategist's chunks [files, focus, threat].   *)
RiskChunks(ctx, plan) ==
  {ReviewChunk("risk", NormalizedFiles(ctx, plan[i].files), plan[i].focus, plan[i].threat) :
     i \in DOMAIN plan}
WithSpecialists(ctx, chunks) == chunks \cup SpecialistChunks(ctx)
WithFallback(ctx, chunks) == chunks \cup FallbackChunks(ctx, chunks)
KnownThreats(chunks) == {KnownThreat(c) : c \in chunks}
ManifestOf(ctx, split, gate) ==
  [chunks |-> KnownThreats(WithFallback(ctx, WithSpecialists(ctx,
                split \cup CatchallChunks(ctx, split, gate)))),
   unreachable |-> Unreachable(ctx, split, gate)]
Manifest(ctx, plan, gate) ==
  ManifestOf(ctx, SplitChunks(ctx, RiskChunks(ctx, plan) \cup ToSet(TaintChunks(ctx))), gate)

-----------------------------------------------------------------------------
(* What S4 shows of a chunk: a set of lines <<file, line>>.                *)

Whole(f) == {f} \X (1 .. Loc[f])
(* _merge_ranges joins what is no more than a gap apart.                   *)
Joined(lines, gap) ==
  lines \cup {n \in Min(lines) .. Max(lines) :
                \E a, b \in lines : a < n /\ n < b /\ b - a <= gap + 1}
Show(f, ranges, gap) ==
  LET lines == UNION {(Max({1, r[1]})) .. r[2] : r \in ranges}
  IN  IF ranges = {} THEN {} ELSE {f} \X (Joined(lines, gap) \cap 1 .. Loc[f])
Around(n, pad) == {<<n - pad, n + pad>>}
SinkRange(c, f, pad) == IF c.sink[1] = f /\ c.sink[2] > 0 THEN Around(c.sink[2], pad) ELSE {}

(* A bug: the first function of the path is forgotten.                     *)
BugTaintSlice(ctx, c) ==
  LET at(f) == {q \in ToSet(Tail(c.path)) : q[1] = f}
      Lost(f) == \E q \in at(f) : q \notin ctx.spans \cup ctx.located
      Rows(q) == IF q \in ctx.spans THEN <<Lo(q) - Pad, Hi(q) + Pad>>
                 ELSE <<Lo(q) - Pad, Lo(q) + Pad>>
      Ranges(f) == {Rows(q) : q \in at(f)} \cup SinkRange(c, f, Pad)
  IN  IF ctx.spans = {} THEN {}
      ELSE UNION {IF Lost(f) THEN Whole(f) ELSE Show(f, Ranges(f), Pad) : f \in ToSet(c.files)}

(* _load_taint_slice: the functions of the path, and the sink line.        *)
TaintSlice(ctx, c) ==
  LET at(f) == {q \in ToSet(c.path) : q[1] = f}
      Lost(f) == \E q \in at(f) : q \notin ctx.spans \cup ctx.located
      Rows(q) == IF q \in ctx.spans THEN <<Lo(q) - Pad, Hi(q) + Pad>>
                 ELSE <<Lo(q) - Pad, Lo(q) + Pad>>
      Ranges(f) == {Rows(q) : q \in at(f)} \cup SinkRange(c, f, Pad)
  IN  IF ctx.spans = {} THEN {}
      ELSE UNION {IF Lost(f) THEN Whole(f) ELSE Show(f, Ranges(f), Pad) : f \in ToSet(c.files)}

(* _load_graph_slice: the functions the graph knows of in each file. How   *)
(* they are ranked does not matter: a file with too many is shown whole,   *)
(* and so is one with none.                                                *)
GraphSlice(ctx, c) ==
  LET long(f) == {q \in ctx.spans : q[1] = f /\ Hi(q) > Lo(q)}
      Clipped(f) == Cardinality(long(f)) > MaxFuncs
      Focus(f) == {Lo(q) : q \in {d \in ctx.located : d[1] = f /\ d[2] \in c.focus}}
      Ranges(f) == {<<Lo(q) - GraphPad, Hi(q) + GraphPad>> : q \in long(f)}
                     \cup UNION {Around(n, GraphPad) : n \in Focus(f)}
                     \cup SinkRange(c, f, GraphPad)
  IN  IF \A f \in ToSet(c.files) : Ranges(f) = {} THEN {}
      ELSE UNION {IF Ranges(f) = {} \/ Clipped(f) THEN Whole(f)
                  ELSE Show(f, Ranges(f), GraphPad) : f \in ToSet(c.files)}

FilesFull(c) == UNION {Whole(f) : f \in ToSet(c.files)}

(* _load_sliding_window: windows around the lines that matter, else around *)
(* the lines that name an entry point, else the whole file.                *)
GraphAnchors(ctx, c, f) ==
  LET fns == {q \in ctx.spans : /\ q[1] = f
                /\ \/ q \in ToSet(c.path) \/ q[2] \in c.focus
                   \/ \E e \in ToSet(ctx.entryPoints) : e.file = f /\ e.fn = q[2]
                   \/ \E s \in ToSet(ctx.sinks) : s.file = f /\ s.fn = q[2]}
      focus == {q \in ctx.located : q[1] = f /\ q[2] \in c.focus}
  IN  {Lo(q) : q \in fns \cup focus}
        \cup {s.line : s \in {r \in ToSet(ctx.sinks) : r.file = f}}
        \cup (IF c.sink[1] = f THEN {c.sink[2]} ELSE {})
EntryLines(prog, c, f) ==
  {s.line : s \in {t \in ToSet(prog) : t.file = f /\ t.op = "call" /\ t.name \in c.focus}}
    \cup {fd.lo : fd \in {d \in ToSet(Fns) : d.file = f /\ d.name \in c.focus}}
SlidingWindow(prog, ctx, c) ==
  LET half == Window \div 2
      anchors(f) == LET own == GraphAnchors(ctx, c, f) \cap 1 .. Loc[f]
                    IN  IF own # {} THEN own ELSE EntryLines(prog, c, f)
      Windows(f) == {<<n - half, n - 1 + half>> : n \in anchors(f)}
  IN  UNION {IF anchors(f) = {} THEN Whole(f) ELSE Show(f, Windows(f), Overlap) :
               f \in ToSet(c.files)}

(* _load_chunk_code.                                                       *)
ChunkCode(prog, ctx, c, slice) ==
  LET taint == IF c.path # <<>> THEN TaintSlice(ctx, c) ELSE {}
      graph == GraphSlice(ctx, c)
  IN  IF slice = "function" /\ taint # {} THEN taint
      ELSE IF slice = "function" /\ graph # {} THEN graph
      ELSE IF c.size # "large" THEN FilesFull(c) ELSE SlidingWindow(prog, ctx, c)

(* _neighbor_context: the callers and callees outside the chunk, read only.*)
NeighborContext(ctx, c) ==
  LET files == ToSet(c.files)
      callers == {e[1] : e \in {d \in ctx.edges : d[2][1] \in files}}
      callees == {e[2] : e \in {d \in ctx.edges : d[1][1] \in files}}
      known == {q \in callers \cup callees : q[1] \notin files /\ NameRank(q) # 0}
      some == SubSeq(InOrder(known, QBefore), 1, Min({MaxNeighbors, Cardinality(known)}))
  IN  UNION {Show(q[1], {<<Lo(q) - 2, Lo(q) - 1 + NeighborLines>>}, 0) : q \in ToSet(some)}
=============================================================================
