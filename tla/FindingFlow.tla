---------------------------- MODULE FindingFlow ----------------------------
(***************************************************************************)
(* The way of a finding through a scan: the replies of the deep dive (S4)  *)
(* are voted on and collapsed, S5 gates them and removes duplicates, S6    *)
(* gives verdicts, S7 removes the remaining duplicates, S8 ranks what is   *)
(* left and links it into chains, and the report is rendered.              *)
(*                                                                         *)
(* Verify and DeepDive model how the calls of these stages run and fail;   *)
(* here a call is one step, and the question is what becomes of findings:  *)
(* every stage hands on a list, refers to members of it by position, and   *)
(* drops, merges and reorders it.                                          *)
(*                                                                         *)
(* A finding is an element of Finding, with what the code looks at in      *)
(* Desc: file, lines, class, CWE, confidence, source and sink.             *)
(***************************************************************************)
EXTENDS Lists, Functions

CONSTANTS
  Chunk,         \* the chunks of S4
  Finding,       \* what the model may report
  Desc,          \* the attributes of a finding
  RunsOf,        \* runs of a chunk (step4.runs, or one for a specialist)
  VoteThreshold, \* votes a finding of that chunk needs
  FindingsCap,   \* step4.max_findings_per_run
  LineBucket,    \* step4.line_bucket
  LineTolerance, \* step7_dedup.line_tolerance
  MinConfidence, \* min_pre_confidence
  NeedEvidence,  \* require_evidence
  PreThreshold,  \* step7_dedup.pre_verify_threshold
  Answers,       \* bound: how the calls of S6 end
  Bands,         \* bound: severity bands the instance tells apart, 1 is worst
  MaxNamed       \* bound: findings the chain model ranks

ASSUME FlowAssumption ==
  /\ Finding \subseteq Nat \ {0} /\ IsFiniteSet(Finding)
  /\ \A f \in Finding : Desc[f].confidence \in Int
  /\ RunsOf \in [Chunk -> Nat \ {0}]
  /\ VoteThreshold \in [Chunk -> Nat \ {0}]
  /\ \A c \in Chunk : VoteThreshold[c] <= RunsOf[c]
  /\ LineBucket \in Nat \ {0}
  /\ LineTolerance \in Nat
  /\ Answers \subseteq {"sure", "doubtful", "refuted", "unreadable", "refused",
                     "failed"}
  /\ Bands \in Nat \ {0}

NoOne == 0
Info == Bands + 1

VARIABLES
  phase,      \* the stage the scan is at
  asked,      \* S4: chunks that are through
  chunk,      \* S4: the chunk whose runs are made, or none
  runs,       \* S4: the findings of its runs so far, a failed run is empty
  live,       \* the findings handed on, in order
  votes,      \* Finding.votes
  evidence,   \* the refs of a finding that were inferred in S5
  verified,   \* S6: what was verified so far, in the order of completion
  dropped,    \* the DroppedFinding list
  duplicates, \* Finding.duplicates: the call sites a finding absorbed
  band,       \* the CVSS band (environmental, else base), Info: no vector
  app,        \* what the CMDB says of the application's exposure
  report,     \* the FinalReport
  raw,        \* raw_findings_count
  into,       \* history: the finding that absorbed a finding
  home,       \* history: the finding that stands for it now
  meant       \* history: the findings the chain model named in its chain

vars == <<phase, asked, chunk, runs, live, votes, evidence, verified, dropped,
          duplicates, band, app, report, raw, into, home, meant>>

NoReport == [ranked |-> <<>>, severity |-> <<>>, chain |-> <<>>,
             degraded |-> FALSE]

Init ==
  /\ phase = "deepdive"
  /\ asked = {} /\ chunk = "none" /\ runs = <<>>
  /\ live = <<>> /\ verified = <<>> /\ dropped = <<>>
  /\ votes = [f \in Finding |-> 0]
  /\ evidence = [f \in Finding |-> {}]
  /\ duplicates = [f \in Finding |-> {}]
  /\ band = [f \in Finding |-> Info]
  /\ app = "unknown"
  /\ report = NoReport
  /\ raw = 0
  /\ into = [f \in Finding |-> NoOne]
  /\ home = [f \in Finding |-> f]
  /\ meant = <<>>

-----------------------------------------------------------------------------
(* S4: votes within a chunk, collapse across chunks.                       *)

(* Finding.canonical_key                                                   *)
Key(f) == <<Desc[f].file, Desc[f].lo \div LineBucket, Desc[f].class>>

Surer(f, g) == Desc[f].confidence > Desc[g].confidence

(* The representative of a key: the first of the most confident.           *)
Surest(list, k) ==
  LET at == {i \in DOMAIN list : Key(list[i]) = k}
      best == {i \in at : \A j \in at : ~Surer(list[j], list[i])}
  IN  list[CHOOSE i \in best : \A j \in best : i <= j]

(* One finding per key, at the place where the key first occurs.           *)
OnePerKey(list) ==
  LET first == Picked(list, {i \in DOMAIN list : \A j \in DOMAIN list :
                                j < i => Key(list[j]) # Key(list[i])})
  IN  [p \in DOMAIN first |-> Surest(list, Key(first[p]))]

(* What one run of a chunk may return: malformed items are dropped and the *)
(* rest is capped by confidence.                                           *)
Reply(S) ==
  IF Cardinality(S) <= FindingsCap THEN {S}
  ELSE {T \in SUBSET S : /\ Cardinality(T) = FindingsCap
                         /\ \A f \in T, g \in S \ T : ~Surer(g, f)}

BeginChunk(c) ==
  /\ phase = "deepdive" /\ chunk = "none" /\ c \notin asked
  /\ chunk' = c /\ runs' = <<>>
  /\ UNCHANGED <<phase, asked, live, votes, evidence, verified, dropped,
                 duplicates, band, app, report, raw, into, home, meant>>

(* _single_run: a run that fails counts as one that saw nothing.           *)
SingleRun ==
  /\ chunk # "none" /\ Len(runs) < RunsOf[chunk]
  /\ \E S \in SUBSET {f \in Finding : Desc[f].chunk = chunk} :
       \E reply \in Reply(S) : runs' = Append(runs, reply)
  /\ UNCHANGED <<phase, asked, chunk, live, votes, evidence, verified, dropped,
                 duplicates, band, app, report, raw, into, home, meant>>

VotesFor(k) == Cardinality({r \in DOMAIN runs : \E f \in runs[r] : Key(f) = k})

(* The end of _deepdive_chunk: keys with enough votes survive, each by its *)
(* most confident finding (by_key keeps the first of equals).              *)
EndChunk ==
  /\ chunk # "none" /\ Len(runs) = RunsOf[chunk]
  /\ LET seen == UNION {runs[r] : r \in DOMAIN runs}
         keys == {k \in {Key(f) : f \in seen} :
                    VotesFor(k) >= VoteThreshold[chunk]}
         Best(k) == {f \in seen : Key(f) = k /\ \A g \in seen :
                                    Key(g) = k => ~Surer(g, f)}
         FirstRun(k) == CHOOSE r \in DOMAIN runs :
                          /\ \E f \in runs[r] : Key(f) = k
                          /\ \A q \in 1 .. r - 1 : \A f \in runs[q] : Key(f) # k
     IN  \E pick \in [keys -> seen], order \in Bijection(1 .. Cardinality(keys), keys) :
           /\ \A k \in keys : pick[k] \in Best(k)
           /\ \A i, j \in DOMAIN order :
                i < j => FirstRun(order[i]) <= FirstRun(order[j])
           /\ live' = live \o [i \in DOMAIN order |-> pick[order[i]]]
           /\ votes' = [f \in Finding |->
                          IF \E k \in keys : pick[k] = f
                          THEN VotesFor(Key(f)) ELSE votes[f]]
  /\ asked' = asked \cup {chunk} /\ chunk' = "none" /\ runs' = <<>>
  /\ UNCHANGED <<phase, evidence, verified, dropped, duplicates, band,
                 app, report, raw, into, home, meant>>

(* _collapse_across_chunks, when every chunk is through.                   *)
CollapseAcrossChunks ==
  /\ phase = "deepdive" /\ chunk = "none" /\ asked = Chunk
  /\ live' = OnePerKey(live)
  /\ raw' = Len(live')
  /\ phase' = "prefilter"
  /\ UNCHANGED <<asked, chunk, runs, votes, evidence, verified, dropped,
                 duplicates, band, app, report, into, home, meant>>

-----------------------------------------------------------------------------
(* S5: gates, inferred evidence, duplicates.                               *)

Drop(f, reason, canonical) ==
  [finding |-> f, reason |-> reason, canonical |-> canonical]

(* Why S5 drops a finding, in the order of its gates.                      *)
GateOf(f) ==
  LET d == Desc[f]
  IN  CASE d.inTests /\ ~d.secret -> "EXCLUDED"
        [] ~d.inInventory -> "EXCLUDED"
        [] d.confidence < MinConfidence -> "UNCONFIRMED"
        [] NeedEvidence /\ d.refs # {"source", "sink"} -> "UNCONFIRMED"
        [] OTHER -> "keep"

(* _ast_backfill_evidence: a missing sink is the finding's own line, a     *)
(* missing source that line (INFO_LEAK), the nearest entry point of the    *)
(* file, or the start of a seeded path into it, when there is one.         *)
Inferred(f) ==
  LET d == Desc[f]
  IN  ({"sink"} \ d.refs)
      \cup (IF d.class = "info_leak" \/ d.entryOrSeed
            THEN {"source"} \ d.refs ELSE {})

(* Two findings are one bug: the same file and class, no CWE against it    *)
(* (for LOGIC an explicit, equal one), and close or overlapping lines.     *)
SameBug(f, g) ==
  LET a == Desc[f]
      b == Desc[g]
  IN  /\ a.file = b.file /\ a.class = b.class
      /\ IF a.class = "logic" THEN a.cwe # "" /\ a.cwe = b.cwe
         ELSE a.cwe = "" \/ b.cwe = "" \/ a.cwe = b.cwe
      /\ \/ a.lo <= b.lo + LineTolerance /\ b.lo <= a.lo + LineTolerance
         \/ a.lo <= b.hi /\ b.lo <= a.hi

(* _collapse_trivial: a finding is absorbed by the first earlier one that  *)
(* is not absorbed itself and is the same bug; 0 if there is none.         *)
FirstSame(list, canon, j) ==
  LET same == {i \in 1 .. j - 1 : canon[i] = 0 /\ SameBug(list[i], list[j])}
  IN  IF same = {} THEN 0 ELSE CHOOSE i \in same : \A k \in same : i <= k

TrivialCanonical(list) ==
  LET canon[j \in DOMAIN list] == FirstSame(list, canon, j) IN canon

(* The semantic pass: what the model's reply may say of those the first    *)
(* pass left. A reply may name any smaller index; a call that fails names  *)
(* none. Absorbing may be transitive.                                      *)
SemanticCanonical(canon) ==
  LET open == {i \in DOMAIN canon : canon[i] = 0}
  IN  {c \in [DOMAIN canon -> 0 .. Len(canon)] :
         \A i \in DOMAIN canon :
           IF i \in open THEN c[i] = 0 \/ (c[i] \in open /\ c[i] < i)
           ELSE c[i] = canon[i]}

Root(canon, i) ==
  LET root[j \in DOMAIN canon] == IF canon[j] = 0 THEN j ELSE root[canon[j]]
  IN  root[i]

SameSite(f, g) ==
  /\ Desc[f].file = Desc[g].file
  /\ Desc[f].lo <= Desc[g].hi /\ Desc[g].lo <= Desc[f].hi

BugAttached(list, canon) ==
  LET merged == {j \in DOMAIN list : canon[j] # 0}
      Absorbed(f) == {j \in merged : list[Root(canon, j)] = f}
  IN  [f \in Finding |->
         IF \E j \in merged : list[j] = f THEN {}
         ELSE duplicates[f]
              \cup {list[j] : j \in {k \in Absorbed(f) : ~SameSite(list[k], f)}}]

(* _attach_duplicates: what a canonical finding absorbs becomes a call     *)
(* site of it, with the call sites it had absorbed before, unless it is    *)
(* the canonical's own site.                                               *)
Attached(list, canon) ==
  LET merged == {j \in DOMAIN list : canon[j] # 0}
      Absorbed(f) == {j \in merged : list[Root(canon, j)] = f}
  IN  [f \in Finding |->
         IF \E j \in merged : list[j] = f THEN {}
         ELSE duplicates[f]
              \cup {list[j] : j \in {k \in Absorbed(f) : ~SameSite(list[k], f)}}
              \cup UNION {duplicates[list[j]] : j \in Absorbed(f)}]

Canonicals(list, canon) == Picked(list, {i \in DOMAIN list : canon[i] = 0})

(* The place (from 0) of a canonical finding in the list handed on.        *)
NewIndex(canon, i) == Cardinality({j \in 1 .. i - 1 : canon[j] = 0})

BugDuplicateDrops(list, canon, placed) ==
  LET places == Ascending({i \in DOMAIN list : canon[i] # 0 /\ canon[canon[i]] = 0})
  IN  [p \in DOMAIN places |->
         Drop(list[places[p]], "DUPLICATE",
              IF placed THEN {NewIndex(canon, Root(canon, places[p]))} ELSE {})]

(* The dropped entries of the absorbed, with the place of their root or    *)
(* without (prefilter has none; S5 clears the ones of its semantic pass).  *)
DuplicateDrops(list, canon, placed) ==
  LET places == Ascending({i \in DOMAIN list : canon[i] # 0})
  IN  [p \in DOMAIN places |->
         Drop(list[places[p]], "DUPLICATE",
              IF placed THEN {NewIndex(canon, Root(canon, places[p]))} ELSE {})]

(* The finding that takes the place of f.                                  *)
Absorber(list, canon, f) ==
  IF \E j \in DOMAIN list : list[j] = f
  THEN list[Root(canon, CHOOSE j \in DOMAIN list : list[j] = f)]
  ELSE f

Merge(list, canon) ==
  /\ duplicates' = Attached(list, canon)
  /\ into' = [f \in Finding |-> IF Absorber(list, canon, f) = f THEN into[f]
                                ELSE Absorber(list, canon, f)]
  /\ home' = [f \in Finding |-> Absorber(list, canon, home[f])]

(* s5_prefilter.run up to and with s7_dedup.prefilter.                     *)
Prefilter ==
  /\ phase = "prefilter"
  /\ LET keep == Picked(live, {i \in DOMAIN live : GateOf(live[i]) = "keep"})
         gone == Picked(live, {i \in DOMAIN live : GateOf(live[i]) # "keep"})
         canon == TrivialCanonical(keep)
     IN  /\ live' = Canonicals(keep, canon)
         /\ dropped' = [i \in DOMAIN gone |-> Drop(gone[i], GateOf(gone[i]), {})]
                       \o DuplicateDrops(keep, canon, FALSE)
         /\ evidence' = [f \in Finding |->
              IF \E i \in DOMAIN keep : keep[i] = f THEN Inferred(f) ELSE {}]
         /\ Merge(keep, canon)
         /\ phase' = IF Len(live') >= PreThreshold THEN "pre-dedup" ELSE "verify"
  /\ UNCHANGED <<asked, chunk, runs, votes, verified, band, app, report,
                 raw, meant>>

(* The semantic pass S5 adds when many findings are left.                  *)
PreVerifyDedup ==
  /\ phase = "pre-dedup"
  /\ \E canon \in SemanticCanonical(TrivialCanonical(live)) :
       /\ live' = Canonicals(live, canon)
       /\ dropped' = dropped \o DuplicateDrops(live, canon, FALSE)
       /\ Merge(live, canon)
  /\ phase' = "verify"
  /\ UNCHANGED <<asked, chunk, runs, votes, evidence, verified, band, app,
                 report, raw, meant>>

-----------------------------------------------------------------------------
(* S6: verdicts, in the order in which they come in.                       *)

Without(list, f) == Picked(list, {i \in DOMAIN list : list[i] # f})

(* What the loop of s6_verify.run makes of the end of a call: a true        *)
(* positive at or above the confidence gate, one below it, a false          *)
(* positive, a reply without a VERDICT line, a guardrail, an exception.     *)
Verdict(answer) ==
  CASE answer = "sure" -> "keep"
    [] answer = "doubtful" -> "UNCONFIRMED"
    [] answer = "refuted" -> "FALSE_POSITIVE"
    [] answer \in {"unreadable", "failed"} -> "VERIFY_ERROR"
    [] answer = "refused" -> "GUARDRAIL_BLOCKED"

(* The bands of cvss31_base_score; Info stands for a reply without vector. *)
BaseBands == 1 .. Info

Confirm ==
  /\ phase = "verify"
  /\ \E i \in DOMAIN live, b \in BaseBands :
       /\ verified' = Append(verified, live[i])
       /\ band' = [band EXCEPT ![live[i]] = b]
       /\ live' = Without(live, live[i])
  /\ \E answer \in Answers : Verdict(answer) = "keep"
  /\ UNCHANGED <<phase, asked, chunk, runs, votes, evidence, dropped,
                 duplicates, app, report, raw, into, home, meant>>

Refute ==
  /\ phase = "verify"
  /\ \E i \in DOMAIN live, answer \in Answers :
       /\ Verdict(answer) # "keep"
       /\ dropped' = Append(dropped, Drop(live[i], Verdict(answer), {}))
       /\ live' = Without(live, live[i])
  /\ UNCHANGED <<phase, asked, chunk, runs, votes, evidence, verified,
                 duplicates, band, app, report, raw, into, home, meant>>

-----------------------------------------------------------------------------
(* S7 on what was verified; with at most one finding it does nothing.      *)
Dedup ==
  /\ phase = "verify" /\ live = <<>>
  /\ \E canon \in SemanticCanonical(TrivialCanonical(verified)) :
       /\ live' = Canonicals(verified, canon)
       /\ dropped' = dropped \o DuplicateDrops(verified, canon, TRUE)
       /\ Merge(verified, canon)
  /\ phase' = "enrich"
  /\ UNCHANGED <<asked, chunk, runs, votes, evidence, verified, band, app,
                 report, raw, meant>>

-----------------------------------------------------------------------------
(* Between S7 and S8: _enrich_findings.                                    *)

BugOffensivePriority(f) ==
  LET vector == band[f] # Info
      av == IF vector THEN Desc[f].av ELSE "N"
      pr == IF vector THEN Desc[f].pr ELSE "L"
      says == Desc[f].says
      insideNet == app = "internal" \/ av # "N" \/ "internal" \in says
      highPriv == pr = "H" \/ "high_priv" \in says
      needsAuth == vector /\ pr \in {"L", "H"}
      noAuth == /\ ~needsAuth
                /\ \/ "no_auth" \in says
                   \/ pr = "N" /\ "obtainable_auth" \notin says /\ ~highPriv
      reachable == av = "N" /\ ~insideNet
  IN  IF "code_knowledge" \in says THEN 4
      ELSE IF ~reachable \/ highPriv THEN 3
      ELSE IF noAuth THEN 1 ELSE 2

(* offensive_priority_for. A vector is there when there is a band; without *)
(* one the defaults are AV:N and PR:L. `says` are the keyword lists of     *)
(* which the text holds a phrase. 1 is the top priority.                   *)
OffensivePriority(f) ==
  LET vector == band[f] # Info
      av == IF vector THEN Desc[f].av ELSE "N"
      pr == IF vector THEN Desc[f].pr ELSE "L"
      says == Desc[f].says
      external == app = "external"
      insideNet == app = "internal" \/ av # "N" \/ "internal" \in says
      highPriv == pr = "H" \/ "high_priv" \in says
      needsAuth == vector /\ pr \in {"L", "H"}
      noAuth == /\ ~needsAuth
                /\ \/ "no_auth" \in says
                   \/ pr = "N" /\ "obtainable_auth" \notin says /\ ~highPriv
      reachable == av = "N" /\ ~insideNet /\ external
  IN  IF "code_knowledge" \in says THEN 4
      ELSE IF ~reachable \/ highPriv THEN 3
      ELSE IF noAuth THEN 1 ELSE 2

(* An application's externally_facing cell in the CMDB export; anything    *)
(* but "yes" and a blank means no.                                         *)
Cell == {"yes", "no", "blank", "absent"}

(* lookup_app: a blank cell is inherited from the parent's row.            *)
Exposure(own, parent) ==
  LET cell == IF own = "blank" /\ parent # "absent" THEN parent ELSE own
  IN  CASE own = "absent" -> "unknown"
        [] own # "absent" /\ cell = "yes" -> "external"
        [] OTHER -> "internal"

(* vsvs_score: with CMDB data the environmental band takes the place of    *)
(* the base band; a finding without a vector keeps none.                   *)
ContextBands(f, exposure) ==
  IF exposure = "unknown" \/ band[f] = Info THEN {band[f]} ELSE BaseBands \ {Info}

Enrich ==
  /\ phase = "enrich"
  /\ app' \in {Exposure(own, parent) : own, parent \in Cell}
  /\ band' \in {b \in [Finding -> BaseBands] : \A f \in Finding :
       IF f \in Range(live) THEN b[f] \in ContextBands(f, app')
       ELSE b[f] = band[f]}
  /\ phase' = "chain"
  /\ UNCHANGED <<asked, chunk, runs, live, votes, evidence, verified, dropped,
                 duplicates, report, raw, into, home, meant>>

-----------------------------------------------------------------------------
(* S8: ranking and chains.                                                 *)

(* _final_severity: the band, or the model's label without one.            *)
FinalSeverity(f, label) == IF band[f] # Info THEN band[f] ELSE label

(* _severity_sort_order: the places of `ranked`, stably sorted by severity *)
(* and then by priority.                                                   *)
Sooner(a, b) ==
  \/ a.severity < b.severity
  \/ a.severity = b.severity /\ a.priority < b.priority
  \/ a.severity = b.severity /\ a.priority = b.priority /\ a.place < b.place

SortOrder(ranked, severity) ==
  LET keys == {[severity |-> severity[i], priority |-> OffensivePriority(ranked[i]),
                place |-> i] : i \in DOMAIN ranked}
      Nth(p) == CHOOSE k \in keys : Cardinality({m \in keys : Sooner(m, k)}) = p - 1
  IN  [p \in DOMAIN ranked |-> Nth(p).place]

BugHydrated(rank, label, steps, degraded) ==
  LET ranked == [i \in DOMAIN rank |-> live[rank[i]]]
      severity == [i \in DOMAIN rank |-> FinalSeverity(ranked[i], label[i])]
      order == SortOrder(ranked, severity)
      path == Picked(steps, {s \in DOMAIN steps : steps[s] \in DOMAIN live})
  IN  /\ report' = [ranked |-> [i \in DOMAIN order |-> ranked[order[i]]],
                    severity |-> [i \in DOMAIN order |-> severity[order[i]]],
                    chain |-> IF Len(path) < 2 THEN <<>> ELSE path,
                    degraded |-> degraded]
      /\ UNCHANGED dropped
      /\ meant' = IF Len(path) < 2 THEN <<>>
                  ELSE [i \in DOMAIN path |-> live[path[i]]]

(* The report that lists the places `rank` of `live`, with their labels.   *)
(* canonical indices and chain steps move to the sorted places.            *)
Hydrated(rank, label, steps, degraded) ==
  LET ranked == [i \in DOMAIN rank |-> live[rank[i]]]
      severity == [i \in DOMAIN rank |-> FinalSeverity(ranked[i], label[i])]
      order == SortOrder(ranked, severity)
      Sorted(place) == CHOOSE i \in DOMAIN order : rank[order[i]] = place
      path == Picked(steps, {s \in DOMAIN steps : steps[s] \in DOMAIN live})
  IN  /\ report' = [ranked |-> [i \in DOMAIN order |-> ranked[order[i]]],
                    severity |-> [i \in DOMAIN order |-> severity[order[i]]],
                    chain |-> IF Len(path) < 2 THEN <<>>
                              ELSE [i \in DOMAIN path |-> Sorted(path[i])],
                    degraded |-> degraded]
      /\ dropped' = [i \in DOMAIN dropped |->
                       [dropped[i] EXCEPT !.canonical =
                          {Sorted(c + 1) - 1 : c \in @}]]
      /\ meant' = IF Len(path) < 2 THEN <<>>
                  ELSE [i \in DOMAIN path |-> live[path[i]]]

(* The model's ranking: distinct valid indices, whatever it left out comes *)
(* after them in order.                                                    *)
Completed(named) ==
  named \o Ascending(DOMAIN live \ Range(named))

NamedRankings ==
  {s \in UNION {[1 .. n -> DOMAIN live] : n \in 0 .. MaxNamed} :
     IsInjective(s)}

(* The chain of the reply: two valid steps with an index between them that *)
(* is not in the list (0 here), or fewer than two valid ones.              *)
ChainReplies ==
  {<<0>>} \cup {<<a, 0, b>> : a, b \in DOMAIN live}

(* No finding is left: no call, an empty report.                           *)
NothingToChain ==
  /\ phase = "chain" /\ live = <<>>
  /\ phase' = "done"
  /\ UNCHANGED <<asked, chunk, runs, live, votes, evidence, verified, dropped,
                 duplicates, band, app, report, raw, into, home, meant>>

(* The reply is hydrated.                                                  *)
Chained ==
  /\ phase = "chain" /\ live # <<>>
  /\ \E named \in NamedRankings, steps \in ChainReplies :
       \E label \in [1 .. Len(named) -> {1, Info}] :
         Hydrated(Completed(named),
                  [i \in 1 .. Len(live) |-> IF i <= Len(named) THEN label[i]
                                            ELSE Info],
                  steps, FALSE)
  /\ phase' = "done"
  /\ UNCHANGED <<asked, chunk, runs, live, votes, evidence, verified,
                 duplicates, band, app, raw, into, home>>

(* The call fails, or its reply cannot be parsed or hydrated.              *)
Unranked ==
  /\ phase = "chain" /\ live # <<>>
  /\ Hydrated([i \in DOMAIN live |-> i], [i \in DOMAIN live |-> Info],
              <<>>, TRUE)
  /\ phase' = "done"
  /\ UNCHANGED <<asked, chunk, runs, live, votes, evidence, verified,
                 duplicates, band, app, raw, into, home>>

Rest == phase = "done" /\ UNCHANGED vars

Next ==
  \/ \E c \in Chunk : BeginChunk(c)
  \/ SingleRun \/ EndChunk \/ CollapseAcrossChunks
  \/ Prefilter \/ PreVerifyDedup
  \/ Confirm \/ Refute
  \/ Dedup \/ Enrich
  \/ NothingToChain \/ Chained \/ Unranked
  \/ Rest

Spec == Init /\ [][Next]_vars

-----------------------------------------------------------------------------
(* What FinalReport.to_markdown says of the list: counts and, per dropped  *)
(* duplicate, the number of the finding it duplicates.                     *)
Tally(reasons) ==
  Cardinality({i \in DOMAIN dropped : dropped[i].reason \in reasons})

Counts ==
  [tp |-> Len(report.ranked),
   fp |-> Tally({"FALSE_POSITIVE"}),
   dup |-> Tally({"DUPLICATE"}),
   verr |-> Tally({"VERIFY_ERROR", "GUARDRAIL_BLOCKED"}),
   other |-> Tally({"EXCLUDED", "UNCONFIRMED"})]

Reported == Range(report.ranked)
DroppedOnes == {dropped[i].finding : i \in DOMAIN dropped}

(* A finding of the deep dive is reported or dropped for a reason, never   *)
(* both, never twice, never neither: the counts of the report add up to    *)
(* the raw count it opens with (conservation from S4 to the report).       *)
Accounted ==
  phase = "done" =>
    /\ raw = Counts.tp + Counts.fp + Counts.dup + Counts.verr + Counts.other
    /\ Reported \cap DroppedOnes = {}
    /\ Cardinality(DroppedOnes) = Len(dropped)
    /\ IsInjective(report.ranked)

(* Positions survive the sort: "DUP of #N" names the finding that absorbed *)
(* the duplicate in the end, and the steps of a chain are the findings the *)
(* model meant (the remapping of S8 after S7's and its own indices).       *)
IndicesHome ==
  phase = "done" =>
    /\ \A i \in DOMAIN dropped : \A c \in dropped[i].canonical :
         report.ranked[c + 1] = home[dropped[i].finding]
    /\ [i \in DOMAIN report.chain |-> report.ranked[report.chain[i]]] = meant

(* No call site is lost with its duplicate: a finding that was absorbed is *)
(* a call site of the one that stands for it now, however many passes it   *)
(* was handed through, or overlaps the finding that absorbed it.  (When    *)
(* that one is absorbed in its turn, what stands for both then need not    *)
(* overlap the first: _attach_duplicates compares ranges pass by pass.)    *)
SitesKept ==
  \A f \in Finding : into[f] # NoOne =>
    f \in duplicates[home[f]] \/ SameSite(f, into[f])

(* A finding is ranked as exploitable from outside (P1, P2) only when the  *)
(* CMDB says that the application is exposed.                              *)
ExposureBacked ==
  phase = "done" =>
    \A f \in Reported : OffensivePriority(f) <= 2 => app = "external"
=============================================================================
