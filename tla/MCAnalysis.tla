----------------------------- MODULE MCAnalysis -----------------------------
(* A small repository: a Python view and its store, too long for one chunk *)
(* of review, a Java service and what it runs, short enough, a page in a   *)
(* language the engine does not parse, deployment files, documents.        *)
EXTENDS Analysis

Store == "app/store.py"
View == "app/view.py"
DepA == "dep/dev/a.yml"
DepB == "dep/prod/b.yml"
DepC == "dep/qa/c.yml"
Guide == "docs/guide.md"
Runner == "java/Runner.java"
Svc == "java/Svc.java"
OpsD == "ops/dev/d.yml"
Test == "tests/test.py"
Page == "web/page.rb"

MCFiles == <<Store, View, DepA, DepB, DepC, Guide, Runner, Svc, OpsD, Test, Page>>
Configs == {DepA, DepB, DepC, OpsD}
MCLang == [f \in ToSet(MCFiles) |-> 
  CASE f \in {Store, View, Test} -> "python" [] f \in {Runner, Svc} -> "java"
    [] f = Page -> "ruby" [] OTHER -> ""]
MCPath ==
  (Store :> <<"app", "store">>) @@ (View :> <<"app", "view">>)
    @@ (DepA :> <<"dep", "dev", "a">>) @@ (DepB :> <<"dep", "prod", "b">>)
    @@ (DepC :> <<"dep", "qa", "c">>) @@ (Guide :> <<"docs", "guide">>)
    @@ (Runner :> <<"java", "Runner">>) @@ (Svc :> <<"java", "Svc">>)
    @@ (OpsD :> <<"ops", "dev", "d">>) @@ (Test :> <<"tests", "test">>)
    @@ (Page :> <<"web", "page">>)
MCExt == [f \in ToSet(MCFiles) |-> 
  CASE f \in {Store, View, Test} -> "py" [] f \in {Runner, Svc} -> "java" [] f = Page -> "rb"
    [] f = Guide -> "md" [] OTHER -> "yml"]
MCBytes == [f \in ToSet(MCFiles) |-> IF f = DepC THEN 2 ELSE 1]
MCLoc == [f \in ToSet(MCFiles) |-> IF f = View THEN 32 ELSE 12]
MCShape == [f \in Configs |-> "deploy"]

Fn(f, n, lo, hi, marks) == [file |-> f, name |-> n, lo |-> lo, hi |-> hi, marks |-> marks]
MCFns == <<Fn(Store, "save", 1, 4, {}), Fn(Store, "wrap", 6, 8, {}),
           Fn(View, "view", 1, 14, {"request"}), Fn(View, "items", 24, 30, {}),
           Fn(Runner, "run", 1, 5, {}), Fn(Svc, "view", 1, 9, {"@RequestParam"}),
           Fn(Test, "view", 1, 5, {}), Fn(Page, "page", 2, 6, {})>>
MCImports == [f \in ToSet(MCFiles) |-> 
  CASE f = View -> ("request" :> <<"flask", "request">>) @@ ("os" :> <<"os">>)
                     @@ ("save" :> <<"app", "store">>)
    [] f = Store -> "db" :> <<"sqlite3">>
    [] f \in {Runner, Svc} -> "Runtime" :> <<"java", "lang", "Runtime">>
    [] OTHER -> <<>>]

Stmt(f, fn, line, op, recv, name, args, to) ==
  [file |-> f, fn |-> fn, line |-> line, op |-> op, recv |-> recv, name |-> name,
   args |-> args, to |-> to, markup |-> FALSE]
Call(f, fn, line, recv, name, args, to) == Stmt(f, fn, line, "call", recv, name, args, to)
InView(line, op, recv, name, args, to) == Stmt(View, "view", line, op, recv, name, args, to)

Taken == InView(2, "call", "request", "get", <<>>, "x")
Copied == InView(3, "copy", "", "", <<"x">>, "y")
FieldSet == InView(8, "set", "o", "f", <<"y">>, "")
FieldGet == InView(7, "get", "o", "f", <<>>, "z")
Wrapped == InView(5, "call", "", "wrap", <<"z">>, "w")
Second == InView(6, "set", "o", "g", <<"w">>, "")
SecondGet == InView(9, "get", "o", "g", <<>>, "v")
Cleaned == InView(10, "call", "", "escape", <<"y">>, "q")
RanClean == InView(13, "call", "os", "system", <<"q">>, "")
Ran == InView(11, "call", "os", "system", <<"v">>, "")
Saved == InView(12, "call", "", "save", <<"x">>, "")
Listed == Call(View, "items", 25, "request", "get", <<>>, "u")
ListSaved == Call(View, "items", 29, "", "save", <<"u">>, "")
Stored == Call(Store, "save", 3, "db", "execute", <<"p">>, "")
GivenBack == Stmt(Store, "wrap", 7, "return", "", "", <<"r">>, "")
Asked == Call(Svc, "view", 2, "req", "getParameter", <<>>, "s")
Setter == Call(Svc, "view", 3, "o", "setName", <<"s">>, "")
Getter == Call(Svc, "view", 4, "o", "getName", <<>>, "t")
Spawned == Call(Svc, "view", 5, "Runtime", "exec", <<"t">>, "")
Handed == Call(Svc, "view", 6, "", "run", <<"t">>, "")
Launched == Call(Runner, "run", 3, "Runtime", "exec", <<"p">>, "")
Tested == Call(Test, "view", 2, "request", "get", <<>>, "x")
Paged == Call(Page, "page", 3, "", "save", <<"h">>, "")

MCProgram == <<Stored, GivenBack, Taken, Copied, FieldSet, FieldGet, Wrapped, Second,
               SecondGet, Cleaned, Ran, Saved, RanClean, Listed, ListSaved, Launched,
               Asked, Setter, Getter, Spawned, Handed, Tested, Paged>>
Always == {Stored, Taken, FieldGet, SecondGet, Ran, RanClean, Listed, Asked, Setter, Getter,
           Spawned, Handed, Launched, Tested, Paged}

Source(langs, mod, methods, kind) ==
  [form |-> "attr", langs |-> langs, module |-> mod, class |-> "", methods |-> methods,
   kind |-> kind, cwe |-> "", family |-> ""]
MCSources == <<Source({"python"}, <<"request">>, {"get"}, "network"),
               Source({"java"}, <<"req">>, {"getParameter"}, "network")>>
SinkSpec(form, langs, mod, class, methods, kind, cwe) ==
  [form |-> form, langs |-> langs, module |-> mod, class |-> class, methods |-> methods,
   kind |-> kind, cwe |-> cwe, family |-> kind]
MCSinks == <<SinkSpec("qualified", {"python"}, <<"os">>, "", {"system"}, "exec", "78"),
             SinkSpec("attr", {"python"}, <<"db">>, "", {"execute"}, "sql", "89"),
             SinkSpec("qualified", {"java"}, <<"x">>, "Runtime", {"exec"}, "exec", "78")>>
MCCompat == "network" :> {"exec", "sql"}
MCAccessor == ("setName" :> "name") @@ ("getName" :> "name")

Quiet == [f \in Configs |-> [signals |-> {}, stays |-> TRUE]]
Found == [signals : SUBSET {"key", "debug"}, stays : BOOLEAN]
Profile(mode, gate, slice) == [mode |-> mode, gate |-> gate, slice |-> slice]
Default == Profile("full", FALSE, "file")
Taint == Profile("gap_fill", TRUE, "function")
MCCases ==
  [on : {Always \cup s : s \in SUBSET (ToSet(MCProgram) \ Always)}, conf : {Quiet},
   profile : {Default, Taint}]
  \cup [on : {Always}, profile : {Taint},
        conf : {[Quiet EXCEPT ![DepA] = a, ![DepB] = b, ![DepC] = c] : 
                  a, b \in Found, c \in {d \in Found : d.stays}}]

Told == [sinks |-> <<[file |-> <<"store">>, line |-> 3, fn |-> "save"],
                     [file |-> <<"tests", "test">>, line |-> 2, fn |-> "view"]>>,
         entryPoints |-> <<[file |-> <<"web", "page">>, fn |-> "page", kind |-> "network",
                            unauth |-> TRUE]>>,
         modules |-> <<<<<<"app", "view">>, <<"web", "page">>>>>>, 
         calls |-> {<<"page", "save">>, <<"page", "gone">>}]
MCAnswers == {NoAnswer, Told}
MCPlans == {<<[files |-> <<<<"lib", "view">>, <<"gone">>, <<"app", "store">>>>, 
               focus |-> {"view"}, threat |-> "T1"],
              [files |-> <<<<"docs", "guide">>>>, focus |-> {}, threat |-> "T9"]>>}
MCThreats == <<[id |-> "T1", surface |-> "save", tokens |-> {}, 
                specialists |-> {"crypto"}, files |-> {DepB}],
               [id |-> "T2", surface |-> "page", tokens |-> {"items"},
                specialists |-> {"access-control"}, files |-> {}]>>
MCSpecialists == <<"crypto", "logic-bug", "access-control", "batch-etl", "iac">>
MCSeenBy == [s \in {"crypto", "deserialization", "batch-etl"} |-> 
               IF s = "crypto" THEN {Store} ELSE {}]
=============================================================================
