---------------------------- MODULE MCScanCommand ----------------------------
(* The shipped profiles, and some that mix backends.                       *)
EXTENDS ScanCommand

Role(id, via) == [id |-> id, via |-> via, provider |-> None]
Deep(id, provider) == [id |-> id, via |-> "deepagents", provider |-> provider]

(* Detection on one backend, some roles on others.                         *)
Profile(id, via, others) ==
  [models |-> [r \in DetectionRoles \cup DOMAIN others |->
                 IF r \in DOMAIN others THEN others[r] ELSE Role(id, via)],
   panel |-> "validate" \in DOMAIN others, keys |-> {}, shell |-> {},
   remediate |-> TRUE, validate |-> TRUE]

After(remediate, validate) ==
  [r \in POST_SCAN_ROLES |-> IF r = "remediate" THEN remediate ELSE validate]

Default == Profile("claude", "cli", After(Deep("claude", "anthropic"), Deep("claude", "anthropic")))
Sdk == Profile("claude", "sdk", After(Role("claude", "sdk"), Role("claude", "sdk")))
Codex == [Profile("gpt", "codex", After(Role("gpt", "codex"), Role("gpt", "codex")))
            EXCEPT !.remediate = FALSE, !.validate = FALSE]
Full == [Profile("claude", "sdk",
            [r \in {"autoexclude", "threatmodel", "decompose", "verify", "chain", "remediate",
                     "validate"} |->
               IF r \in {"autoexclude", "chain"} THEN Role("claude", "cli")
               ELSE IF r \in POST_SCAN_ROLES THEN Role("claude", "sdk") ELSE Role("gpt", "openai")])
           EXCEPT !.keys = {"openai"}]
Mixed == [Profile("claude", "cli", After(Role("gpt", "openai"), Deep("local", "anthropic")))
            EXCEPT !.shell = {"verify"}]
Shells == [Profile("claude", "sdk", [r \in {"remediate"} |-> Role("gpt", "codex")])
             EXCEPT !.shell = {"verify"}]
Delegating == [Profile("claude", "cli", [r \in {"verify"} |-> Role("claude", "sdk")])
                 EXCEPT !.shell = {"verify"}]
Wrong == Profile("claude", "cli", [r \in {"chain"} |-> Deep("claude", None)])

Pairs == {[id |-> "claude", via |-> v] : v \in {"cli", "sdk", "deepagents", "session"}}
         \cup {[id |-> "gpt", via |-> v] : v \in {"openai", "codex"}}
         \cup {[id |-> "local", via |-> "deepagents"]}

Outfits == {{}, {"claude"}, {"codex", "codex login"}, {"claude", "codex"},
            {"ANTHROPIC_SDK_API_KEY", "codex", "codex login"},
            {"ANTHROPIC_API_KEY"}, {"ANTHROPIC_SDK_API_KEY"},
            {"bundled claude", "ANTHROPIC_API_KEY", "codex", "codex login"},
            {"claude", "ANTHROPIC_SDK_API_KEY", "codex", "codex login"},
            {"claude", "ANTHROPIC_AUTH_TOKEN"}, {"claude", "OPENAI_API_KEY"},
            {"claude", "ANTHROPIC_API_KEY", "a JWT"},
            {"claude", "ANTHROPIC_API_KEY", "a JWT", "ANTHROPIC_BASE_URL"},
            {"claude", "ANTHROPIC_SDK_API_KEY", "OPENAI_API_KEY"}}

(* At most one thing is broken.                                            *)
MCMachines ==
  {[has |-> h, up |-> Pairs, deaf |-> d] : h \in Outfits, d \in {{}, {"cli"}, {"session"}}}
  \cup {[has |-> h, up |-> Pairs \ {t}, deaf |-> {}] : h \in Outfits, t \in Pairs}

Line(command, config) ==
  [command |-> command, config |-> config, inTarget |-> FALSE, optIn |-> FALSE,
   overlay |-> "none", skipPreflight |-> FALSE, target |-> "repo", resume |-> FALSE,
   stop |-> "never", force |-> FALSE, remediate |-> FALSE]

Profiles == {Default, Sdk, Codex, Full, Mixed, Shells, Delegating, Wrong}

MCArgs ==
  {Line(c, p) : c \in {"scan", "setup", "doctor"}, p \in Profiles}
  \cup {[Line("scan", Codex) EXCEPT !.inTarget = TRUE, !.optIn = o] : o \in BOOLEAN}
  \cup {[Line("scan", Default) EXCEPT !.resume = TRUE, !.force = f] : f \in BOOLEAN}
  \cup {[Line("scan", Sdk) EXCEPT !.skipPreflight = TRUE, !.remediate = TRUE],
        [Line("scan", Default) EXCEPT !.overlay = "bad"],
        [Line("scan", Default) EXCEPT !.target = "nothing"],
        [Line("scan", Default) EXCEPT !.target = "around the state", !.resume = TRUE]}
  \cup {[Line("scan", Default) EXCEPT !.stop = s] : s \in {"s7", "s9", "s10"}}
=============================================================================
