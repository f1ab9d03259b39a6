----------------------------- MODULE MCApiCalls -----------------------------
(* Two calls to one model.  An OpenAI model may take the temperature or    *)
(* not, either name of the token limit or both, and a large limit or not;  *)
(* an Anthropic model is listed as taking no temperature or is found out.  *)
EXTENDS ApiCalls

Prompt(temp, think, big) ==
  [op |-> "prompt", temp |-> temp, think |-> think, big |-> big, tools |-> {}]
Agentic(tools) ==
  [op |-> "agentic", temp |-> FALSE, think |-> FALSE, big |-> FALSE, tools |-> tools]

OpenAIJobs == {Prompt(TRUE, FALSE, FALSE), Prompt(TRUE, FALSE, TRUE),
               Agentic({"Read"}), Agentic({"Read", "Bash"})}
SdkJobs == {Prompt(TRUE, FALSE, FALSE), Prompt(TRUE, TRUE, FALSE),
            Agentic({"Read"}), Agentic({"Read", "Edit", "Bash"})}

OpenAISites ==
  {[via |-> "openai", takes |-> names \cup temp, room |-> room, listed |-> FALSE,
    jobs |-> OpenAIJobs] :
      names \in (SUBSET {"max_completion_tokens", "max_tokens"}) \ {{}},
      temp \in {{}, {"temperature"}}, room \in BOOLEAN}
SdkSites ==
  {[via |-> "sdk", takes |-> {"max_tokens"} \cup more, room |-> TRUE, listed |-> listed,
    jobs |-> SdkJobs] :
      more \in SUBSET {"temperature", "thinking"}, listed \in BOOLEAN}

MCSites == OpenAISites \cup SdkSites
=============================================================================
