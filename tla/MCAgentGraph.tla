---------------------------- MODULE MCAgentGraph ----------------------------
(* Instances of AgentGraph for TLC. *)
EXTENDS AgentGraph

Registry(network, other, file, search) ==
    [t \in Tools |-> CASE t = "other" -> other [] t = "read_file" -> file
                       [] t = "web_search" -> search [] OTHER -> network]

\* Every state of the MCP servers beside the plugins as they are shipped, and
\* beside plugins that are disabled, missing or ask for confirmation.
AllRegistries ==
    {Registry(n, o, f, s) : n \in {"absent", "guarded"},
        o \in {"absent", "free", "guarded"}, f \in {"free"}, s \in {"free"}}
    \cup {Registry("guarded", "free", f, s) : f \in Manifests, s \in Manifests}

\* One message for each branch of the planner, and mixed ones whose order matters.
AllMessages ==
    {{}, {"github", "url"}, {"read_file"}, {"read_file", "url", "fetch"}, {"url"},
     {"huggingface"}, {"huggingface", "url", "fetch"}, {"hub", "web_search"},
     {"web_search"}, {"inventory"}, {"other"}, {"other", "inventory", "url"}}
=============================================================================
