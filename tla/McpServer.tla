----------------------------- MODULE McpServer ------------------------------
(***************************************************************************)
(* The MCP server (mcp/server.py): it registers its tools, lets plugins    *)
(* register tools and roles, then answers the lines of one client, one     *)
(* after the other, until the input ends or an answer cannot be written.   *)
(***************************************************************************)
EXTENDS RolePolicy

CONSTANTS
    Builtin,        \* tools the server registers itself
    KindOf,         \* the handler behind each tool
    Policies,       \* policies the configuration may hold
    PluginTools,    \* tools a plugin may register, with the roles it asks for
    PluginRoles,    \* definitions of a role a plugin may register
    HostRoles,      \* values of HOTPASS_MCP_ROLE
    Requests,       \* lines the client may send
    None,           \* no role, no tool
    MaxPlugins,     \* bound: registrations by plugins
    MaxRequests     \* bound: lines the client sends

VARIABLES
    policy,     \* role_policy
    registry,   \* _tool_registry, the names in it
    hostRole,   \* fixed: HOTPASS_MCP_ROLE, or None
    plugged,    \* registrations by plugins so far
    pc,         \* "loading", "reading", "answering", "running", "stopped"
    request,    \* the line in hand
    lines,      \* lines read
    answers     \* answers written: to which line, with what

config == <<policy, registry, hostRole, plugged>>
vars == <<config, pc, request, lines, answers>>

RequestType ==
    [what : {"call", "list", "other", "text", "value"}, role : Names \cup {None},
     own : Names \cup {None}, tool : Tools \cup {None}]

Payloads == [roles : SUBSET Names, default : Names, defs : [Names -> Definitions]]
Kinds == {"command", "provenance", "research", "supervision", "infrastructure", "gate", "plugin"}

ASSUME McpAssumption ==
    /\ Builtin \subseteq Tools /\ MaxPlugins \in Nat /\ MaxRequests \in Nat
    /\ Policies \subseteq Payloads /\ PluginRoles \subseteq Names \X Definitions
    /\ PluginTools \subseteq Tools \X SUBSET Names /\ HostRoles \subseteq Names \cup {None}
    /\ Requests \subseteq RequestType /\ None \notin Names \cup Tools
    /\ KindOf \in [Tools -> Kinds]

Replies == {"listing", "result", "refusal", "bad params", "unknown method",
            "internal error", "parse error"}

McpTypeOK ==
    /\ policy \in [roles : SUBSET Names, default : Names, defs : [Names -> Definitions],
                   overrides : [Tools -> (SUBSET Names) \cup {NoOverride}]]
    /\ policy.default \in policy.roles
    /\ registry \in SUBSET Tools
    /\ hostRole \in Names \cup {None}
    /\ plugged \in 0..MaxPlugins
    /\ pc \in {"loading", "reading", "answering", "running", "stopped"}
    /\ request \in RequestType
    /\ lines \in 0..MaxRequests
    /\ answers \in Seq([to : 0..lines, with : Replies])

NoRequest == [what |-> "other", role |-> None, own |-> None, tool |-> None]

\* from_payload: a default role that is not declared becomes a role that may
\* do nothing; then the server's own tools are registered, for everyone.
FromPayload(payload) ==
    [roles |-> payload.roles \cup {payload.default}, default |-> payload.default,
     defs |-> [n \in Names |-> IF n \in payload.roles THEN payload.defs[n]
                               ELSE [allow |-> {}, deny |-> {}, all |-> FALSE, inherits |-> <<>>]],
     overrides |-> [t \in Tools |-> NoOverride]]

Init ==
    /\ policy \in {FromPayload(p) : p \in Policies}
    /\ registry = Builtin
    /\ hostRole \in HostRoles
    /\ plugged = 0 /\ pc = "loading"
    /\ request = NoRequest /\ lines = 0 /\ answers = <<>>

-----------------------------------------------------------------------------
(* Start-up *)

\* register_tool_override: without a declared role among those asked for, the
\* tool is for everyone whose role allows it.
Override(tool, roles) == IF roles = {} THEN NoOverride ELSE roles

\* register_tool, of a plugin: under a new name or over a tool there is.
RegisterTool(tool, roles) ==
    /\ pc = "loading" /\ plugged < MaxPlugins
    /\ plugged' = plugged + 1
    /\ registry' = registry \cup {tool}
    /\ policy' = [policy EXCEPT !.overrides[tool] = Override(tool, roles \cap policy.roles)]
    /\ UNCHANGED <<hostRole, pc, request, lines, answers>>

\* register_role, of a plugin: a new role or another meaning of one.
RegisterRole(name, def) ==
    /\ pc = "loading" /\ plugged < MaxPlugins
    /\ plugged' = plugged + 1
    /\ policy' = [policy EXCEPT !.roles = @ \cup {name}, !.defs[name] = def]
    /\ UNCHANGED <<registry, hostRole, pc, request, lines, answers>>

\* A plugin module that raises while it registers ends the server; one found
\* by its entry point only ends the loading of the others.
EndLoading ==
    /\ pc = "loading"
    /\ pc' \in {"reading", "stopped"}
    /\ UNCHANGED <<config, request, lines, answers>>

-----------------------------------------------------------------------------
(* Requests *)

ReadLine(r) ==
    /\ pc = "reading" /\ lines < MaxRequests
    /\ request' = r /\ lines' = lines + 1
    /\ pc' = "answering"
    /\ UNCHANGED <<config, answers>>

\* End of the input, or an interrupt.
Stop ==
    /\ pc = "reading"
    /\ pc' = "stopped"
    /\ UNCHANGED <<config, request, lines, answers>>

\* _resolve_role, and the default of is_allowed: the arguments' _role, which
\* only calls have, then the parameters' role, the environment's, the policy's.
Role(r) ==
    IF r.what = "call" /\ r.own # None THEN r.own
    ELSE IF r.role # None THEN r.role
    ELSE IF hostRole # None THEN hostRole ELSE policy.default

\* The answer is written and the next line awaited.
Reply(with) ==
    /\ answers' = Append(answers, [to |-> lines, with |-> with])
    /\ pc' = "reading"
    /\ UNCHANGED <<config, request, lines>>

\* tools/list: the tools in the registry that the role may call.
ListTools ==
    /\ pc = "answering" /\ request.what = "list"
    /\ Reply("listing")

Refuse ==
    /\ pc = "answering" /\ request.what = "call" /\ request.tool # None
    /\ ~IsAllowed(policy, Role(request), request.tool)
    /\ Reply("refusal")

Permitted(r) == IsAllowed(policy, Role(r), r.tool)

\* _execute_tool
Execute ==
    /\ pc = "answering" /\ request.what = "call" /\ request.tool \in registry
    /\ Permitted(request)
    /\ pc' = "running"
    /\ UNCHANGED <<config, request, lines, answers>>

\* Not the code: an unknown method is passed over.
AnswerErrorOfCalls ==
    /\ pc = "answering"
    /\ \/ request.what = "text" /\ Reply("parse error")
       \/ request.what = "call" /\ request.tool = None /\ Reply("bad params")

\* What is not a request, or not of a tool there is, is answered with an error.
AnswerError ==
    /\ pc = "answering"
    /\ \/ request.what = "text" /\ Reply("parse error")
       \/ request.what = "other" /\ Reply("unknown method")
       \/ request.what = "call" /\ request.tool = None /\ Reply("bad params")
       \/ /\ request.what = "call" /\ request.tool \in Tools \ registry
          /\ IsAllowed(policy, Role(request), request.tool)
          /\ Reply("internal error")

\* JSON that is not an object ends the server, unanswered.
ReadValue ==
    /\ pc = "answering" /\ request.what = "value"
    /\ pc' = "stopped"
    /\ UNCHANGED <<config, request, lines, answers>>

-----------------------------------------------------------------------------
(* Handlers *)

\* refine, enrich, qa: a command and its exit code; a missing argument raises.
CommandOutcomes == {"result", "internal error"}

\* explain_provenance catches everything, but an index it looked up by the
\* row's identifier cannot be encoded.
ProvenanceOutcomes == {"result", "unwritable"}

\* plan.research, search, crawl (Research): results in this process, of values
\* from the dataset.
ResearchOutcomes == {"result", "internal error", "unwritable"}

\* pipeline.supervise, agent.workflow
SupervisionOutcomes == {"result", "internal error"}

\* setup, net, ctx, env, aws, arc: commands.
InfrastructureOutcomes == {"result", "internal error"}

\* ta.check: the JSON of the gates, or their output.
GateOutcomes == {"result", "internal error"}

Outcomes(kind) ==
    CASE kind = "command" -> CommandOutcomes
      [] kind = "provenance" -> ProvenanceOutcomes
      [] kind = "research" -> ResearchOutcomes
      [] kind = "supervision" -> SupervisionOutcomes
      [] kind = "infrastructure" -> InfrastructureOutcomes
      [] kind = "gate" -> GateOutcomes
      [] kind = "plugin" -> {"result", "internal error", "unwritable"}

\* Not the code: a handler that raised is given up without an answer.
FinishSilently ==
    /\ pc = "running"
    /\ \E with \in Outcomes(KindOf[request.tool]) \ {"unwritable"} :
           IF with = "result" THEN Reply("result")
           ELSE pc' = "reading" /\ UNCHANGED <<config, request, lines, answers>>

Finish ==
    /\ pc = "running"
    /\ \E with \in Outcomes(KindOf[request.tool]) \ {"unwritable"} : Reply(with)

\* json.dumps raises outside handle_request: the server ends.
CannotWrite ==
    /\ pc = "running" /\ "unwritable" \in Outcomes(KindOf[request.tool])
    /\ pc' = "stopped"
    /\ UNCHANGED <<config, request, lines, answers>>

Handle ==
    \/ ListTools \/ Refuse \/ Execute \/ AnswerError \/ ReadValue \/ Finish \/ CannotWrite

Next ==
    \/ \E p \in PluginTools : RegisterTool(p[1], p[2])
    \/ \E p \in PluginRoles : RegisterRole(p[1], p[2])
    \/ EndLoading \/ Stop \/ Handle
    \/ \E r \in Requests : ReadLine(r)

\* The server goes on once it has a line; commands it waits for end.
Spec == Init /\ [][Next]_vars /\ WF_vars(Handle)

-----------------------------------------------------------------------------
(* Properties *)

\* Whatever roles inherit from each other, in circles or from roles nobody
\* declared, before and after plugins registered theirs, the walk with its
\* shared set of visited roles grants what the ancestors do and lets any
\* denial among them prevail (access.py:31-82).
PolicyIsItsReference ==
    \A n \in Names, t \in Tools : IsAllowed(policy, n, t) <=> MayCall(policy, n, t)

\* Each line is answered once, in order, and only the one that ended the
\* server, if any, is not.
OneAnswerEach ==
    /\ \A i \in 1..Len(answers) : answers[i].to = i
    /\ pc = "reading" => Len(answers) = lines
    /\ lines - Len(answers) \in {0, 1}

\* A line that was read gets its answer unless it ends the server.
LinesAreAnswered ==
    \A i \in 1..MaxRequests : lines = i ~> Len(answers) >= i \/ pc = "stopped"

=============================================================================
