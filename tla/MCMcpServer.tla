---------------------------- MODULE MCMcpServer -----------------------------
(* Values for TLC: roles that inherit in a diamond, in a circle, from a role *)
(* nobody declares, with a denial at the far end.                            *)
EXTENDS McpServer

Def(allow, deny, all, inherits) ==
    [allow |-> allow, deny |-> deny, all |-> all, inherits |-> inherits]

PolicyOf(roles, default, op, obs, res) ==
    [roles |-> roles, default |-> default,
     defs |-> [n \in Names |-> CASE n = "operator" -> op [] n = "observer" -> obs [] OTHER -> res]]

SomePolicies ==
    {PolicyOf({"operator", "observer"}, "operator",
              Def({"refine"}, {}, FALSE, <<"observer">>), Def({"provenance"}, {}, FALSE, <<>>),
              Def({}, {}, FALSE, <<>>)),
     PolicyOf(Names, "observer",
              Def({}, {}, FALSE, <<"researcher", "observer">>),
              Def({"refine"}, {}, FALSE, <<"operator">>),
              Def({}, {"provenance"}, TRUE, <<"observer", "operator">>)),
     PolicyOf({"observer"}, "researcher",
              Def({}, {}, FALSE, <<>>), Def({}, {}, TRUE, <<"operator", "researcher">>),
              Def({}, {}, FALSE, <<>>))}
SomePlugins == {<<"refine", {"observer"}>>, <<"refine", {"operator", "observer"}>>,
                <<"extra", {"researcher"}>>, <<"extra", {}>>}
SomeRoles == {<<n, Def({"extra"}, {"refine"}, FALSE, <<"observer">>)>> : n \in {"observer", "researcher"}}
SomeKinds == [t \in Tools |-> CASE t = "refine" -> "command"
                                [] t = "provenance" -> "provenance" [] OTHER -> "plugin"]
Req(what, role, own, tool) == [what |-> what, role |-> role, own |-> own, tool |-> tool]
SomeRequests ==
    {Req("call", "operator", None, t) : t \in Tools \cup {None}} \cup
    {Req("call", "operator", "observer", "refine"), Req("call", None, "researcher", "provenance"),
     Req("call", None, None, "refine"), Req("list", None, None, None),
     Req("list", "operator", "observer", None),
     Req("text", None, None, None), Req("value", None, None, None), Req("other", None, None, None)}

=============================================================================
