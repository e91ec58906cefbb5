----------------------------- MODULE RolePolicy -----------------------------
(***************************************************************************)
(* The role policy of the MCP server (mcp/access.py): which role may call  *)
(* which tool.  A policy is a record: the declared roles, what each allows *)
(* and denies and the roles it inherits from, in order, and the tools that *)
(* are kept for some roles (no entry: NoOverride).                         *)
(***************************************************************************)
EXTENDS Naturals, Sequences, FiniteSets

CONSTANTS
    Names,      \* names of roles, declared or not
    Tools,      \* names of tools
    NoOverride  \* a tool that is not kept for some roles

\* A policy file and the plugins name finitely many roles.
ASSUME NamesAreFinite == IsFiniteSet(Names)

Definitions == [allow : SUBSET Tools, deny : SUBSET Tools, all : BOOLEAN, inherits : Seq(Names)]

\* Not the code: a role has what its parents have, and no more.
CollectedFromParents(defs, roles, role) ==
    {role} \cup {defs[role].inherits[i] : i \in 1..Len(defs[role].inherits)}

\* _collect_permissions: depth first through the first i parents of r, each
\* role once, from the set visited so far to the set visited after.
Walk(defs, roles) ==
    LET walk[at \in Names \X Nat \X SUBSET Names] ==
            LET r == at[1]  i == at[2]  seen == at[3] IN
            IF i \notin 1..Len(defs[r].inherits) THEN seen
            ELSE LET parent == defs[r].inherits[i]
                     visited == walk[<<r, i - 1, seen>>]
                     first == IF parent \in roles THEN Len(defs[parent].inherits) ELSE 0
                 IN  IF parent \in visited THEN visited
                     ELSE walk[<<parent, first, visited \cup {parent}>>]
    IN  walk

\* The roles visited from a role: the permissions collected are theirs.
Collected(defs, roles, role) == Walk(defs, roles)[<<role, Len(defs[role].inherits), {role}>>]

\* is_allowed
IsAllowed(policy, role, tool) ==
    LET found == Collected(policy.defs, policy.roles, role) \cap policy.roles
    IN  /\ role \in policy.roles
        /\ policy.overrides[tool] # NoOverride => role \in policy.overrides[tool]
        /\ \A r \in found : tool \notin policy.defs[r].deny
        /\ \E r \in found : policy.defs[r].all \/ tool \in policy.defs[r].allow

-----------------------------------------------------------------------------
(* Reference *)

\* The declared roles a role inherits from, at any remove: the least set that
\* contains it and the declared parents of its members.
Ancestors(policy, role) ==
    LET closed == {S \in SUBSET policy.roles :
                      /\ role \in S
                      /\ \A r \in S : \A i \in 1..Len(policy.defs[r].inherits) :
                             policy.defs[r].inherits[i] \in policy.roles =>
                                 policy.defs[r].inherits[i] \in S}
    IN  {r \in policy.roles : \A S \in closed : r \in S}

\* What a role may call: what an ancestor grants and none of them denies,
\* unless the tool is kept for other roles.
MayCall(policy, role, tool) ==
    /\ role \in policy.roles
    /\ policy.overrides[tool] # NoOverride => role \in policy.overrides[tool]
    /\ \E r \in Ancestors(policy, role) : policy.defs[r].all \/ tool \in policy.defs[r].allow
    /\ ~\E r \in Ancestors(policy, role) : tool \in policy.defs[r].deny

=============================================================================
