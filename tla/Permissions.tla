---------------------------- MODULE Permissions ----------------------------
(***************************************************************************)
(* Who may do what: the matrix of packages/shared/src/roles.ts, which the  *)
(* API's guards and the dashboard's buttons both read.  A permission is a  *)
(* pair <<resource, action>>.                                              *)
(***************************************************************************)
EXTENDS Naturals, FiniteSets

\* The five roles, from the most to the least powerful.
OrgRoles == {"owner", "admin", "manager", "developer", "viewer"}

CRUD == {"read", "create", "update", "delete"}

\* The resources whose daily operation a developer may do.
Operational ==
    {"monitor", "statusPage", "alertChannel", "escalationPolicy", "onCallSchedule"}

\* Every resource and the actions it has.
PermissionStatements ==
    (  ({"organization"} \X {"read", "update", "delete"})
    \union ({"member"} \X CRUD)
    \union ({"invitation"} \X {"read", "create", "cancel"})
    \union ({"billing"} \X {"read", "manage"})
    \union ({"auditLog"} \X {"read"})
    \union ({"apiKey"} \X {"read", "create", "revoke"})
    \union (Operational \X CRUD))

ReadEverything == {p \in PermissionStatements : p[2] = "read"}

Operate == Operational \X CRUD

RolePermissions ==
  [ owner     |-> PermissionStatements,
    admin     |-> PermissionStatements \ {<<"organization", "delete">>, <<"billing", "manage">>},
    manager   |-> Operate
                  \union ({"member"} \X {"read", "create", "update"})
                  \union ({"invitation"} \X {"read", "create", "cancel"})
                  \union ({"apiKey"} \X {"read", "create", "revoke"})
                  \union {<<"organization", "read">>, <<"billing", "read">>, <<"auditLog", "read">>},
    developer |-> Operate
                  \union ({"apiKey"} \X {"read", "create", "revoke"})
                  \union {<<"organization", "read">>},
    viewer    |-> ReadEverything ]

\* A role has a set of permissions when it has each of them; a role that is
\* not one of the five has none.
HasPermission(role, needed) == role \in OrgRoles /\ needed \subseteq RolePermissions[role]

\* Which roles a member may give to others.
AssignableRoles ==
  [ owner     |-> OrgRoles,
    admin     |-> OrgRoles \ {"owner"},
    manager   |-> {"developer", "viewer"},
    developer |-> {},
    viewer    |-> {} ]

\* A key is authorised by scopes, not by a role: "*" is every permission, a
\* resource with "*" every action on it, a pair itself.
Scopes == {<<"*", "*">>} \union {<<p[1], "*">> : p \in PermissionStatements} \union PermissionStatements

ScopePermissions(scopes) ==
    {p \in PermissionStatements :
        \/ <<"*", "*">> \in scopes
        \/ <<p[1], "*">> \in scopes
        \/ p \in scopes}
=============================================================================
