--------------------------- MODULE MCUserDirectory --------------------------
(***************************************************************************)
(* The tables of the repository, two goroutines of which one makes any     *)
(* call, a page of one user.                                               *)
(***************************************************************************)
EXTENDS UserDirectory, EntAccountSchema, EntRbacSchema

CONSTANTS s1, s2

MCSession == {s1, s2}
MCClient == {s1}
MCRequests == {0, 3}

MCSchemas ==
    [users |-> UserSchema, admin_users |-> AdminUserSchema,
     admin_roles |-> AdminRoleSchema, admin_permissions |-> AdminPermissionSchema,
     admin_user_roles |-> AdminUserRoleSchema,
     admin_role_permissions |-> AdminRolePermissionSchema]

=============================================================================
