---------------------------- MODULE AccountStore ----------------------------
(***************************************************************************)
(* The PostgreSQL tables the accounts live in.  A table keyed by a unique  *)
(* username is a function of the name, so the unique indexes of the schema *)
(* are part of the model; there is no constraint across two tables.  Each  *)
(* operator below is one SQL statement, which the database runs            *)
(* atomically; nothing in the code runs two of them in one transaction.    *)
(***************************************************************************)
EXTENDS Naturals

CONSTANTS
  Name,     (* usernames                                                      *)
  NPerm     (* the length of DefaultAdminPermissions                          *)

ASSUME AccountStoreAssumption == NPerm \in Nat \ {0}

VARIABLES
  users,     (* users: "absent", or whether the row is disabled               *)
  admins,    (* admin_users, likewise                                         *)
  perms,     (* admin_permissions, by position in DefaultAdminPermissions     *)
  superRole, (* whether admin_roles has the row super_admin                   *)
  grants,    (* admin_role_permissions of super_admin                         *)
  bound      (* admin_user_roles: the admins bound to super_admin             *)

tables == <<users, admins, perms, superRole, grants, bound>>
adminTables == <<admins, perms, superRole, grants, bound>>

Row  == {"absent", "enabled", "disabled"}
Perm == 1..NPerm

StoreTypeOK ==
  /\ users \in [Name -> Row]
  /\ admins \in [Name -> Row]
  /\ perms \subseteq Perm
  /\ superRole \in BOOLEAN
  /\ grants \subseteq Perm
  /\ bound \subseteq Name

(* A migrated database before the first start of the server, which may hold
   users registered under an earlier configuration. *)
StoreInit ==
  /\ users \in [Name -> {"absent", "enabled"}]
  /\ admins = [n \in Name |-> "absent"]
  /\ perms = {}
  /\ superRole = FALSE
  /\ grants = {}
  /\ bound = {}

-----------------------------------------------------------------------------
(* Statements of InitAdminUsersIfNeeded and initAdminRBACDefaults             *)

InsertAdmin(n) ==   (* ON CONFLICT (username) DO NOTHING *)
  /\ admins' = IF admins[n] = "absent" THEN [admins EXCEPT ![n] = "enabled"] ELSE admins
  /\ UNCHANGED <<users, perms, superRole, grants, bound>>

UpsertPerm(i) ==
  /\ perms' = perms \cup {i}
  /\ UNCHANGED <<users, admins, superRole, grants, bound>>

UpsertSuperRole ==
  /\ superRole' = TRUE
  /\ UNCHANGED <<users, admins, perms, grants, bound>>

GrantAll ==         (* admin_roles CROSS JOIN admin_permissions *)
  /\ grants' = IF superRole THEN grants \cup perms ELSE grants
  /\ UNCHANGED <<users, admins, perms, superRole, bound>>

BindAdmin(n) ==     (* admin_users CROSS JOIN admin_roles *)
  /\ bound' = IF admins[n] # "absent" /\ superRole THEN bound \cup {n} ELSE bound
  /\ UNCHANGED <<users, admins, perms, superRole, grants>>

-----------------------------------------------------------------------------
(* Statements on users                                                        *)

InsertUser(n) ==
  /\ users[n] = "absent"
  /\ users' = [users EXCEPT ![n] = "enabled"]
  /\ UNCHANGED adminTables

(* Seeded fault: the whole row read earlier is saved back. *)
TouchLastLogin_WholeRow(n, seen) ==
  /\ users' = [users EXCEPT ![n] = seen]
  /\ UNCHANGED adminTables

(* UpdateOneID(id).SetLastLoginAt(t): no column this model keeps; `seen`, the
   row read earlier by the caller, is not written back. *)
TouchLastLogin(n, seen) == UNCHANGED tables

(* UPDATE admin_users SET last_login_at, updated_at: likewise. *)
TouchAdminLastLogin(n, seen) == UNCHANGED tables

SetDisabled(n, disabled) ==
  /\ users[n] # "absent"
  /\ users' = [users EXCEPT ![n] = IF disabled THEN "disabled" ELSE "enabled"]
  /\ UNCHANGED adminTables
=============================================================================
