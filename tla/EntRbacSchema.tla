---------------------------- MODULE EntRbacSchema ---------------------------
(***************************************************************************)
(* What the generated code of the roles, the permissions and the two       *)
(* tables that relate them does to which column, in the same facts as      *)
(* EntAccountSchema.                                                       *)
(***************************************************************************)

-----------------------------------------------------------------------------
(* admin_roles *)
AdminRoleColumns ==
    {"key", "name", "description", "builtin", "created_at", "updated_at"}
AdminRoleMethods ==
    [set |-> AdminRoleColumns, clear |-> {"description"}, add |-> {}]
AdminRoleSetByName == AdminRoleColumns
AdminRoleEditByName ==
    [add |-> {}, clear |-> {"description"}, reset |-> AdminRoleColumns]
AdminRoleCreateSets == AdminRoleColumns
AdminRoleCreateDefaults ==
    {"description", "builtin", "created_at", "updated_at"}
AdminRoleCreateCheck ==
    [required |-> {"key", "name", "builtin", "created_at", "updated_at"},
     valid |-> {"key", "name", "description"}]
AdminRoleInserted == AdminRoleColumns
AdminRoleUpdateSets ==
    [set |-> AdminRoleColumns \ {"created_at"}, clear |-> {"description"},
     add |-> {}]
AdminRoleUpdateDefaults == {"updated_at"}
AdminRoleUpdateCheck == {"key", "name", "description"}
AdminRoleUpdateWritten ==
    [set |-> AdminRoleColumns \ {"created_at"}, clear |-> {"description"},
     add |-> {}]
AdminRoleUpdateOneSets ==
    [set |-> AdminRoleColumns \ {"created_at"}, clear |-> {"description"},
     add |-> {}]
AdminRoleUpdateOneDefaults == {"updated_at"}
AdminRoleUpdateOneCheck == {"key", "name", "description"}
AdminRoleUpdateOneWritten ==
    [set |-> AdminRoleColumns \ {"created_at"}, clear |-> {"description"},
     add |-> {}]
AdminRoleReadAsPointer == {}
AdminRolePredicates ==
    [eq |-> AdminRoleColumns \cup {"id"}, null |-> {"description"}]
AdminRoleRuntime ==
    [validators |-> {"key", "name", "description"},
     zero |-> {"description", "builtin"}, now |-> {"created_at", "updated_at"}]
AdminRoleTable ==
    [key |-> {"key"}, default |-> {"description", "builtin"},
     null |-> {"description"}]
AdminRoleSchema ==
    [columns |-> AdminRoleColumns, methods |-> AdminRoleMethods,
     setByName |-> AdminRoleSetByName, editByName |-> AdminRoleEditByName,
     createSets |-> AdminRoleCreateSets,
     createDefaults |-> AdminRoleCreateDefaults,
     createCheck |-> AdminRoleCreateCheck, inserted |-> AdminRoleInserted,
     updateSets |-> AdminRoleUpdateSets,
     updateDefaults |-> AdminRoleUpdateDefaults,
     updateCheck |-> AdminRoleUpdateCheck, written |-> AdminRoleUpdateWritten,
     oneSets |-> AdminRoleUpdateOneSets,
     oneDefaults |-> AdminRoleUpdateOneDefaults,
     oneCheck |-> AdminRoleUpdateOneCheck,
     oneWritten |-> AdminRoleUpdateOneWritten,
     readAsPointer |-> AdminRoleReadAsPointer,
     predicates |-> AdminRolePredicates, runtime |-> AdminRoleRuntime,
     table |-> AdminRoleTable, immutable |-> {"created_at"}]

-----------------------------------------------------------------------------
(* admin_permissions *)
AdminPermissionColumns ==
    {"key", "name", "group", "description", "builtin", "created_at",
     "updated_at"}
AdminPermissionMethods ==
    [set |-> AdminPermissionColumns, clear |-> {"group", "description"},
     add |-> {}]
AdminPermissionSetByName == AdminPermissionColumns
AdminPermissionEditByName ==
    [add |-> {}, clear |-> {"group", "description"},
     reset |-> AdminPermissionColumns]
AdminPermissionCreateSets == AdminPermissionColumns
AdminPermissionCreateDefaults ==
    {"group", "description", "builtin", "created_at", "updated_at"}
AdminPermissionCreateCheck ==
    [required |-> {"key", "name", "builtin", "created_at", "updated_at"},
     valid |-> {"key", "name", "group", "description"}]
AdminPermissionInserted == AdminPermissionColumns
AdminPermissionUpdateSets ==
    [set |-> AdminPermissionColumns \ {"created_at"},
     clear |-> {"group", "description"}, add |-> {}]
AdminPermissionUpdateDefaults == {"updated_at"}
AdminPermissionUpdateCheck == {"key", "name", "group", "description"}
AdminPermissionUpdateWritten ==
    [set |-> AdminPermissionColumns \ {"created_at"},
     clear |-> {"group", "description"}, add |-> {}]
AdminPermissionUpdateOneSets ==
    [set |-> AdminPermissionColumns \ {"created_at"},
     clear |-> {"group", "description"}, add |-> {}]
AdminPermissionUpdateOneDefaults == {"updated_at"}
AdminPermissionUpdateOneCheck == {"key", "name", "group", "description"}
AdminPermissionUpdateOneWritten ==
    [set |-> AdminPermissionColumns \ {"created_at"},
     clear |-> {"group", "description"}, add |-> {}]
AdminPermissionReadAsPointer == {}
AdminPermissionPredicates ==
    [eq |-> AdminPermissionColumns \cup {"id"},
     null |-> {"group", "description"}]
AdminPermissionRuntime ==
    [validators |-> {"key", "name", "group", "description"},
     zero |-> {"group", "description", "builtin"},
     now |-> {"created_at", "updated_at"}]
AdminPermissionTable ==
    [key |-> {"key"}, default |-> {"group", "description", "builtin"},
     null |-> {"group", "description"}]
AdminPermissionSchema ==
    [columns |-> AdminPermissionColumns, methods |-> AdminPermissionMethods,
     setByName |-> AdminPermissionSetByName,
     editByName |-> AdminPermissionEditByName,
     createSets |-> AdminPermissionCreateSets,
     createDefaults |-> AdminPermissionCreateDefaults,
     createCheck |-> AdminPermissionCreateCheck,
     inserted |-> AdminPermissionInserted,
     updateSets |-> AdminPermissionUpdateSets,
     updateDefaults |-> AdminPermissionUpdateDefaults,
     updateCheck |-> AdminPermissionUpdateCheck,
     written |-> AdminPermissionUpdateWritten,
     oneSets |-> AdminPermissionUpdateOneSets,
     oneDefaults |-> AdminPermissionUpdateOneDefaults,
     oneCheck |-> AdminPermissionUpdateOneCheck,
     oneWritten |-> AdminPermissionUpdateOneWritten,
     readAsPointer |-> AdminPermissionReadAsPointer,
     predicates |-> AdminPermissionPredicates,
     runtime |-> AdminPermissionRuntime, table |-> AdminPermissionTable,
     immutable |-> {"created_at"}]

-----------------------------------------------------------------------------
(* admin_user_roles: which administrator has which role. *)
AdminUserRoleColumns == {"admin_user_id", "admin_role_id", "created_at"}
AdminUserRoleMethods ==
    [set |-> AdminUserRoleColumns, clear |-> {},
     add |-> AdminUserRoleColumns \ {"created_at"}]
AdminUserRoleSetByName == AdminUserRoleColumns
AdminUserRoleEditByName ==
    [add |-> AdminUserRoleColumns \ {"created_at"}, clear |-> {},
     reset |-> AdminUserRoleColumns]
AdminUserRoleCreateSets == AdminUserRoleColumns
AdminUserRoleCreateDefaults == {"created_at"}
AdminUserRoleCreateCheck == [required |-> AdminUserRoleColumns, valid |-> {}]
AdminUserRoleInserted == AdminUserRoleColumns
AdminUserRoleUpdateSets ==
    [set |-> AdminUserRoleColumns \ {"created_at"}, clear |-> {},
     add |-> AdminUserRoleColumns \ {"created_at"}]
AdminUserRoleUpdateDefaults == {}
AdminUserRoleUpdateCheck == {}
AdminUserRoleUpdateWritten ==
    [set |-> AdminUserRoleColumns \ {"created_at"}, clear |-> {},
     add |-> AdminUserRoleColumns \ {"created_at"}]
AdminUserRoleUpdateOneSets ==
    [set |-> AdminUserRoleColumns \ {"created_at"}, clear |-> {},
     add |-> AdminUserRoleColumns \ {"created_at"}]
AdminUserRoleUpdateOneDefaults == {}
AdminUserRoleUpdateOneCheck == {}
AdminUserRoleUpdateOneWritten ==
    [set |-> AdminUserRoleColumns \ {"created_at"}, clear |-> {},
     add |-> AdminUserRoleColumns \ {"created_at"}]
AdminUserRoleReadAsPointer == {}
AdminUserRolePredicates ==
    [eq |-> AdminUserRoleColumns \cup {"id"}, null |-> {}]
AdminUserRoleRuntime ==
    [validators |-> {}, zero |-> {}, now |-> {"created_at"}]
AdminUserRoleTable ==
    [key |-> AdminUserRoleColumns \ {"created_at"}, default |-> {},
     null |-> {}]
AdminUserRoleSchema ==
    [columns |-> AdminUserRoleColumns, methods |-> AdminUserRoleMethods,
     setByName |-> AdminUserRoleSetByName,
     editByName |-> AdminUserRoleEditByName,
     createSets |-> AdminUserRoleCreateSets,
     createDefaults |-> AdminUserRoleCreateDefaults,
     createCheck |-> AdminUserRoleCreateCheck,
     inserted |-> AdminUserRoleInserted,
     updateSets |-> AdminUserRoleUpdateSets,
     updateDefaults |-> AdminUserRoleUpdateDefaults,
     updateCheck |-> AdminUserRoleUpdateCheck,
     written |-> AdminUserRoleUpdateWritten,
     oneSets |-> AdminUserRoleUpdateOneSets,
     oneDefaults |-> AdminUserRoleUpdateOneDefaults,
     oneCheck |-> AdminUserRoleUpdateOneCheck,
     oneWritten |-> AdminUserRoleUpdateOneWritten,
     readAsPointer |-> AdminUserRoleReadAsPointer,
     predicates |-> AdminUserRolePredicates, runtime |-> AdminUserRoleRuntime,
     table |-> AdminUserRoleTable, immutable |-> {"created_at"}]

-----------------------------------------------------------------------------
(* admin_role_permissions: which role grants which permission. *)
AdminRolePermissionColumns ==
    {"admin_role_id", "admin_permission_id", "created_at"}
AdminRolePermissionMethods ==
    [set |-> AdminRolePermissionColumns, clear |-> {},
     add |-> AdminRolePermissionColumns \ {"created_at"}]
AdminRolePermissionSetByName == AdminRolePermissionColumns
AdminRolePermissionEditByName ==
    [add |-> AdminRolePermissionColumns \ {"created_at"}, clear |-> {},
     reset |-> AdminRolePermissionColumns]
AdminRolePermissionCreateSets == AdminRolePermissionColumns
AdminRolePermissionCreateDefaults == {"created_at"}
AdminRolePermissionCreateCheck ==
    [required |-> AdminRolePermissionColumns, valid |-> {}]
AdminRolePermissionInserted == AdminRolePermissionColumns
AdminRolePermissionUpdateSets ==
    [set |-> AdminRolePermissionColumns \ {"created_at"}, clear |-> {},
     add |-> AdminRolePermissionColumns \ {"created_at"}]
AdminRolePermissionUpdateDefaults == {}
AdminRolePermissionUpdateCheck == {}
AdminRolePermissionUpdateWritten ==
    [set |-> AdminRolePermissionColumns \ {"created_at"}, clear |-> {},
     add |-> AdminRolePermissionColumns \ {"created_at"}]
AdminRolePermissionUpdateOneSets ==
    [set |-> AdminRolePermissionColumns \ {"created_at"}, clear |-> {},
     add |-> AdminRolePermissionColumns \ {"created_at"}]
AdminRolePermissionUpdateOneDefaults == {}
AdminRolePermissionUpdateOneCheck == {}
AdminRolePermissionUpdateOneWritten ==
    [set |-> AdminRolePermissionColumns \ {"created_at"}, clear |-> {},
     add |-> AdminRolePermissionColumns \ {"created_at"}]
AdminRolePermissionReadAsPointer == {}
AdminRolePermissionPredicates ==
    [eq |-> AdminRolePermissionColumns \cup {"id"}, null |-> {}]
AdminRolePermissionRuntime ==
    [validators |-> {}, zero |-> {}, now |-> {"created_at"}]
AdminRolePermissionTable ==
    [key |-> AdminRolePermissionColumns \ {"created_at"}, default |-> {},
     null |-> {}]
AdminRolePermissionSchema ==
    [columns |-> AdminRolePermissionColumns,
     methods |-> AdminRolePermissionMethods,
     setByName |-> AdminRolePermissionSetByName,
     editByName |-> AdminRolePermissionEditByName,
     createSets |-> AdminRolePermissionCreateSets,
     createDefaults |-> AdminRolePermissionCreateDefaults,
     createCheck |-> AdminRolePermissionCreateCheck,
     inserted |-> AdminRolePermissionInserted,
     updateSets |-> AdminRolePermissionUpdateSets,
     updateDefaults |-> AdminRolePermissionUpdateDefaults,
     updateCheck |-> AdminRolePermissionUpdateCheck,
     written |-> AdminRolePermissionUpdateWritten,
     oneSets |-> AdminRolePermissionUpdateOneSets,
     oneDefaults |-> AdminRolePermissionUpdateOneDefaults,
     oneCheck |-> AdminRolePermissionUpdateOneCheck,
     oneWritten |-> AdminRolePermissionUpdateOneWritten,
     readAsPointer |-> AdminRolePermissionReadAsPointer,
     predicates |-> AdminRolePermissionPredicates,
     runtime |-> AdminRolePermissionRuntime,
     table |-> AdminRolePermissionTable, immutable |-> {"created_at"}]

=============================================================================
