-------------------------- MODULE EntAccountSchema --------------------------
(***************************************************************************)
(* What the generated code of the two account tables does to which column. *)
(* For every entity: its columns; what the methods of its mutation can     *)
(* set, clear and add to, by method and by column name; what the create    *)
(* and update builders offer, fill in, check and write; which validators   *)
(* exist; what reads NULL as nil instead of as a zero value; the           *)
(* predicates; the table. Facts that the generator derives twice, for      *)
(* Update and for UpdateOne say, are two definitions here as they are two  *)
(* pieces of code there.                                                   *)
(***************************************************************************)

-----------------------------------------------------------------------------
(* users: the accounts that registered. *)
UserColumns ==
    {"username", "password_hash", "disabled", "last_login_at",
     "created_at", "updated_at"}
UserMethods == [set |-> UserColumns, clear |-> {"last_login_at"}, add |-> {}]
UserSetByName == UserColumns
UserEditByName ==
    [add |-> {}, clear |-> {"last_login_at"}, reset |-> UserColumns]
UserCreateSets == UserColumns
UserCreateDefaults == {"disabled", "created_at", "updated_at"}
UserCreateCheck ==
    [required |-> {"username", "password_hash", "disabled", "created_at",
                  "updated_at"},
     valid |-> {"username", "password_hash"}]
UserInserted == UserColumns
UserUpdateSets ==
    [set |-> UserColumns \ {"created_at"}, clear |-> {"last_login_at"},
     add |-> {}]
UserUpdateDefaults == {"updated_at"}
UserUpdateCheck == {"username", "password_hash"}
UserUpdateWritten ==
    [set |-> UserColumns \ {"created_at"}, clear |-> {"last_login_at"},
     add |-> {}]
UserUpdateOneSets ==
    [set |-> UserColumns \ {"created_at"}, clear |-> {"last_login_at"},
     add |-> {}]
UserUpdateOneDefaults == {"updated_at"}
UserUpdateOneCheck == {"username", "password_hash"}
UserUpdateOneWritten ==
    [set |-> UserColumns \ {"created_at"}, clear |-> {"last_login_at"},
     add |-> {}]
UserReadAsPointer == {"last_login_at"}
UserPredicates == [eq |-> UserColumns \cup {"id"}, null |-> {"last_login_at"}]
UserRuntime ==
    [validators |-> {"username", "password_hash"}, zero |-> {"disabled"},
     now |-> {"created_at", "updated_at"}]
UserTable ==
    [key |-> {"username"}, default |-> {"disabled"},
     null |-> {"last_login_at"}]
UserSchema ==
    [columns |-> UserColumns, methods |-> UserMethods,
     setByName |-> UserSetByName, editByName |-> UserEditByName,
     createSets |-> UserCreateSets, createDefaults |-> UserCreateDefaults,
     createCheck |-> UserCreateCheck, inserted |-> UserInserted,
     updateSets |-> UserUpdateSets, updateDefaults |-> UserUpdateDefaults,
     updateCheck |-> UserUpdateCheck, written |-> UserUpdateWritten,
     oneSets |-> UserUpdateOneSets, oneDefaults |-> UserUpdateOneDefaults,
     oneCheck |-> UserUpdateOneCheck, oneWritten |-> UserUpdateOneWritten,
     readAsPointer |-> UserReadAsPointer, predicates |-> UserPredicates,
     runtime |-> UserRuntime, table |-> UserTable,
     immutable |-> {"created_at"}]

-----------------------------------------------------------------------------
(* admin_users: the administrators. *)
AdminUserColumns ==
    {"username", "password_hash", "disabled", "last_login_at",
     "created_at", "updated_at"}
AdminUserMethods ==
    [set |-> AdminUserColumns, clear |-> {"last_login_at"}, add |-> {}]
AdminUserSetByName == AdminUserColumns
AdminUserEditByName ==
    [add |-> {}, clear |-> {"last_login_at"}, reset |-> AdminUserColumns]
AdminUserCreateSets == AdminUserColumns
AdminUserCreateDefaults == {"disabled", "created_at", "updated_at"}
AdminUserCreateCheck ==
    [required |-> {"username", "password_hash", "disabled", "created_at",
                  "updated_at"},
     valid |-> {"username", "password_hash"}]
AdminUserInserted == AdminUserColumns
AdminUserUpdateSets ==
    [set |-> AdminUserColumns \ {"created_at"}, clear |-> {"last_login_at"},
     add |-> {}]
AdminUserUpdateDefaults == {"updated_at"}
AdminUserUpdateCheck == {"username", "password_hash"}
AdminUserUpdateWritten ==
    [set |-> AdminUserColumns \ {"created_at"}, clear |-> {"last_login_at"},
     add |-> {}]
AdminUserUpdateOneSets ==
    [set |-> AdminUserColumns \ {"created_at"}, clear |-> {"last_login_at"},
     add |-> {}]
AdminUserUpdateOneDefaults == {"updated_at"}
AdminUserUpdateOneCheck == {"username", "password_hash"}
AdminUserUpdateOneWritten ==
    [set |-> AdminUserColumns \ {"created_at"}, clear |-> {"last_login_at"},
     add |-> {}]
AdminUserReadAsPointer == {"last_login_at"}
AdminUserPredicates ==
    [eq |-> AdminUserColumns \cup {"id"}, null |-> {"last_login_at"}]
AdminUserRuntime ==
    [validators |-> {"username", "password_hash"}, zero |-> {"disabled"},
     now |-> {"created_at", "updated_at"}]
AdminUserTable ==
    [key |-> {"username"}, default |-> {"disabled"},
     null |-> {"last_login_at"}]
AdminUserSchema ==
    [columns |-> AdminUserColumns, methods |-> AdminUserMethods,
     setByName |-> AdminUserSetByName, editByName |-> AdminUserEditByName,
     createSets |-> AdminUserCreateSets,
     createDefaults |-> AdminUserCreateDefaults,
     createCheck |-> AdminUserCreateCheck, inserted |-> AdminUserInserted,
     updateSets |-> AdminUserUpdateSets,
     updateDefaults |-> AdminUserUpdateDefaults,
     updateCheck |-> AdminUserUpdateCheck, written |-> AdminUserUpdateWritten,
     oneSets |-> AdminUserUpdateOneSets,
     oneDefaults |-> AdminUserUpdateOneDefaults,
     oneCheck |-> AdminUserUpdateOneCheck,
     oneWritten |-> AdminUserUpdateOneWritten,
     readAsPointer |-> AdminUserReadAsPointer,
     predicates |-> AdminUserPredicates, runtime |-> AdminUserRuntime,
     table |-> AdminUserTable, immutable |-> {"created_at"}]

=============================================================================
