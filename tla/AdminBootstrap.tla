--------------------------- MODULE AdminBootstrap ---------------------------
(***************************************************************************)
(* server/internal/data/admin_user_init.go, run by NewData before a        *)
(* replica serves.  Several replicas start, crash and restart at any time  *)
(* against one database; each step is one statement.                       *)
(***************************************************************************)
EXTENDS AccountStore

CONSTANTS
  Replica,   (* server processes                                              *)
  AdminOf,   (* data.auth.admin.username in the configuration of each replica *)
  NoAdmin    (* a configuration without auth.admin                            *)

ASSUME AdminBootstrapAssumption == AdminOf \in [Replica -> Name \cup {NoAdmin}]

VARIABLES
  bootPc,    (* where the initialisation of each replica is                   *)
  nextPerm   (* the loop over DefaultAdminPermissions                         *)

bootVars == <<bootPc, nextPerm>>

BootPc == {"down", "admin", "perms", "grant", "bind", "serving"}

BootTypeOK ==
  /\ bootPc \in [Replica -> BootPc]
  /\ nextPerm \in [Replica -> 1..(NPerm + 1)]

BootInit ==
  /\ bootPc = [r \in Replica |-> "down"]
  /\ nextPerm = [r \in Replica |-> 1]

Goto(r, pc) == bootPc' = [bootPc EXCEPT ![r] = pc]

-----------------------------------------------------------------------------
(* Seeded faults                                                              *)

(* The INSERT without ON CONFLICT: an existing row is an error, and an error
   of NewData ends the process. *)
BootAdmin_NoConflictClause(r) ==
  /\ bootPc[r] = "admin"
  /\ IF admins[AdminOf[r]] = "absent"
     THEN InsertAdmin(AdminOf[r]) /\ Goto(r, "perms")
     ELSE UNCHANGED tables /\ Goto(r, "down")
  /\ nextPerm' = [nextPerm EXCEPT ![r] = 1]

(* "The admin exists already, so its defaults do too": return early. *)
BootAdmin_SkipIfExists(r) ==
  /\ bootPc[r] = "admin"
  /\ InsertAdmin(AdminOf[r])
  /\ nextPerm' = [nextPerm EXCEPT ![r] = 1]
  /\ Goto(r, IF admins[AdminOf[r]] = "absent" THEN "perms" ELSE "serving")

-----------------------------------------------------------------------------
(* NewData reaches InitAdminUsersIfNeeded, which returns at once when the
   configuration names no administrator. *)
BootStart(r) ==
  /\ bootPc[r] = "down"
  /\ Goto(r, IF AdminOf[r] = NoAdmin THEN "serving" ELSE "admin")
  /\ UNCHANGED <<tables, nextPerm>>

(* The INSERT; whether a row was affected only changes what is logged. *)
BootAdmin(r) ==
  /\ bootPc[r] = "admin"
  /\ InsertAdmin(AdminOf[r])
  /\ nextPerm' = [nextPerm EXCEPT ![r] = 1]
  /\ Goto(r, "perms")

BootPerm(r) ==
  /\ bootPc[r] = "perms" /\ nextPerm[r] \in Perm
  /\ UpsertPerm(nextPerm[r])
  /\ nextPerm' = [nextPerm EXCEPT ![r] = @ + 1]
  /\ UNCHANGED bootPc

(* The loop is over: upsert the role super_admin. *)
BootRole(r) ==
  /\ bootPc[r] = "perms" /\ nextPerm[r] \notin Perm
  /\ UpsertSuperRole
  /\ Goto(r, "grant")
  /\ UNCHANGED nextPerm

BootGrant(r) ==
  /\ bootPc[r] = "grant"
  /\ GrantAll
  /\ Goto(r, "bind")
  /\ UNCHANGED nextPerm

BootBind(r) ==
  /\ bootPc[r] = "bind"
  /\ BindAdmin(AdminOf[r])
  /\ Goto(r, "serving")
  /\ UNCHANGED nextPerm

(* A statement fails and NewData's error panics main, the reply of a committed
   statement is lost, or the process is killed: the replica is down, whatever
   it had written stays. *)
BootCrash(r) ==
  /\ bootPc[r] # "down"
  /\ Goto(r, "down")
  /\ UNCHANGED <<tables, nextPerm>>

(* Outside the code: an operator disables an administrator in the database. *)
OperatorDisablesAdmin(n) ==
  /\ admins[n] = "enabled"
  /\ admins' = [admins EXCEPT ![n] = "disabled"]
  /\ UNCHANGED <<users, perms, superRole, grants, bound, bootVars>>

BootProgress(r) == BootAdmin(r) \/ BootPerm(r) \/ BootRole(r) \/ BootGrant(r) \/ BootBind(r)

BootStep(r) == BootStart(r) \/ BootProgress(r) \/ BootCrash(r)

-----------------------------------------------------------------------------
BootNext ==
  \/ \E r \in Replica : BootStep(r)
  \/ \E n \in Name : OperatorDisablesAdmin(n)

BootstrapVars == <<tables, bootVars>>

BootstrapInit == StoreInit /\ BootInit

BootstrapSpec == BootstrapInit /\ [][BootNext]_BootstrapVars

(***************************************************************************)
(* The supervisor restarts a replica that is down, and the database does   *)
(* not fail the same statement forever: a statement tried again and again  *)
(* is executed, which is strong fairness.  Crashes stay possible.          *)
(***************************************************************************)
BootFairness ==
  \A r \in Replica :
    /\ WF_BootstrapVars(BootStart(r))
    /\ SF_BootstrapVars(BootAdmin(r))
    /\ \A i \in Perm : SF_BootstrapVars(nextPerm[r] = i /\ BootPerm(r))
    /\ SF_BootstrapVars(BootRole(r))
    /\ SF_BootstrapVars(BootGrant(r))
    /\ SF_BootstrapVars(BootBind(r))

FairBootstrapSpec == BootstrapSpec /\ BootFairness

-----------------------------------------------------------------------------
BootstrapTypeOK == StoreTypeOK /\ BootTypeOK

(* A replica serves only when its administrator exists, is bound to super_admin,
   and super_admin has every default permission, whatever other replicas wrote,
   left half written or are writing. *)
ServingImpliesDefaults ==
  \A r \in Replica : bootPc[r] = "serving" /\ AdminOf[r] # NoAdmin =>
    /\ admins[AdminOf[r]] # "absent"
    /\ AdminOf[r] \in bound
    /\ superRole /\ perms = Perm /\ grants = Perm

(* A restart does not bring an existing administrator back to its initial row:
   one that was disabled stays disabled. *)
RestartKeepsAdminRow ==
  [][\A n \in Name : admins[n] = "disabled" => admins'[n] = "disabled"]_BootstrapVars

(* However often replicas crash half way, the defaults are complete some day. *)
DefaultsEventuallyComplete ==
  \A r \in Replica : AdminOf[r] # NoAdmin =>
    <>(AdminOf[r] \in bound /\ grants = Perm)
=============================================================================
