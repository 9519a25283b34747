------------------------------ MODULE AdminGate ------------------------------
(***************************************************************************)
(* The dispatcher's authorisation (server/internal/service/                *)
(* jsonrpc_dispatch.go) over the tables it reads statement by statement.   *)
(* Requests run concurrently with each other and with an operator who      *)
(* disables, rebuilds and re-grants administrators; no two statements of a *)
(* request share a transaction.  Public methods are left to UserAuth.      *)
(***************************************************************************)
EXTENDS Naturals, FiniteSets

CONSTANTS
  Request,   (* JSON-RPC calls of methods that are not public                 *)
  User,      (* ids of users                                                  *)
  Admin,     (* ids of administrators                                         *)
  Name,      (* usernames of administrators                                   *)
  Token,     (* what the middleware may make of an Authorization header       *)
  Method     (* the methods called                                            *)

Methods == {"user.list", "user.set_disabled", "user.other", "rbac.overview",
            "rbac.other", "auth.me", "auth.other", "system.other", "other.url"}

(* AuthClaimsMiddleware: claims when the token is good, else only the state. *)
Rejected == [state : {"none", "expired", "invalid"}]
Claims   == [state : {"ok"}, role : {"user", "admin"}, id : Nat, name : Name]

Required(m) ==
  CASE m = "user.list" -> "admin.user.read"
    [] m = "user.set_disabled" -> "admin.user.write"
    [] m \in {"rbac.overview", "rbac.other"} -> "admin.rbac.read"
    [] OTHER -> ""

(* The permissions the methods under consideration ask for. *)
Permission == {Required(m) : m \in Method} \ {""}

ASSUME AdminGateAssumption ==
  /\ Method \subseteq Methods
  /\ Token \subseteq Rejected \cup Claims

VARIABLES
  adminRow,  (* admin_users by id: no row, or its username and disabled flag  *)
  held,      (* the permissions the roles of an administrator id add up to    *)
  userRow,   (* users by id: "absent", "enabled", "disabled"                  *)
  pc,        (* where each request is                                         *)
  call,      (* its token, method and the parameter user_id                   *)
  reply,     (* its answer                                                    *)
  facts,     (* history: what was true at some moment of the request          *)
  cleared    (* history: its permission was held at, or after, a moment the
                account was in order                                          *)

tables == <<adminRow, held, userRow>>
vars == <<adminRow, held, userRow, pc, call, reply, facts, cleared>>

NoRow == [name |-> "none", disabled |-> FALSE]
Row   == {NoRow} \cup [name : Name, disabled : BOOLEAN]
Pc    == {"idle", "row1", "row2", "perms", "effect", "me", "over"}
Reply == {"none", "ok", "login", "adminRequired", "adminDisabled", "permissionDenied",
          "unknown", "notFound", "badParam", "failed"}
Call  == [token : Token, method : Method, target : User \cup {0}]
Fact  == {"inOrder", "disabled", "mismatch", "lacking", "failure"}

-----------------------------------------------------------------------------
Tok(q)  == call[q].token
IsAdmin(q) == Tok(q).state = "ok" /\ Tok(q).role = "admin"

(* The row uid of a token names, and what the code holds against it. *)
RowOf(q)      == IF IsAdmin(q) /\ Tok(q).id \in Admin THEN adminRow[Tok(q).id] ELSE NoRow
PermsOf(q)    == IF IsAdmin(q) /\ Tok(q).id \in Admin THEN held[Tok(q).id] ELSE {}
Mismatch(q)   == IsAdmin(q) => RowOf(q).name # Tok(q).name

(* What auth.me reads is there: getCurrentAdmin or GetUserByID. *)
Found(q) ==
  IF IsAdmin(q) THEN ~Mismatch(q)
  ELSE Tok(q).state = "ok" /\ Tok(q).id \in User /\ userRow[Tok(q).id] # "absent"

(* What is true of the account of q in the present state. *)
FactsNow(q) ==
  IF ~IsAdmin(q) THEN {} ELSE
    (IF Mismatch(q) THEN {"mismatch"}
     ELSE IF RowOf(q).disabled THEN {"disabled"} ELSE {"inOrder"})
    \cup (IF Required(call[q].method) \in PermsOf(q) THEN {} ELSE {"lacking"})

TypeOK ==
  /\ adminRow \in [Admin -> Row]
  /\ held \in [Admin -> SUBSET Permission]
  /\ userRow \in [User -> {"absent", "enabled", "disabled"}]
  /\ pc \in [Request -> Pc]
  /\ call \in [Request -> Call]
  /\ reply \in [Request -> Reply]
  /\ facts \in [Request -> SUBSET Fact]
  /\ cleared \in [Request -> BOOLEAN]

Init ==
  /\ adminRow \in [Admin -> Row]
  /\ held \in [Admin -> SUBSET Permission]
  /\ userRow = [u \in User |-> "enabled"]
  /\ pc = [q \in Request |-> "idle"]
  /\ call \in [Request -> Call]
  /\ reply = [q \in Request |-> "none"]
  /\ facts = [q \in Request |-> {}]
  /\ cleared = [q \in Request |-> FALSE]

-----------------------------------------------------------------------------
(* The history of every request that is under way after the step.             *)
Observe(failing) ==
  /\ facts' = [q \in Request |->
       IF pc'[q] = "idle" \/ reply[q] # "none" THEN facts[q]
       ELSE facts[q] \cup FactsNow(q) \cup FactsNow(q)'
                     \cup (IF q \in failing THEN {"failure"} ELSE {})]
  /\ cleared' = [q \in Request |->
       cleared[q] \/ /\ pc'[q] # "idle" /\ reply[q] = "none" /\ IsAdmin(q)
                     /\ "inOrder" \in facts'[q]
                     /\ "lacking" \notin FactsNow(q)']

Goto(q, from, to) ==
  /\ pc[q] = from
  /\ pc' = [pc EXCEPT ![q] = to]
  /\ UNCHANGED <<call, reply>>

Answer(q, from, what) ==
  /\ pc[q] = from
  /\ pc' = [pc EXCEPT ![q] = "over"]
  /\ reply' = [reply EXCEPT ![q] = what]
  /\ UNCHANGED call

Read == UNCHANGED tables /\ Observe({})

(* A statement of q fails: the database is unreachable, or the context is over. *)
Fails(q, from, what) == Answer(q, from, what) /\ UNCHANGED tables /\ Observe({q})

-----------------------------------------------------------------------------
(* Seeded faults                                                              *)

(* requireAdmin without the check of Disabled. *)
RequireAdmin_AnyRow(q) ==
  \/ Fails(q, "row1", "failed")
  \/ /\ Mismatch(q)
     /\ Answer(q, "row1", "adminRequired") /\ Read
  \/ /\ ~Mismatch(q)
     /\ IF Required(call[q].method) = "" THEN Answer(q, "row1", "unknown")
                                         ELSE Goto(q, "row1", "row2")
     /\ Read

(* A failed read of the permissions lets the request pass. *)
LoadPermissions_FailOpen(q) ==
  \/ Goto(q, "perms", "effect") /\ UNCHANGED tables /\ Observe({q})
  \/ /\ Required(call[q].method) \in PermsOf(q)
     /\ Goto(q, "perms", "effect") /\ Read
  \/ /\ Required(call[q].method) \notin PermsOf(q)
     /\ Answer(q, "perms", "permissionDenied") /\ Read

(* A database error is taken for a missing row. *)
RequireAdmin_ErrorIsNoRow(q) ==
  \/ Answer(q, "row1", "adminRequired") /\ Read
  \/ /\ RowOf(q).disabled /\ ~Mismatch(q)
     /\ Answer(q, "row1", "adminDisabled") /\ Read
  \/ /\ ~Mismatch(q) /\ ~RowOf(q).disabled
     /\ Goto(q, "row1", "row2") /\ Read

-----------------------------------------------------------------------------
(* Handle: requireLogin, then the switch over the domain; requireAdmin begins
   with the role.  None of it reads the database. *)
Dispatch(q) ==
  LET m == call[q].method IN
  /\ \/ Tok(q).state # "ok" /\ Answer(q, "idle", "login")
     \/ /\ Tok(q).state = "ok"
        /\ \/ m \in {"other.url", "auth.other", "system.other"} /\ Answer(q, "idle", "unknown")
           \/ m = "auth.me" /\ Goto(q, "idle", "me")
           \/ /\ m \notin {"other.url", "auth.other", "system.other", "auth.me"}
              /\ IF Tok(q).role = "admin" THEN Goto(q, "idle", "row1")
                                          ELSE Answer(q, "idle", "adminRequired")
  /\ Read

(* auth.me: getCurrentAdmin or GetCurrentUser; a disabled account is no error. *)
Me(q) ==
  \/ Fails(q, "me", "failed")
  \/ Answer(q, "me", IF Found(q) THEN "ok" ELSE "failed") /\ Read

(* requireAdmin: getCurrentAdmin reads the row and, whatever comes of that, the
   roles and permissions, which are not used here. *)
RequireAdmin(q) ==
  \/ Fails(q, "row1", "failed")
  \/ /\ Mismatch(q)
     /\ Answer(q, "row1", "adminRequired") /\ Read
  \/ /\ ~Mismatch(q) /\ RowOf(q).disabled
     /\ Answer(q, "row1", "adminDisabled") /\ Read
  \/ /\ ~Mismatch(q) /\ ~RowOf(q).disabled
     /\ IF Required(call[q].method) = "" THEN Answer(q, "row1", "unknown")
                                         ELSE Goto(q, "row1", "row2")
     /\ Read

(* requireAdminPermission reads the row again; Disabled is not checked again and
   every error, a row that is gone included, is internal. *)
RequirePermission(q) ==
  \/ Fails(q, "row2", "failed")
  \/ /\ IF Mismatch(q) THEN Answer(q, "row2", "failed")
                                 ELSE Goto(q, "row2", "perms")
     /\ Read

(* getAdminPermissions; a query that fails yields no permission. *)
LoadPermissions(q) ==
  \/ Fails(q, "perms", "permissionDenied")
  \/ /\ Required(call[q].method) \in PermsOf(q)
     /\ Goto(q, "perms", "effect") /\ Read
  \/ /\ Required(call[q].method) \notin PermsOf(q)
     /\ Answer(q, "perms", "permissionDenied") /\ Read

(* user.list and rbac.overview, and a method the domain does not have. *)
Query(q) ==
  \/ /\ call[q].method \in {"user.list", "rbac.overview"}
     /\ \/ Fails(q, "effect", "failed")
        \/ Answer(q, "effect", "ok") /\ Read
  \/ call[q].method = "rbac.other" /\ Answer(q, "effect", "unknown") /\ Read

(* user.set_disabled down to SetUserDisabled; the reply of a committed UPDATE
   may be lost. *)
SetDisabled(q) ==
  LET u == call[q].target IN
  /\ call[q].method = "user.set_disabled"
  /\ \/ u = 0 /\ Answer(q, "effect", "badParam") /\ Read
     \/ u # 0 /\ Fails(q, "effect", "failed")
     \/ /\ u # 0 /\ userRow[u] = "absent"
        /\ Answer(q, "effect", "notFound") /\ Read
     \/ /\ u # 0 /\ userRow[u] # "absent"
        /\ \E row \in {"enabled", "disabled"} : userRow' = [userRow EXCEPT ![u] = row]
        /\ UNCHANGED <<adminRow, held>>
        /\ \/ Answer(q, "effect", "ok") /\ Observe({})
           \/ Answer(q, "effect", "failed") /\ Observe({q})

RequestStep(q) ==
  \/ Dispatch(q) \/ Me(q) \/ RequireAdmin(q) \/ RequirePermission(q)
  \/ LoadPermissions(q) \/ Query(q) \/ SetDisabled(q)

-----------------------------------------------------------------------------
(* Outside the code: the operator changes admin_users and the role tables. *)

OperatorSetsRow(a) ==   (* disable, enable, delete, rebuild under another name *)
  /\ \E row \in Row \ {adminRow[a]} : adminRow' = [adminRow EXCEPT ![a] = row]
  /\ UNCHANGED <<held, userRow, pc, call, reply>>
  /\ Observe({})

OperatorGrants(a) ==
  /\ \E p \in Permission : held' = [held EXCEPT ![a] =
       IF p \in @ THEN @ \ {p} ELSE @ \cup {p}]
  /\ UNCHANGED <<adminRow, userRow, pc, call, reply>>
  /\ Observe({})

OperatorDeletesUser(u) ==
  /\ userRow[u] # "absent"
  /\ userRow' = [userRow EXCEPT ![u] = "absent"]
  /\ UNCHANGED <<adminRow, held, pc, call, reply>>
  /\ Observe({})

Operator ==
  \/ \E a \in Admin : OperatorSetsRow(a) \/ OperatorGrants(a)
  \/ \E u \in User : OperatorDeletesUser(u)

Next == Operator \/ \E q \in Request : RequestStep(q)

Spec == Init /\ [][Next]_vars

-----------------------------------------------------------------------------
Guarded == {"user.list", "user.set_disabled", "rbac.overview"}

(* A guarded method answers with data only to an administrator whose row carried
   the token's name and was enabled at a moment of this request, and who held
   the permission then or later in it.  A request that begins after the disable
   or the revocation therefore gets nothing, whatever fails or changes. *)
GuardedReplyWasCleared ==
  \A q \in Request :
    reply[q] = "ok" /\ call[q].method \in Guarded => IsAdmin(q) /\ cleared[q]

(* The same for what it writes, also when the reply of the write is lost: no
   request switches a user, and none other than its target, without clearance. *)
SwitchWasCleared ==
  [][\A u \in User : userRow'[u] # userRow[u] /\ userRow'[u] # "absent" =>
       \E q \in Request :
         /\ pc[q] = "effect" /\ pc'[q] = "over"
         /\ call[q].method = "user.set_disabled" /\ call[q].target = u
         /\ IsAdmin(q) /\ cleared[q]]_vars

(* A refusal names a reason that was true during the request, but for one: when the
   query of the permissions fails, it is answered with none, and the caller is told
   that the permission is missing, whether it is or not (admin_auth_repo.go:64, 172).
   As long as that query succeeds, permissionDenied means that the permission was
   missing; an administrator in order is never called disabled or no administrator,
   and is told "failed" only if a statement failed. *)
RefusalIsTrue ==
  \A q \in Request :
    /\ reply[q] = "adminDisabled" => "disabled" \in facts[q]
    /\ reply[q] = "adminRequired" /\ IsAdmin(q) => "mismatch" \in facts[q]
    /\ reply[q] = "permissionDenied" => facts[q] \cap {"lacking", "failure"} # {}
    /\ reply[q] = "failed" /\ IsAdmin(q) => facts[q] \cap {"mismatch", "failure"} # {}
=============================================================================
