------------------------------ MODULE UserAuth ------------------------------
(***************************************************************************)
(* Registration and login of users and the login of administrators:        *)
(* AuthUsecase and AdminAuthUsecase of server/internal/biz over their      *)
(* repositories.  Every request is a process, and each of its steps is one *)
(* statement or one computation; statements of other requests, of an       *)
(* administrator and of a starting replica run between them.               *)
(***************************************************************************)
EXTENDS AccountStore

CONSTANT Request   (* calls of auth.register, auth.login, auth.admin_login   *)

VARIABLES
  reqPc,       (* where each request is                                       *)
  op,          (* "register", "login" or "adminLogin"                         *)
  reqName,     (* the username it carries                                     *)
  passwordOk,  (* whether its password matches the stored hash                *)
  row,         (* the row it read                                             *)
  reply,       (* what it answered                                            *)
  enabledSeen  (* history: the account was enabled at a moment of the request *)

reqVars == <<reqPc, op, reqName, passwordOk, row, reply, enabledSeen>>

Op == {"register", "login", "adminLogin"}
ReqPc == {"idle", "regLookup", "regAdminCheck", "regInsert", "loginRead", "adminRead",
          "token", "touch", "over"}
Reply == {"none", "ok", "exists", "notfound", "disabled", "badPassword", "error"}

ReqTypeOK ==
  /\ reqPc \in [Request -> ReqPc]
  /\ op \in [Request -> Op]
  /\ reqName \in [Request -> Name]
  /\ passwordOk \in [Request -> BOOLEAN]
  /\ row \in [Request -> Row]
  /\ reply \in [Request -> Reply]
  /\ enabledSeen \in [Request -> BOOLEAN]

ReqInit ==
  /\ reqPc = [q \in Request |-> "idle"]
  /\ op \in [Request -> Op]
  /\ reqName \in [Request -> Name]
  /\ passwordOk \in [Request -> BOOLEAN]
  /\ row = [q \in Request |-> "absent"]
  /\ reply = [q \in Request |-> "none"]
  /\ enabledSeen = [q \in Request |-> FALSE]

Step(q, from, to) == reqPc[q] = from /\ reqPc' = [reqPc EXCEPT ![q] = to]

Answer(q, from, what) ==
  /\ Step(q, from, "over")
  /\ reply' = [reply EXCEPT ![q] = what]

(* The history follows the row of every request that is under way. *)
Observe ==
  enabledSeen' = [q \in Request |->
    enabledSeen[q] \/ /\ reqPc'[q] # "idle" /\ reply[q] = "none"
                      /\ "enabled" \in IF op[q] = "adminLogin"
                                        THEN {admins[reqName[q]], admins'[reqName[q]]}
                                        ELSE {users[reqName[q]], users'[reqName[q]]}]

Quiet == UNCHANGED tables /\ UNCHANGED <<op, reqName, passwordOk>> /\ Observe

-----------------------------------------------------------------------------
(* Seeded faults                                                              *)

(* A failed lookup is taken for a hit. *)
RegisterLookup_ErrorIsHit(q) ==
  /\ \/ Answer(q, "regLookup", "exists")
     \/ users[reqName[q]] = "absent" /\ Step(q, "regLookup", "regAdminCheck") /\ UNCHANGED reply
  /\ Quiet /\ UNCHANGED row

(* users.username without its unique index. *)
RegisterInsert_NotUnique(q) ==
  LET n == reqName[q] IN
  /\ users' = [users EXCEPT ![n] = "enabled"]
  /\ UNCHANGED adminTables
  /\ Step(q, "regInsert", "token")
  /\ row' = [row EXCEPT ![q] = "enabled"]
  /\ UNCHANGED <<op, reply, reqName, passwordOk>> /\ Observe

(* Login without the check of Disabled. *)
LoginRead_AnyRow(q) ==
  LET n == reqName[q] IN
  /\ \/ Answer(q, "loginRead", "notfound") /\ UNCHANGED row
     \/ users[n] # "absent" /\ passwordOk[q] /\ Step(q, "loginRead", "token")
        /\ row' = [row EXCEPT ![q] = users[n]] /\ UNCHANGED reply
  /\ Quiet

-----------------------------------------------------------------------------
(* AuthUsecase.Register                                                       *)

RegisterStart(q) ==
  /\ op[q] = "register"
  /\ Step(q, "idle", "regLookup")
  /\ UNCHANGED <<tables, op, reqName, passwordOk, row, reply>> /\ Observe

(* GetUserByUsername: a hit ends the request; not found and a database error
   are not told apart, CreateUser decides.  Then bcrypt, which may fail. *)
RegisterLookup(q) ==
  /\ \/ users[reqName[q]] # "absent" /\ Answer(q, "regLookup", "exists")
     \/ Answer(q, "regLookup", "error")
     \/ Step(q, "regLookup", "regAdminCheck") /\ UNCHANGED reply
  /\ Quiet /\ UNCHANGED row

(* CreateUser, first statement: isUsernameUsedByAdmin. *)
RegisterAdminCheck(q) ==
  /\ \/ Answer(q, "regAdminCheck", "error")
     \/ admins[reqName[q]] # "absent" /\ Answer(q, "regAdminCheck", "exists")
     \/ admins[reqName[q]] = "absent" /\ Step(q, "regAdminCheck", "regInsert")
        /\ UNCHANGED reply
  /\ Quiet /\ UNCHANGED row

(* CreateUser, second statement: the INSERT is refused by the unique index, or
   commits, or fails; the reply of a committed INSERT may be lost. *)
RegisterInsert(q) ==
  LET n == reqName[q] IN
  /\ \/ /\ InsertUser(n)
        /\ \/ Step(q, "regInsert", "token") /\ UNCHANGED reply
           \/ Answer(q, "regInsert", "error")
        /\ row' = [row EXCEPT ![q] = "enabled"]
     \/ /\ \/ users[n] # "absent" /\ Answer(q, "regInsert", "exists")
           \/ Answer(q, "regInsert", "error")
        /\ UNCHANGED <<tables, row>>
  /\ UNCHANGED <<op, reqName, passwordOk>> /\ Observe

-----------------------------------------------------------------------------
(* AuthUsecase.Login                                                          *)

LoginStart(q) ==
  /\ op[q] = "login"
  /\ Step(q, "idle", "loginRead")
  /\ UNCHANGED <<tables, op, reqName, passwordOk, row, reply>> /\ Observe

(* GetUserByUsername, then the checks in the order of the code; a database
   error is answered like an unknown user. *)
LoginRead(q) ==
  LET n == reqName[q] IN
  /\ \/ Answer(q, "loginRead", "notfound") /\ UNCHANGED row
     \/ users[n] = "disabled" /\ Answer(q, "loginRead", "disabled") /\ UNCHANGED row
     \/ users[n] = "enabled" /\ ~passwordOk[q]
        /\ Answer(q, "loginRead", "badPassword") /\ UNCHANGED row
     \/ users[n] = "enabled" /\ passwordOk[q] /\ Step(q, "loginRead", "token")
        /\ row' = [row EXCEPT ![q] = "enabled"] /\ UNCHANGED reply
  /\ Quiet

-----------------------------------------------------------------------------
(* AdminAuthUsecase.Login                                                     *)

AdminLoginStart(q) ==
  /\ op[q] = "adminLogin"
  /\ Step(q, "idle", "adminRead")
  /\ UNCHANGED <<tables, op, reqName, passwordOk, row, reply>> /\ Observe

(* GetAdminByUsername, then the same checks.  Its statements for roles and
   permissions decide nothing here: when they fail the reply lists none. *)
AdminLoginRead(q) ==
  LET n == reqName[q] IN
  /\ \/ Answer(q, "adminRead", "notfound") /\ UNCHANGED row
     \/ admins[n] = "disabled" /\ Answer(q, "adminRead", "disabled") /\ UNCHANGED row
     \/ admins[n] = "enabled" /\ ~passwordOk[q]
        /\ Answer(q, "adminRead", "badPassword") /\ UNCHANGED row
     \/ admins[n] = "enabled" /\ passwordOk[q] /\ Step(q, "adminRead", "token")
        /\ row' = [row EXCEPT ![q] = "enabled"] /\ UNCHANGED reply
  /\ Quiet

-----------------------------------------------------------------------------
(* The tail they share: genTok, which may fail after the row was created, and
   the write of last_login_at, whose failure is ignored.                      *)

GenToken(q) ==
  /\ \/ Answer(q, "token", "error")
     \/ Step(q, "token", "touch") /\ UNCHANGED reply
  /\ Quiet /\ UNCHANGED row

Touch(q) ==
  /\ Answer(q, "touch", "ok")
  /\ \/ op[q] # "adminLogin" /\ TouchLastLogin(reqName[q], row[q])
     \/ op[q] = "adminLogin" /\ TouchAdminLastLogin(reqName[q], row[q])
     \/ UNCHANGED tables
  /\ UNCHANGED <<op, reqName, passwordOk, row>> /\ Observe

ReqStep(q) ==
  \/ RegisterStart(q) \/ RegisterLookup(q) \/ RegisterAdminCheck(q) \/ RegisterInsert(q)
  \/ LoginStart(q) \/ LoginRead(q) \/ AdminLoginStart(q) \/ AdminLoginRead(q)
  \/ GenToken(q) \/ Touch(q)

(* UserAdminUsecase.SetDisabled on behalf of an administrator. *)
AdminSetsDisabled(n) ==
  /\ \E b \in BOOLEAN : SetDisabled(n, b)
  /\ UNCHANGED <<reqPc, op, reqName, passwordOk, row, reply>>
  /\ Observe
=============================================================================
