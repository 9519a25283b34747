---------------------------- MODULE AccountsProofs ----------------------------
(***************************************************************************)
(* The initialisation of administrators by any number of replicas, and     *)
(* registrations and logins on the database that they initialise, for any  *)
(* number of requests and names.                                           *)
(*                                                                         *)
(* Every statement of the initialisation only adds to the tables, so what  *)
(* one replica has established no other undoes; IInv records what each     *)
(* replica has established by its place in the initialisation.             *)
(*                                                                         *)
(* The order of two requests is decided by one INSERT and by nothing that  *)
(* was read before it; rows stay, so what one request saw of a name being  *)
(* taken stays true. AInv records it by the place of each request.         *)
(***************************************************************************)
EXTENDS Accounts, TLAPS

-----------------------------------------------------------------------------
(* The initialisation.                                                     *)

AdminInserted(r) == admins[AdminOf[r]] # "absent"
PermsUpserted    == superRole /\ perms = Perm

(* By place: what the statements before it have left in the tables. *)
Place(r) ==
  /\ bootPc[r] \in {"admin", "perms", "grant", "bind"} => AdminOf[r] \in Name
  /\ bootPc[r] = "perms" => AdminInserted(r) /\ 1..(nextPerm[r] - 1) \subseteq perms
  /\ bootPc[r] = "grant" => AdminInserted(r) /\ PermsUpserted
  /\ bootPc[r] = "bind"  => AdminInserted(r) /\ PermsUpserted /\ grants = Perm
  /\ bootPc[r] = "serving" /\ AdminOf[r] # NoAdmin =>
       AdminInserted(r) /\ PermsUpserted /\ grants = Perm /\ AdminOf[r] \in bound

Established == \A r \in Replica : Place(r)

IInv == BootstrapTypeOK /\ Established

(* No step takes a row out of a table the initialisation fills. *)
TablesGrow ==
  /\ \A n \in Name : admins[n] # "absent" => admins'[n] # "absent"
  /\ perms \subseteq perms' /\ grants \subseteq grants' /\ bound \subseteq bound'
  /\ superRole => superRole'

-----------------------------------------------------------------------------
(* The tables and the loop counters keep their types. *)
LEMMA TypeStep == ASSUME IInv, [BootNext]_BootstrapVars PROVE BootstrapTypeOK'
<1> USE AccountStoreAssumption, AdminBootstrapAssumption
        DEF IInv, BootstrapTypeOK, StoreTypeOK, BootTypeOK, Row, Perm, BootPc, Goto
<1>1. ASSUME NEW r \in Replica, BootStart(r) PROVE BootstrapTypeOK'
  BY <1>1 DEF BootStart, tables
<1>2. ASSUME NEW r \in Replica, BootAdmin(r) PROVE BootstrapTypeOK'
  <2>1. admins' \in [Name -> Row]
    BY <1>2 DEF BootAdmin, InsertAdmin
  <2>2. nextPerm' \in [Replica -> 1..(NPerm + 1)]
    <3>1. 1 \in 1..(NPerm + 1)
      OBVIOUS
    <3> QED
      BY <1>2, <3>1 DEF BootAdmin
  <2> QED
    BY <1>2, <2>1, <2>2 DEF BootAdmin, InsertAdmin
<1>3. ASSUME NEW r \in Replica, BootPerm(r) PROVE BootstrapTypeOK'
  <2>1. nextPerm[r] \in Perm /\ nextPerm[r] + 1 \in 1..(NPerm + 1)
    BY <1>3 DEF BootPerm
  <2>2. nextPerm' \in [Replica -> 1..(NPerm + 1)]
    BY <1>3, <2>1 DEF BootPerm
  <2>3. perms' \subseteq Perm
    BY <1>3, <2>1 DEF BootPerm, UpsertPerm
  <2> QED
    BY <1>3, <2>2, <2>3 DEF BootPerm, UpsertPerm
<1>4. ASSUME NEW r \in Replica, BootRole(r) PROVE BootstrapTypeOK'
  BY <1>4 DEF BootRole, UpsertSuperRole
<1>5. ASSUME NEW r \in Replica, BootGrant(r) PROVE BootstrapTypeOK'
  BY <1>5 DEF BootGrant, GrantAll
<1>6. ASSUME NEW r \in Replica, BootBind(r) PROVE BootstrapTypeOK'
  <2>1. AdminOf[r] \in Name
    BY <1>6 DEF BootBind, Established, Place
  <2>2. bound' \subseteq Name
    BY <1>6, <2>1 DEF BootBind, BindAdmin
  <2> QED
    BY <1>6, <2>2 DEF BootBind, BindAdmin
<1>7. ASSUME NEW r \in Replica, BootCrash(r) PROVE BootstrapTypeOK'
  BY <1>7 DEF BootCrash, tables
<1>8. ASSUME NEW n \in Name, OperatorDisablesAdmin(n) PROVE BootstrapTypeOK'
  BY <1>8 DEF OperatorDisablesAdmin, bootVars
<1>9. CASE UNCHANGED BootstrapVars
  BY <1>9 DEF BootstrapVars, tables, bootVars
<1> QED
  BY <1>1, <1>2, <1>3, <1>4, <1>5, <1>6, <1>7, <1>8, <1>9
     DEF BootNext, BootStep, BootProgress

(* ON CONFLICT DO NOTHING and the upserts add rows; so does everybody else. *)
LEMMA Growth == ASSUME IInv, [BootNext]_BootstrapVars PROVE TablesGrow
<1> USE DEF IInv, BootstrapTypeOK, StoreTypeOK, TablesGrow
<1>1. ASSUME NEW r \in Replica, BootStep(r) PROVE TablesGrow
  <2>1. CASE BootStart(r) \/ BootCrash(r)
    BY <2>1 DEF BootStart, BootCrash, tables
  <2>2. CASE BootAdmin(r)
    BY <2>2 DEF BootAdmin, InsertAdmin
  <2>3. CASE BootPerm(r)
    BY <2>3 DEF BootPerm, UpsertPerm
  <2>4. CASE BootRole(r)
    BY <2>4 DEF BootRole, UpsertSuperRole
  <2>5. CASE BootGrant(r)
    BY <2>5 DEF BootGrant, GrantAll
  <2>6. CASE BootBind(r)
    BY <2>6 DEF BootBind, BindAdmin
  <2> QED
    BY <1>1, <2>1, <2>2, <2>3, <2>4, <2>5, <2>6 DEF BootStep, BootProgress
<1>2. ASSUME NEW n \in Name, OperatorDisablesAdmin(n) PROVE TablesGrow
  BY <1>2 DEF OperatorDisablesAdmin
<1>3. CASE UNCHANGED BootstrapVars
  BY <1>3 DEF BootstrapVars, tables
<1> QED
  BY <1>1, <1>2, <1>3 DEF BootNext

(* A replica that a step does not move keeps what it has established, because
   the tables only grow and are bounded by their types. *)
LEMMA PlaceKept ==
  ASSUME IInv, TablesGrow, BootstrapTypeOK', NEW r \in Replica,
         bootPc'[r] = bootPc[r], nextPerm'[r] = nextPerm[r]
  PROVE  Place(r)'
<1>1. AdminOf[r] \in Name \cup {NoAdmin}
  BY AdminBootstrapAssumption
<1>2. AdminOf[r] \in Name /\ AdminInserted(r) => AdminInserted(r)'
  BY DEF TablesGrow, AdminInserted
<1>3. PermsUpserted => PermsUpserted'
  BY DEF TablesGrow, PermsUpserted, BootstrapTypeOK, StoreTypeOK
<1>4. grants = Perm => grants' = Perm
  BY DEF TablesGrow, BootstrapTypeOK, StoreTypeOK
<1>5. AdminOf[r] \in bound => (AdminOf[r] \in bound)'
  BY DEF TablesGrow
<1>6. 1..(nextPerm[r] - 1) \subseteq perms => (1..(nextPerm[r] - 1) \subseteq perms)'
  BY DEF TablesGrow
<1>7. Place(r)
  BY DEF IInv, Established
<1> QED
  BY <1>1, <1>2, <1>3, <1>4, <1>5, <1>6, <1>7 DEF Place

(* The replica that executes a statement, statement by statement. *)
LEMMA PlaceReached ==
  ASSUME IInv, BootstrapTypeOK', NEW r \in Replica, BootStep(r)
  PROVE  Place(r)'
<1> USE DEF BootstrapTypeOK, StoreTypeOK, BootTypeOK, Goto
<1>1. Place(r) /\ BootstrapTypeOK
  BY DEF IInv, Established
<1>2. CASE BootStart(r)
  <2>1. bootPc'[r] = IF AdminOf[r] = NoAdmin THEN "serving" ELSE "admin"
    BY <1>1, <1>2 DEF BootStart
  <2> QED
    BY <2>1, AdminBootstrapAssumption DEF Place
<1>3. CASE BootAdmin(r)
  <2>1. AdminOf[r] \in Name /\ bootPc'[r] = "perms" /\ nextPerm'[r] = 1
    BY <1>1, <1>3 DEF BootAdmin, Place
  <2>2. AdminInserted(r)'
    BY <1>1, <1>3, <2>1 DEF BootAdmin, InsertAdmin, AdminInserted
  <2>3. (1..(nextPerm[r] - 1) \subseteq perms)'
    BY <2>1
  <2> QED
    BY <2>1, <2>2, <2>3 DEF Place
<1>4. CASE BootPerm(r)
  <2>1. bootPc'[r] = "perms" /\ nextPerm'[r] = nextPerm[r] + 1 /\ nextPerm[r] \in Nat
    BY <1>1, <1>4 DEF BootPerm, Perm
  <2>2. AdminOf[r] \in Name /\ AdminInserted(r)'
    BY <1>1, <1>4 DEF BootPerm, UpsertPerm, AdminInserted, Place
  <2>3. (1..(nextPerm[r] - 1) \subseteq perms)'
    BY <1>1, <1>4, <2>1 DEF BootPerm, UpsertPerm, Place
  <2> QED
    BY <2>1, <2>2, <2>3 DEF Place
<1>5. CASE BootRole(r)
  <2>1. AdminOf[r] \in Name /\ bootPc'[r] = "grant" /\ AdminInserted(r)'
    BY <1>1, <1>5 DEF BootRole, UpsertSuperRole, AdminInserted, Place
  <2>2. nextPerm[r] = NPerm + 1
    BY <1>1, <1>5, AccountStoreAssumption DEF BootRole, Perm
  <2>3. nextPerm[r] - 1 = NPerm
    BY <2>2, AccountStoreAssumption
  <2>4. perms = Perm
    BY <1>1, <1>5, <2>3 DEF BootRole, Place, Perm
  <2>5. PermsUpserted'
    BY <1>5, <2>4 DEF BootRole, UpsertSuperRole, PermsUpserted
  <2> QED
    BY <2>1, <2>5 DEF Place
<1>6. CASE BootGrant(r)
  <2>1. AdminOf[r] \in Name /\ bootPc'[r] = "bind" /\ AdminInserted(r)' /\ PermsUpserted
    BY <1>1, <1>6 DEF BootGrant, GrantAll, AdminInserted, Place
  <2>2. PermsUpserted' /\ grants' = Perm
    BY <1>1, <1>6, <2>1 DEF BootGrant, GrantAll, PermsUpserted
  <2> QED
    BY <2>1, <2>2 DEF Place
<1>7. CASE BootBind(r)
  <2>1. /\ AdminOf[r] \in Name /\ bootPc'[r] = "serving"
        /\ AdminInserted(r) /\ PermsUpserted /\ grants = Perm
    BY <1>1, <1>7 DEF BootBind, Place
  <2>2. AdminInserted(r)' /\ PermsUpserted' /\ grants' = Perm /\ AdminOf[r] \in bound'
    BY <1>7, <2>1 DEF BootBind, BindAdmin, AdminInserted, PermsUpserted
  <2> QED
    BY <2>1, <2>2 DEF Place
<1>8. CASE BootCrash(r)
  BY <1>1, <1>8 DEF BootCrash, Place
<1> QED
  BY <1>2, <1>3, <1>4, <1>5, <1>6, <1>7, <1>8 DEF BootStep, BootProgress

-----------------------------------------------------------------------------
LEMMA InitEstablishes == BootstrapInit => IInv
<1> SUFFICES ASSUME BootstrapInit PROVE IInv
  OBVIOUS
<1> USE DEF BootstrapInit
<1>1. StoreTypeOK
  BY DEF StoreInit, StoreTypeOK, Row
<1>2. BootTypeOK
  <2>1. 1 \in 1..(NPerm + 1)
    BY AccountStoreAssumption
  <2> QED
    BY <2>1 DEF BootInit, BootTypeOK, BootPc
<1>3. Established
  BY DEF BootInit, Established, Place
<1> QED
  BY <1>1, <1>2, <1>3 DEF IInv, BootstrapTypeOK

LEMMA StepPreserves == IInv /\ [BootNext]_BootstrapVars => IInv'
<1> SUFFICES ASSUME IInv, [BootNext]_BootstrapVars PROVE IInv'
  OBVIOUS
<1>1. BootstrapTypeOK' /\ TablesGrow
  BY TypeStep, Growth
<1>2. ASSUME NEW r \in Replica PROVE Place(r)'
  <2>1. CASE BootStep(r)
    BY <1>1, <2>1, PlaceReached
  <2>2. ASSUME NEW s \in Replica, s # r, BootStep(s) PROVE Place(r)'
    <3>1. bootPc'[r] = bootPc[r] /\ nextPerm'[r] = nextPerm[r]
      BY <2>2 DEF IInv, BootstrapTypeOK, BootTypeOK, Goto, BootStep, BootProgress, BootStart,
                  BootAdmin, BootPerm, BootRole, BootGrant, BootBind, BootCrash
    <3> QED
      BY <1>1, <3>1, PlaceKept
  <2>3. ASSUME NEW n \in Name, OperatorDisablesAdmin(n) PROVE Place(r)'
    BY <1>1, <2>3, PlaceKept DEF OperatorDisablesAdmin, bootVars
  <2>4. CASE UNCHANGED BootstrapVars
    BY <1>1, <2>4, PlaceKept DEF BootstrapVars, bootVars
  <2> QED
    BY <2>1, <2>2, <2>3, <2>4 DEF BootNext
<1> QED
  BY <1>1, <1>2 DEF IInv, Established

(* The inductive invariant holds whatever the replicas, names and permissions. *)
THEOREM BootstrapInvariant == BootstrapSpec => []IInv
<1>1. BootstrapInit => IInv
  BY InitEstablishes
<1>2. IInv /\ [BootNext]_BootstrapVars => IInv'
  BY StepPreserves
<1> QED
  BY <1>1, <1>2, PTL DEF BootstrapSpec

(* The tables keep their types: the loop over the permissions stays in bounds. *)
THEOREM TypeCorrect == BootstrapSpec => []BootstrapTypeOK
<1>1. IInv => BootstrapTypeOK
  BY DEF IInv
<1> QED
  BY <1>1, BootstrapInvariant, PTL

(* A replica that serves finds its administrator, bound to super_admin, with every
   default permission, whatever the other replicas have done or left undone. *)
THEOREM ServingHasDefaults == BootstrapSpec => []ServingImpliesDefaults
<1>1. IInv => ServingImpliesDefaults
  BY DEF IInv, Established, Place, AdminInserted, PermsUpserted, ServingImpliesDefaults
<1> QED
  BY <1>1, BootstrapInvariant, PTL

(* Neither a start nor a restart of a replica re-enables an administrator. *)
THEOREM RestartKeepsRow == BootstrapSpec => RestartKeepsAdminRow
<1>1. ASSUME IInv, [BootNext]_BootstrapVars, NEW n \in Name, admins[n] = "disabled"
      PROVE  admins'[n] = "disabled"
  BY <1>1 DEF IInv, BootstrapTypeOK, StoreTypeOK, BootNext, BootStep, BootProgress, BootStart,
              BootAdmin, BootPerm, BootRole, BootGrant, BootBind, BootCrash, InsertAdmin,
              UpsertPerm, UpsertSuperRole, GrantAll, BindAdmin, OperatorDisablesAdmin,
              BootstrapVars, tables
<1>2. IInv /\ [BootNext]_BootstrapVars
        => [\A n \in Name : admins[n] = "disabled" => admins'[n] = "disabled"]_BootstrapVars
  BY <1>1
<1> QED
  BY <1>2, BootstrapInvariant, PTL DEF BootstrapSpec, RestartKeepsAdminRow

-----------------------------------------------------------------------------
(* Requests on the database.                                               *)

(* A registration whose INSERT went through and was not answered with an error. *)
Won(q) == op[q] = "register" /\ (reqPc[q] \in {"token", "touch"} \/ reply[q] = "ok")

(* What holds of a request by its place. *)
ReqPlace(q) ==
  /\ reqPc[q] # "over" => reply[q] = "none"
  /\ reqPc[q] \in {"regLookup", "regAdminCheck", "regInsert"} => op[q] = "register"
  /\ reqPc[q] = "loginRead" => op[q] = "login"
  /\ reqPc[q] = "adminRead" => op[q] = "adminLogin"
  /\ op[q] # "register" /\ reqPc[q] \in {"token", "touch"} => enabledSeen[q] /\ passwordOk[q]
  /\ op[q] # "register" /\ reply[q] = "ok" => enabledSeen[q] /\ passwordOk[q]
  /\ Won(q) => users[reqName[q]] # "absent"
  /\ reply[q] = "exists" => users[reqName[q]] # "absent" \/ admins[reqName[q]] # "absent"

OneWinner == \A q, p \in Request : Won(q) /\ Won(p) /\ reqName[q] = reqName[p] => q = p

AInv ==
  /\ IInv
  /\ ReqTypeOK
  /\ \A q \in Request : ReqPlace(q)
  /\ OneWinner

(* Rows stay. *)
RowsStay == \A n \in Name : /\ users[n] # "absent" => users'[n] # "absent"
                            /\ admins[n] # "absent" => admins'[n] # "absent"

-----------------------------------------------------------------------------
LEMMA AccountsInit == Init => AInv
<1> SUFFICES ASSUME Init PROVE AInv
  OBVIOUS
<1>1. IInv
  BY InitEstablishes DEF Init, BootstrapInit
<1>2. ReqTypeOK
  BY DEF Init, ReqInit, ReqTypeOK, ReqPc, Reply, Row
<1>3. \A q \in Request : ReqPlace(q) /\ ~Won(q)
  BY DEF Init, ReqInit, ReqPlace, Won
<1> QED
  BY <1>1, <1>2, <1>3 DEF AInv, OneWinner

(* A replica that starts, or the operator: the requests do not move. *)
LEMMA BootKeeps ==
  ASSUME AInv, BootNext, UNCHANGED reqVars
  PROVE  AInv' /\ users' = users /\ RowsStay
<1>1. IInv'
  BY StepPreserves DEF AInv
<1>2. users' = users
  BY DEF BootNext, BootStep, BootProgress, BootStart, BootAdmin, BootPerm, BootRole, BootGrant,
         BootBind, BootCrash, OperatorDisablesAdmin, InsertAdmin, UpsertPerm, UpsertSuperRole,
         GrantAll, BindAdmin, tables
<1>3. RowsStay
  BY <1>2, Growth DEF AInv, TablesGrow, RowsStay
<1>4. ReqTypeOK' /\ OneWinner'
  BY DEF AInv, ReqTypeOK, OneWinner, Won, reqVars
<1>5. ASSUME NEW q \in Request PROVE ReqPlace(q)'
  <2>1. ReqPlace(q) /\ reqName[q] \in Name
    BY DEF AInv, ReqTypeOK
  <2> QED
    BY <1>2, <1>3, <2>1 DEF ReqPlace, Won, RowsStay, reqVars
<1> QED
  BY <1>1, <1>2, <1>3, <1>4, <1>5 DEF AInv

(* The statements on users leave what the replicas established alone. *)
LEMMA UsersKeepBoot ==
  ASSUME IInv, users' \in [Name -> Row], UNCHANGED adminTables, UNCHANGED bootVars
  PROVE  IInv'
  BY DEF IInv, BootstrapTypeOK, StoreTypeOK, BootTypeOK, Established, Place, AdminInserted,
         PermsUpserted, adminTables, bootVars

(* What a step of a request may do to users: the row of its INSERT, or nothing. *)
LEMMA ReqTables ==
  ASSUME AInv, NEW q \in Request, ReqStep(q)
  PROVE  /\ UNCHANGED adminTables
         /\ users' \in [Name -> Row]
         /\ \/ users' = users
            \/ /\ RegisterInsert(q)
               /\ users[reqName[q]] = "absent"
               /\ users' = [users EXCEPT ![reqName[q]] = "enabled"]
         /\ UNCHANGED <<op, reqName, passwordOk>>
<1>1. users \in [Name -> Row] /\ reqName[q] \in Name
  BY DEF AInv, IInv, BootstrapTypeOK, StoreTypeOK, ReqTypeOK
<1>2. CASE RegisterInsert(q)
  BY <1>1, <1>2 DEF RegisterInsert, InsertUser, tables, adminTables, Row
<1>3. CASE ~RegisterInsert(q)
  <2>1. UNCHANGED tables /\ UNCHANGED <<op, reqName, passwordOk>>
    BY <1>3 DEF ReqStep, RegisterStart, RegisterLookup, RegisterAdminCheck, LoginStart,
                LoginRead, AdminLoginStart, AdminLoginRead, GenToken, Touch, Quiet,
                TouchLastLogin, TouchAdminLastLogin
  <2> QED
    BY <1>1, <2>1 DEF tables, adminTables
<1> QED
  BY <1>2, <1>3

(* A request moves itself and no other. *)
LEMMA ReqMoves ==
  ASSUME AInv, NEW q \in Request, ReqStep(q)
  PROVE  /\ ReqTypeOK'
         /\ \A p \in Request \ {q} : reqPc'[p] = reqPc[p] /\ reply'[p] = reply[p]
         /\ \A p \in Request : enabledSeen[p] => enabledSeen'[p]
<1> USE DEF AInv, ReqTypeOK, ReqStep, RegisterStart, RegisterLookup, RegisterAdminCheck,
            RegisterInsert, LoginStart, LoginRead, AdminLoginStart, AdminLoginRead, GenToken,
            Touch, Quiet, Step, Answer
<1>1. reqPc' \in [Request -> ReqPc] /\ reply' \in [Request -> Reply]
  BY DEF ReqPc, Reply
<1>2. \A p \in Request \ {q} : reqPc'[p] = reqPc[p] /\ reply'[p] = reply[p]
  OBVIOUS
<1>3. row' \in [Request -> Row]
  BY DEF Row
<1>4. enabledSeen' \in [Request -> BOOLEAN]
      /\ \A p \in Request : enabledSeen[p] => enabledSeen'[p]
  <2>1. Observe
    OBVIOUS
  <2> QED
    BY <2>1, Zenon DEF Observe
<1> QED
  BY <1>1, <1>2, <1>3, <1>4, ReqTables

-----------------------------------------------------------------------------
(* The request that moves reaches its next place. *)
LEMMA ReqReaches ==
  ASSUME AInv, NEW q \in Request, ReqStep(q)
  PROVE  ReqPlace(q)'
<1>1. ReqPlace(q) /\ op[q] \in Op /\ reqName[q] \in Name
  BY DEF AInv, ReqTypeOK
<1>2. UNCHANGED <<op, reqName, passwordOk>> /\ (enabledSeen[q] => enabledSeen'[q])
  BY ReqTables, ReqMoves
<1>3. reqPc \in [Request -> ReqPc] /\ reply \in [Request -> Reply]
  BY DEF AInv, ReqTypeOK
<1>4. users'[reqName[q]] = "absent" => users[reqName[q]] = "absent"
  BY <1>1, ReqTables DEF AInv, IInv, BootstrapTypeOK, StoreTypeOK
<1>5. admins' = admins
  BY ReqTables DEF adminTables
<1> USE DEF ReqPlace, Won, Step, Answer
<1>6. CASE RegisterStart(q) \/ LoginStart(q) \/ AdminLoginStart(q)
  BY <1>1, <1>2, <1>3, <1>4, <1>5, <1>6 DEF RegisterStart, LoginStart, AdminLoginStart
<1>7. CASE RegisterLookup(q)
  BY <1>1, <1>2, <1>3, <1>4, <1>5, <1>7 DEF RegisterLookup
<1>8. CASE RegisterAdminCheck(q)
  BY <1>1, <1>2, <1>3, <1>4, <1>5, <1>8 DEF RegisterAdminCheck
<1>9. CASE RegisterInsert(q)
  <2>1. users \in [Name -> Row]
    BY DEF AInv, IInv, BootstrapTypeOK, StoreTypeOK
  <2> QED
    BY <1>1, <1>2, <1>3, <1>4, <1>5, <1>9, <2>1 DEF RegisterInsert, InsertUser
<1>10. CASE LoginRead(q)
  <2>1. reqPc'[q] = "token" => enabledSeen'[q] /\ passwordOk[q]
    BY <1>1, <1>3, <1>10 DEF LoginRead, Quiet, Observe, ReqTypeOK
  <2> QED
    BY <1>1, <1>2, <1>3, <1>4, <1>5, <1>10, <2>1 DEF LoginRead
<1>11. CASE AdminLoginRead(q)
  <2>1. reqPc'[q] = "token" => enabledSeen'[q] /\ passwordOk[q]
    BY <1>1, <1>3, <1>11 DEF AdminLoginRead, Quiet, Observe, ReqTypeOK
  <2> QED
    BY <1>1, <1>2, <1>3, <1>4, <1>5, <1>11, <2>1 DEF AdminLoginRead
<1>12. CASE GenToken(q)
  BY <1>1, <1>2, <1>3, <1>4, <1>5, <1>12 DEF GenToken
<1>13. CASE Touch(q)
  BY <1>1, <1>2, <1>3, <1>4, <1>5, <1>13 DEF Touch
<1> QED
  BY <1>6, <1>7, <1>8, <1>9, <1>10, <1>11, <1>12, <1>13 DEF ReqStep

(* A request becomes a winner by its INSERT only, which no winner of the name can
   have preceded. *)
LEMMA ReqOneWinner ==
  ASSUME AInv, NEW q \in Request, ReqStep(q)
  PROVE  OneWinner'
<1>1. \A p \in Request \ {q} : Won(p)' => Won(p)
  BY ReqTables, ReqMoves DEF Won
<1>2. UNCHANGED reqName /\ UNCHANGED op
  BY ReqTables
<1>3. Won(q)' /\ ~Won(q) => RegisterInsert(q) /\ users[reqName[q]] = "absent"
  BY DEF AInv, ReqTypeOK, ReqPlace, Won, ReqStep, RegisterStart, RegisterLookup,
         RegisterAdminCheck, RegisterInsert, InsertUser, LoginStart, LoginRead,
         AdminLoginStart, AdminLoginRead, GenToken, Touch, Quiet, Step, Answer
<1>4. \A p \in Request : Won(p) => users[reqName[p]] # "absent"
  BY DEF AInv, ReqPlace
<1> QED
  BY <1>1, <1>2, <1>3, <1>4 DEF AInv, OneWinner

LEMMA ReqKeeps ==
  ASSUME AInv, NEW q \in Request, ReqStep(q), UNCHANGED bootVars
  PROVE  AInv' /\ RowsStay /\ \A n \in Name : /\ users[n] # "absent" => users'[n] = users[n]
                                              /\ admins'[n] = admins[n]
<1>1. IInv'
  BY ReqTables, UsersKeepBoot DEF AInv
<1>2. ReqTypeOK' /\ OneWinner'
  BY ReqMoves, ReqOneWinner
<1>3. \A n \in Name : /\ users[n] # "absent" => users'[n] = users[n]
                      /\ admins'[n] = admins[n]
  BY ReqTables DEF AInv, IInv, BootstrapTypeOK, StoreTypeOK, adminTables
<1>4. RowsStay
  BY <1>3 DEF RowsStay
<1>5. ASSUME NEW p \in Request PROVE ReqPlace(p)'
  <2>1. CASE p = q
    BY <2>1, ReqReaches
  <2>2. CASE p # q
    <3>1. /\ ReqPlace(p) /\ reqName[p] \in Name
          /\ reqPc'[p] = reqPc[p] /\ reply'[p] = reply[p]
          /\ UNCHANGED <<op, reqName, passwordOk>> /\ (enabledSeen[p] => enabledSeen'[p])
      BY <2>2, ReqTables, ReqMoves DEF AInv, ReqTypeOK
    <3> QED
      BY <1>4, <3>1 DEF ReqPlace, Won, RowsStay
  <2> QED
    BY <2>1, <2>2
<1> QED
  BY <1>1, <1>2, <1>3, <1>4, <1>5 DEF AInv

(* The administrator's switch. *)
LEMMA SwitchKeeps ==
  ASSUME AInv, NEW n \in Name, AdminSetsDisabled(n), UNCHANGED bootVars
  PROVE  AInv' /\ RowsStay
<1>1. /\ UNCHANGED adminTables /\ UNCHANGED <<reqPc, op, reqName, passwordOk, row, reply>>
      /\ users' \in [Name -> Row]
      /\ \A m \in Name : users[m] # "absent" => users'[m] # "absent"
  BY DEF AdminSetsDisabled, SetDisabled, AInv, IInv, BootstrapTypeOK, StoreTypeOK, Row
<1>2. enabledSeen' \in [Request -> BOOLEAN]
      /\ \A p \in Request : enabledSeen[p] => enabledSeen'[p]
  BY Zenon DEF AdminSetsDisabled, Observe
<1>3. IInv'
  BY <1>1, UsersKeepBoot DEF AInv
<1>4. ReqTypeOK' /\ OneWinner'
  BY <1>1, <1>2 DEF AInv, ReqTypeOK, OneWinner, Won
<1>5. RowsStay
  BY <1>1 DEF RowsStay, adminTables
<1>6. ASSUME NEW p \in Request PROVE ReqPlace(p)'
  <2>1. ReqPlace(p) /\ reqName[p] \in Name
    BY DEF AInv, ReqTypeOK
  <2> QED
    BY <1>1, <1>2, <1>5, <2>1 DEF ReqPlace, Won, RowsStay
<1> QED
  BY <1>3, <1>4, <1>5, <1>6 DEF AInv

LEMMA AccountsStep == AInv /\ [Next]_vars => AInv'
<1> SUFFICES ASSUME AInv, [Next]_vars PROVE AInv'
  OBVIOUS
<1>1. CASE BootNext /\ UNCHANGED reqVars
  BY <1>1, BootKeeps
<1>2. ASSUME NEW q \in Request, ReqStep(q), UNCHANGED bootVars PROVE AInv'
  BY <1>2, ReqKeeps
<1>3. ASSUME NEW n \in Name, AdminSetsDisabled(n), UNCHANGED bootVars PROVE AInv'
  BY <1>3, SwitchKeeps
<1>4. CASE UNCHANGED vars
  <2>1. IInv'
    BY <1>4, StepPreserves DEF AInv, vars, BootstrapVars
  <2> QED
    BY <1>4, <2>1 DEF AInv, ReqTypeOK, ReqPlace, OneWinner, Won, vars, tables, reqVars
<1> QED
  BY <1>1, <1>2, <1>3, <1>4 DEF Next, BootNext

THEOREM AccountsInvariant == Spec => []AInv
<1> QED
  BY AccountsInit, AccountsStep, PTL DEF Spec

(* Requests and tables keep their types, and serving replicas their defaults, when
   requests and replicas share the database. *)
THEOREM AccountsTypeCorrect == Spec => []TypeOK
<1>1. AInv => TypeOK
  BY DEF AInv, IInv, TypeOK
<1> QED
  BY <1>1, AccountsInvariant, PTL

(* A serving replica's defaults are as safe among requests as without them. *)
THEOREM ServingAmongRequests == Spec => []ServingImpliesDefaults
<1>1. AInv => ServingImpliesDefaults
  BY DEF AInv, IInv, Established, Place, AdminInserted, PermsUpserted, ServingImpliesDefaults
<1> QED
  BY <1>1, AccountsInvariant, PTL

(* Of any number of registrations of a name one is confirmed at most. *)
THEOREM OneConfirmed == Spec => []RegistrationHasOneWinner
<1>1. AInv => RegistrationHasOneWinner
  BY DEF AInv, OneWinner, Won, RegistrationHasOneWinner, Confirmed
<1> QED
  BY <1>1, AccountsInvariant, PTL

(* "exists" stays true of a name that was answered so. *)
THEOREM ExistsIsTrue == Spec => []ExistsReplyIsTrue
<1>1. AInv => ExistsReplyIsTrue
  BY DEF AInv, ReqPlace, ExistsReplyIsTrue
<1> QED
  BY <1>1, AccountsInvariant, PTL

(* Whoever logged in had the right password and was enabled at some moment of the
   login. *)
THEOREM LoginWasEnabled == Spec => []LoginSawEnabledAccount
<1>1. AInv => LoginSawEnabledAccount
  BY DEF AInv, ReqPlace, LoginSawEnabledAccount
<1> QED
  BY <1>1, AccountsInvariant, PTL

(* Requests and starting replicas leave the flag of every account alone. *)
THEOREM NobodyElseSwitches == Spec => OnlyAdministratorsSwitch
<1>1. ASSUME AInv, [Next]_vars, reqPc' # reqPc \/ bootVars' # bootVars, NEW n \in Name
      PROVE  /\ users[n] # "absent" => users'[n] = users[n]
             /\ admins[n] # "absent" => admins'[n] = admins[n]
  <2>1. ASSUME NEW r \in Replica, BootStep(r)
        PROVE  users' = users /\ (admins[n] # "absent" => admins'[n] = admins[n])
    BY <1>1, <2>1 DEF AInv, IInv, BootstrapTypeOK, StoreTypeOK, BootStep, BootProgress,
       BootStart, BootAdmin, BootPerm, BootRole, BootGrant, BootBind, BootCrash, InsertAdmin,
       UpsertPerm, UpsertSuperRole, GrantAll, BindAdmin, tables
  <2>2. ASSUME NEW q \in Request, ReqStep(q), UNCHANGED bootVars
        PROVE  /\ users[n] # "absent" => users'[n] = users[n]
               /\ admins'[n] = admins[n]
    BY <1>1, <2>2, ReqKeeps
  <2>3. ~ \E m \in Name : OperatorDisablesAdmin(m) /\ UNCHANGED reqVars
    BY <1>1 DEF OperatorDisablesAdmin, reqVars
  <2>4. ~ \E m \in Name : AdminSetsDisabled(m) /\ UNCHANGED bootVars
    BY <1>1 DEF AdminSetsDisabled
  <2>5. ~ UNCHANGED vars
    BY <1>1 DEF vars, reqVars
  <2> QED
    BY <1>1, <2>1, <2>2, <2>3, <2>4, <2>5 DEF Next
<1>2. AInv /\ [Next]_vars
        => [reqPc' # reqPc \/ bootVars' # bootVars =>
              \A n \in Name : /\ users[n] # "absent" => users'[n] = users[n]
                              /\ admins[n] # "absent" => admins'[n] = admins[n]]_vars
  BY <1>1
<1> QED
  BY <1>2, AccountsInvariant, PTL DEF Spec, OnlyAdministratorsSwitch
=============================================================================
