------------------------------ MODULE Accounts ------------------------------
(***************************************************************************)
(* Registration, logins and the administrator's switch, against replicas   *)
(* that initialise their administrator in the same database.               *)
(***************************************************************************)
EXTENDS AdminBootstrap, UserAuth

vars == <<tables, bootVars, reqVars>>

Init == StoreInit /\ BootInit /\ ReqInit

(* Requests are served by a replica that has finished NewData. *)
Served == \E r \in Replica : bootPc[r] = "serving"

Next ==
  \/ /\ \/ \E r \in Replica : BootStep(r)
        \/ \E n \in Name : OperatorDisablesAdmin(n)
     /\ UNCHANGED reqVars
  \/ /\ Served
     /\ \/ \E q \in Request : ReqStep(q)
        \/ \E n \in Name : AdminSetsDisabled(n)
     /\ UNCHANGED bootVars

Spec == Init /\ [][Next]_vars

-----------------------------------------------------------------------------
TypeOK == BootstrapTypeOK /\ ReqTypeOK

Confirmed(q) == op[q] = "register" /\ reply[q] = "ok"

(* Two registrations of one name are never both confirmed: of two requests that
   both saw no such user, the unique index picks one. *)
RegistrationHasOneWinner ==
  \A q, p \in Request :
    q # p /\ reqName[q] = reqName[p] => ~(Confirmed(q) /\ Confirmed(p))

(* "exists" is never answered for a free name, not even when a statement fails
   or the reply of an INSERT is lost. *)
ExistsReplyIsTrue ==
  \A q \in Request : reply[q] = "exists" =>
    users[reqName[q]] # "absent" \/ admins[reqName[q]] # "absent"

(* A login, of a user or of an administrator, succeeds only with the right password
   and only if the account was enabled at some moment of the request: one that
   begins after the account was disabled gets no token, however it interleaves with
   others.  A disabling between the read of the row and the token comes too late. *)
LoginSawEnabledAccount ==
  \A q \in Request : op[q] # "register" /\ reply[q] = "ok" => enabledSeen[q] /\ passwordOk[q]

(* Registrations, logins and starting replicas never change the flag of an
   existing account: neither the write of last_login_at nor the INSERT of a
   restart undoes a disabling that came in between. *)
OnlyAdministratorsSwitch ==
  [][reqPc' # reqPc \/ bootVars' # bootVars =>
       \A n \in Name : /\ users[n] # "absent" => users'[n] = users[n]
                       /\ admins[n] # "absent" => admins'[n] = admins[n]]_vars

(* The promise of CreateUser's comment: an account name is unique across users
   and admin_users.  The code does not keep it. *)
NameGloballyUnique ==
  \A n \in Name : users[n] = "absent" \/ admins[n] = "absent"
=============================================================================
