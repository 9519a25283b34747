--------------------------- MODULE AdminGateProofs ---------------------------
(***************************************************************************)
(* Why checks that read the tables again and again, with nothing that      *)
(* holds the tables still, let no request through without clearance, for   *)
(* any number of requests, accounts and permissions: each check leaves a   *)
(* fact in the history of the request, and later checks only add to it.    *)
(***************************************************************************)
EXTENDS AdminGate, TLAPS

(* What a request has shown by its place, and what its answer says. *)
Place(q) ==
  /\ pc[q] # "over" => reply[q] = "none"
  /\ pc[q] = "me" => call[q].method = "auth.me"
  /\ pc[q] \in {"row1", "row2", "perms", "effect"} => IsAdmin(q)
  /\ pc[q] \in {"row2", "perms"} => "inOrder" \in facts[q]
  /\ pc[q] = "effect" => cleared[q]
  /\ reply[q] = "ok" /\ call[q].method \in Guarded => IsAdmin(q) /\ cleared[q]
  /\ reply[q] = "adminDisabled" => "disabled" \in facts[q]
  /\ reply[q] = "adminRequired" /\ IsAdmin(q) => "mismatch" \in facts[q]
  /\ reply[q] = "permissionDenied" => facts[q] \cap {"lacking", "failure"} # {}
  /\ reply[q] = "failed" /\ IsAdmin(q) => facts[q] \cap {"mismatch", "failure"} # {}

IInv == TypeOK /\ \A q \in Request : Place(q)

-----------------------------------------------------------------------------
(* The history of a request that is under way after a step. *)
LEMMA Observed ==
  ASSUME TypeOK, NEW F, Observe(F), NEW q \in Request
  PROVE  /\ facts[q] \subseteq facts'[q]
         /\ cleared[q] => cleared'[q]
         /\ pc'[q] # "idle" /\ reply[q] = "none" =>
              /\ FactsNow(q) \subseteq facts'[q]
              /\ q \in F => "failure" \in facts'[q]
              /\ IsAdmin(q) /\ "inOrder" \in facts'[q] /\ "lacking" \notin FactsNow(q)'
                   => cleared'[q]
<1>1. facts'[q] = IF pc'[q] = "idle" \/ reply[q] # "none" THEN facts[q]
                  ELSE facts[q] \cup FactsNow(q) \cup FactsNow(q)'
                                \cup (IF q \in F THEN {"failure"} ELSE {})
  BY DEF Observe
<1>2. cleared'[q] = (cleared[q] \/ /\ pc'[q] # "idle" /\ reply[q] = "none" /\ IsAdmin(q)
                                   /\ "inOrder" \in facts'[q]
                                   /\ "lacking" \notin FactsNow(q)')
  BY DEF Observe
<1>3. /\ cleared[q] => cleared'[q]
      /\ pc'[q] # "idle" /\ reply[q] = "none" /\ IsAdmin(q) /\ "inOrder" \in facts'[q]
           /\ "lacking" \notin FactsNow(q)' => cleared'[q]
  BY <1>2, Zenon
<1> QED
  BY <1>1, <1>3

(* Facts are about the tables and the token only. *)
LEMMA FactsKept ==
  ASSUME UNCHANGED tables, UNCHANGED call, NEW q \in Request
  PROVE  FactsNow(q)' = FactsNow(q)
BY DEF FactsNow, IsAdmin, Tok, Mismatch, RowOf, PermsOf, tables

LEMMA FactTypes ==
  ASSUME NEW q \in Request
  PROVE  FactsNow(q) \subseteq Fact /\ FactsNow(q)' \subseteq Fact
BY DEF FactsNow, Fact

LEMMA ObserveTypes ==
  ASSUME TypeOK, NEW F, Observe(F)
  PROVE  facts' \in [Request -> SUBSET Fact] /\ cleared' \in [Request -> BOOLEAN]
<1>1. cleared' \in [Request -> BOOLEAN]
  BY Zenon DEF Observe
<1>2. ASSUME NEW q \in Request PROVE facts'[q] \in SUBSET Fact
  <2>1. FactsNow(q) \subseteq Fact /\ FactsNow(q)' \subseteq Fact
    BY FactTypes
  <2>2. facts[q] \subseteq Fact /\ "failure" \in Fact
    BY DEF TypeOK, Fact
  <2>3. facts'[q] = IF pc'[q] = "idle" \/ reply[q] # "none" THEN facts[q]
                    ELSE facts[q] \cup FactsNow(q) \cup FactsNow(q)'
                                  \cup (IF q \in F THEN {"failure"} ELSE {})
    BY DEF Observe
  <2> QED
    BY <2>1, <2>2, <2>3
<1>3. facts' = [q \in Request |-> facts'[q]]
  BY DEF Observe
<1> QED
  BY <1>1, <1>2, <1>3

-----------------------------------------------------------------------------
(* Every step is observed, writes no administrator, and moves one request at most. *)
LEMMA Frame ==
  ASSUME TypeOK, NEW q \in Request, RequestStep(q)
  PROVE  /\ \E F : Observe(F)
         /\ UNCHANGED <<adminRow, held, call>>
         /\ pc' \in [Request -> Pc] /\ reply' \in [Request -> Reply]
         /\ \A p \in Request \ {q} : pc'[p] = pc[p] /\ reply'[p] = reply[p]
<1> USE DEF RequestStep, Dispatch, Me, RequireAdmin, RequirePermission, LoadPermissions, Query,
            SetDisabled, Goto, Answer, Read, Fails
<1>1. \E F : Observe(F)
  OBVIOUS
<1>2. UNCHANGED <<adminRow, held, call>>
  BY DEF tables
<1>3. pc' \in [Request -> Pc] /\ reply' \in [Request -> Reply]
  BY DEF TypeOK, Pc, Reply
<1>4. \A p \in Request \ {q} : pc'[p] = pc[p] /\ reply'[p] = reply[p]
  BY DEF TypeOK
<1> QED
  BY <1>1, <1>2, <1>3, <1>4

LEMMA UserTypes ==
  ASSUME TypeOK, Next
  PROVE  userRow' \in [User -> {"absent", "enabled", "disabled"}]
<1>1. CASE Operator
  BY <1>1 DEF TypeOK, Operator, OperatorSetsRow, OperatorGrants, OperatorDeletesUser
<1>2. ASSUME NEW q \in Request, RequestStep(q)
      PROVE  userRow' \in [User -> {"absent", "enabled", "disabled"}]
  <2>1. CASE UNCHANGED userRow
    BY <2>1 DEF TypeOK
  <2>2. CASE SetDisabled(q)
    BY <2>2 DEF SetDisabled, TypeOK, Read, Fails, tables
  <2> QED
    BY <1>2, <2>1, <2>2 DEF RequestStep, Dispatch, Me, RequireAdmin, RequirePermission,
                            LoadPermissions, Query, Read, Fails, tables
<1> QED
  BY <1>1, <1>2 DEF Next

LEMMA TypeStep ==
  ASSUME TypeOK, Next
  PROVE  TypeOK'
<1>1. CASE Operator
  <2>1. UNCHANGED <<pc, call, reply>> /\ \E F : Observe(F)
    BY <1>1 DEF Operator, OperatorSetsRow, OperatorGrants, OperatorDeletesUser
  <2>2. adminRow' \in [Admin -> Row] /\ held' \in [Admin -> SUBSET Permission]
    BY <1>1 DEF TypeOK, Operator, OperatorSetsRow, OperatorGrants, OperatorDeletesUser
  <2> QED
    BY <2>1, <2>2, UserTypes, ObserveTypes DEF TypeOK
<1>2. ASSUME NEW q \in Request, RequestStep(q) PROVE TypeOK'
  BY <1>2, Frame, UserTypes, ObserveTypes DEF TypeOK
<1> QED
  BY <1>1, <1>2 DEF Next

-----------------------------------------------------------------------------
(* A request that a step does not move keeps what it has shown. *)
LEMMA PlaceKept ==
  ASSUME IInv, NEW F, Observe(F), NEW q \in Request, UNCHANGED call,
         pc'[q] = pc[q], reply'[q] = reply[q]
  PROVE  Place(q)'
<1>1. facts[q] \subseteq facts'[q] /\ (cleared[q] => cleared'[q])
  BY Observed DEF IInv
<1>2. Place(q)
  BY DEF IInv
<1> QED
  BY <1>1, <1>2 DEF Place, IsAdmin, Tok

(* The request that moves has shown what its next place asks for. *)
LEMMA PlaceReached ==
  ASSUME IInv, NEW q \in Request, RequestStep(q)
  PROVE  Place(q)'
<1>1. Place(q) /\ TypeOK
  BY DEF IInv
<1>2. call' = call /\ (IsAdmin(q)' <=> IsAdmin(q))
  BY <1>1, Frame DEF IsAdmin, Tok
<1>3. facts[q] \subseteq facts'[q] /\ (cleared[q] => cleared'[q])
  BY <1>1, Frame, Observed
<1>4. pc \in [Request -> Pc] /\ reply \in [Request -> Reply]
  BY <1>1 DEF TypeOK
<1>5. CASE Dispatch(q)
  BY <1>1, <1>2, <1>3, <1>4, <1>5 DEF Dispatch, Goto, Answer, Place, IsAdmin, Tok
<1>6. CASE Me(q)
  <2>1. CASE Fails(q, "me", "failed")
    <3>1. "failure" \in facts'[q] /\ pc'[q] = "over" /\ reply'[q] = "failed"
      BY <1>1, <1>4, <2>1, Observed DEF Fails, Answer, Place
    <3> QED
      BY <1>1, <1>2, <1>3, <1>4, <3>1 DEF Place, Guarded
  <2>2. CASE Answer(q, "me", IF Found(q) THEN "ok" ELSE "failed") /\ Read
    <3>1. pc[q] = "me" /\ pc'[q] = "over" /\ call[q].method \notin Guarded
      BY <1>1, <1>4, <2>2 DEF Answer, Place, Guarded
    <3>2. FactsNow(q) \subseteq facts'[q]
      BY <1>1, <2>2, <3>1, Observed DEF Read, Place
    <3>3. reply'[q] \in {"ok", "failed"}
          /\ (reply'[q] = "failed" /\ IsAdmin(q) => "mismatch" \in FactsNow(q))
      BY <1>4, <2>2 DEF Answer, Found, FactsNow
    <3> QED
      BY <1>2, <3>1, <3>2, <3>3 DEF Place
  <2> QED
    BY <1>6, <2>1, <2>2 DEF Me
<1>7. CASE RequireAdmin(q)
  <2>1. pc[q] = "row1" /\ reply[q] = "none" /\ IsAdmin(q)
    BY <1>1, <1>7 DEF RequireAdmin, Fails, Answer, Goto, Place
  <2>2. pc'[q] \in {"over", "row2"}
    BY <1>4, <1>7 DEF RequireAdmin, Fails, Answer, Goto
  <2>3. CASE Fails(q, "row1", "failed")
    <3>1. "failure" \in facts'[q] /\ pc'[q] = "over" /\ reply'[q] = "failed"
      BY <1>1, <1>4, <2>1, <2>2, <2>3, Observed DEF Fails, Answer
    <3> QED
      BY <1>2, <3>1 DEF Place
  <2>4. CASE ~Fails(q, "row1", "failed")
    <3>1. FactsNow(q) \subseteq facts'[q]
      BY <1>1, <1>7, <2>1, <2>2, <2>4, Observed DEF RequireAdmin, Read
    <3>2. \/ Mismatch(q) /\ pc'[q] = "over" /\ reply'[q] = "adminRequired"
          \/ ~Mismatch(q) /\ RowOf(q).disabled /\ pc'[q] = "over" /\ reply'[q] = "adminDisabled"
          \/ ~Mismatch(q) /\ ~RowOf(q).disabled /\ pc'[q] = "over" /\ reply'[q] = "unknown"
          \/ ~Mismatch(q) /\ ~RowOf(q).disabled /\ pc'[q] = "row2" /\ reply'[q] = "none"
      BY <1>4, <1>7, <2>1, <2>4 DEF RequireAdmin, Answer, Goto
    <3>3. /\ Mismatch(q) => "mismatch" \in FactsNow(q)
          /\ ~Mismatch(q) /\ RowOf(q).disabled => "disabled" \in FactsNow(q)
          /\ ~Mismatch(q) /\ ~RowOf(q).disabled => "inOrder" \in FactsNow(q)
      BY <2>1 DEF FactsNow
    <3> QED
      BY <1>2, <2>1, <3>1, <3>2, <3>3 DEF Place
  <2> QED
    BY <2>3, <2>4
<1>8. CASE RequirePermission(q)
  <2>1. pc[q] = "row2" /\ reply[q] = "none" /\ IsAdmin(q) /\ "inOrder" \in facts[q]
    BY <1>1, <1>8 DEF RequirePermission, Fails, Answer, Goto, Place
  <2>2. CASE Fails(q, "row2", "failed")
    <3>1. "failure" \in facts'[q] /\ pc'[q] = "over" /\ reply'[q] = "failed"
      BY <1>1, <1>4, <2>1, <2>2, Observed DEF Fails, Answer
    <3> QED
      BY <1>2, <3>1 DEF Place
  <2>3. CASE Mismatch(q) /\ Answer(q, "row2", "failed") /\ Read
    <3>1. pc'[q] = "over" /\ reply'[q] = "failed" /\ FactsNow(q) \subseteq facts'[q]
      BY <1>1, <1>4, <2>1, <2>3, Observed DEF Answer, Read
    <3>2. "mismatch" \in FactsNow(q)
      BY <2>1, <2>3 DEF FactsNow
    <3> QED
      BY <1>2, <3>1, <3>2 DEF Place
  <2>4. CASE Goto(q, "row2", "perms")
    BY <1>2, <1>3, <1>4, <2>1, <2>4 DEF Goto, Place
  <2> QED
    BY <1>8, <2>2, <2>3, <2>4 DEF RequirePermission
<1>9. CASE LoadPermissions(q)
  <2>1. pc[q] = "perms" /\ reply[q] = "none" /\ IsAdmin(q) /\ "inOrder" \in facts[q]
    BY <1>1, <1>9 DEF LoadPermissions, Fails, Answer, Goto, Place
  <2>2. CASE Fails(q, "perms", "permissionDenied")
    <3>1. "failure" \in facts'[q] /\ pc'[q] = "over" /\ reply'[q] = "permissionDenied"
      BY <1>1, <1>4, <2>1, <2>2, Observed DEF Fails, Answer
    <3> QED
      BY <1>2, <3>1 DEF Place
  <2>3. CASE Required(call[q].method) \in PermsOf(q) /\ Goto(q, "perms", "effect") /\ Read
    <3>1. pc'[q] = "effect" /\ reply'[q] = "none"
      BY <1>4, <2>1, <2>3 DEF Goto
    <3>2. "lacking" \notin FactsNow(q)'
      <4>1. FactsNow(q)' = FactsNow(q)
        BY <1>2, <2>3, FactsKept DEF Read
      <4> QED
        BY <2>3, <4>1 DEF FactsNow
    <3>3. cleared'[q]
      BY <1>1, <1>3, <2>1, <2>3, <3>1, <3>2, Observed DEF Read
    <3> QED
      BY <1>2, <2>1, <3>1, <3>3 DEF Place
  <2>4. CASE Required(call[q].method) \notin PermsOf(q)
               /\ Answer(q, "perms", "permissionDenied") /\ Read
    <3>1. pc'[q] = "over" /\ reply'[q] = "permissionDenied" /\ FactsNow(q) \subseteq facts'[q]
      BY <1>1, <1>4, <2>1, <2>4, Observed DEF Answer, Read
    <3>2. "lacking" \in FactsNow(q)
      BY <2>1, <2>4 DEF FactsNow
    <3> QED
      BY <1>2, <3>1, <3>2 DEF Place
  <2> QED
    BY <1>9, <2>2, <2>3, <2>4 DEF LoadPermissions
<1>10. CASE Query(q) \/ SetDisabled(q)
  <2>1. pc[q] = "effect" /\ reply[q] = "none" /\ IsAdmin(q) /\ cleared[q]
    BY <1>1, <1>10 DEF Query, SetDisabled, Fails, Answer, Place
  <2>2. pc'[q] = "over" /\ reply'[q] \in {"ok", "failed", "unknown", "badParam", "notFound"}
    BY <1>4, <1>10 DEF Query, SetDisabled, Fails, Answer
  <2>3. reply'[q] = "failed" => "failure" \in facts'[q]
    <3>1. reply'[q] = "failed" => Observe({q})
      BY <1>4, <1>10 DEF Query, SetDisabled, Fails, Answer
    <3> QED
      BY <1>1, <2>1, <2>2, <3>1, Observed
  <2> QED
    BY <1>2, <1>3, <2>1, <2>2, <2>3 DEF Place
<1> QED
  BY <1>5, <1>6, <1>7, <1>8, <1>9, <1>10 DEF RequestStep

LEMMA StepPreserves == IInv /\ [Next]_vars => IInv'
<1> SUFFICES ASSUME IInv, [Next]_vars PROVE IInv'
  OBVIOUS
<1>1. CASE Operator
  <2>1. UNCHANGED <<pc, call, reply>> /\ \E F : Observe(F)
    BY <1>1 DEF Operator, OperatorSetsRow, OperatorGrants, OperatorDeletesUser
  <2>2. TypeOK'
    BY <1>1, TypeStep DEF IInv, Next
  <2> QED
    BY <2>1, <2>2, PlaceKept DEF IInv
<1>2. ASSUME NEW q \in Request, RequestStep(q) PROVE IInv'
  <2>1. TypeOK'
    BY <1>2, TypeStep DEF IInv, Next
  <2>2. ASSUME NEW p \in Request PROVE Place(p)'
    <3>1. CASE p = q
      BY <1>2, <3>1, PlaceReached
    <3>2. CASE p # q
      BY <1>2, <3>2, Frame, PlaceKept DEF IInv
    <3> QED
      BY <3>1, <3>2
  <2> QED
    BY <2>1, <2>2 DEF IInv
<1>3. CASE UNCHANGED vars
  BY <1>3 DEF IInv, TypeOK, Place, IsAdmin, Tok, vars
<1> QED
  BY <1>1, <1>2, <1>3 DEF Next

LEMMA InitEstablishes == Init => IInv
<1> SUFFICES ASSUME Init PROVE IInv
  OBVIOUS
<1>1. TypeOK
  BY DEF Init, TypeOK, Pc, Reply
<1>2. \A q \in Request : Place(q)
  BY DEF Init, Place
<1> QED
  BY <1>1, <1>2 DEF IInv

THEOREM GateInvariant == Spec => []IInv
<1> QED
  BY InitEstablishes, StepPreserves, PTL DEF Spec

(* Tables, requests and histories keep their types. *)
THEOREM TypeCorrect == Spec => []TypeOK
<1>1. IInv => TypeOK
  BY DEF IInv
<1> QED
  BY <1>1, GateInvariant, PTL

(* No guarded answer without clearance, whatever changes between the checks. *)
THEOREM GuardedWasCleared == Spec => []GuardedReplyWasCleared
<1>1. IInv => GuardedReplyWasCleared
  BY DEF IInv, Place, GuardedReplyWasCleared
<1> QED
  BY <1>1, GateInvariant, PTL

(* No refusal for a reason that was never true, except permissionDenied after a
   failed query of the permissions, which the code answers as if there were none. *)
THEOREM RefusalWasTrue == Spec => []RefusalIsTrue
<1>1. IInv => RefusalIsTrue
  BY DEF IInv, Place, RefusalIsTrue
<1> QED
  BY <1>1, GateInvariant, PTL

(* No user is switched without clearance, and none but the one asked for. *)
THEOREM SwitchCleared == Spec => SwitchWasCleared
<1>1. ASSUME IInv, Next, NEW u \in User, userRow'[u] # userRow[u], userRow'[u] # "absent"
      PROVE  \E q \in Request :
               /\ pc[q] = "effect" /\ pc'[q] = "over"
               /\ call[q].method = "user.set_disabled" /\ call[q].target = u
               /\ IsAdmin(q) /\ cleared[q]
  <2>1. ~Operator
    BY <1>1 DEF IInv, TypeOK, Operator, OperatorSetsRow, OperatorGrants, OperatorDeletesUser
  <2>2. PICK q \in Request : RequestStep(q)
    BY <1>1, <2>1 DEF Next
  <2>3. SetDisabled(q)
    BY <1>1, <2>2 DEF RequestStep, Dispatch, Me, RequireAdmin, RequirePermission,
                      LoadPermissions, Query, Read, Fails, tables
  <2>4. pc[q] = "effect" /\ pc'[q] = "over" /\ call[q].method = "user.set_disabled"
    BY <1>1, <2>3 DEF IInv, TypeOK, SetDisabled, Answer, Fails
  <2>5. call[q].target = u
    BY <1>1, <2>3 DEF IInv, TypeOK, SetDisabled, Read, Fails, tables
  <2>6. IsAdmin(q) /\ cleared[q]
    BY <1>1, <2>4 DEF IInv, Place
  <2> QED
    BY <2>4, <2>5, <2>6
<1>2. IInv /\ [Next]_vars
        => [\A u \in User : userRow'[u] # userRow[u] /\ userRow'[u] # "absent" =>
              \E q \in Request :
                /\ pc[q] = "effect" /\ pc'[q] = "over"
                /\ call[q].method = "user.set_disabled" /\ call[q].target = u
                /\ IsAdmin(q) /\ cleared[q]]_vars
  BY <1>1
<1> QED
  BY <1>2, GateInvariant, PTL DEF Spec, SwitchWasCleared
=============================================================================
