----------------------------- MODULE ReleaseProofs -----------------------------
(***************************************************************************)
(* Why the guard is sound for a publisher whom nobody overtakes, for any   *)
(* number of publishers and versions: what it copied to the host stays     *)
(* there until it has been used, and the database only moves forward.      *)
(***************************************************************************)
EXTENDS Release, TLAPS

(* What holds at each place of a publication that was not overtaken. *)
Place(p) ==
  LET v == checkout[p].version IN
  /\ pc[p] \in {"sync", "syncing", "applying"} \cup Guarding => checkout[p].mode # "off"
  /\ pc[p] \in Guarding => migrate = v
  /\ pc[p] = "dryRun" /\ ~pending[p] => v <= db
  /\ pc[p] = "applying" => plan[p] = v
  /\ pc[p] \in {"build", "upload"} \cup Releasing => checkout[p].mode = "off" \/ v <= db
  /\ pc[p] \in {"scripts", "load"} => tar = v
  /\ pc[p] \in {"remove", "up"} => image = v
  /\ pc[p] = "smoke" => container = v

IInv == TypeOK /\ \A p \in Publisher : p \notin overtaken => Place(p)

-----------------------------------------------------------------------------
LEMMA InitTypes == Init => TypeOK
<1> SUFFICES ASSUME Init PROVE TypeOK
  OBVIOUS
<1>1. 1 \in 0..MaxVersion /\ 0 \in 0..MaxVersion /\ 0..1 \subseteq 0..MaxVersion
  BY ReleaseAssumption
<1> QED
  BY <1>1 DEF Init, TypeOK, Pc

(* Only the database moves without a publisher's files, and only forward. *)
LEMMA DbGrows ==
  ASSUME TypeOK, Next
  PROVE  db' \in 0..MaxVersion /\ db <= db' /\ checkout' = checkout
<1> USE DEF Publish, Preflight, SyncBegin, SyncEnd, Status, DryRun, ApplyBegin, ApplyFile,
            ApplyEnd, Build, UploadTar, UploadScripts, Load, Remove, Up, Smoke, Fails,
            Writes, Quiet
<1>1. ASSUME NEW p \in Publisher, ApplyFile(p)
      PROVE db' \in 0..MaxVersion /\ db <= db' /\ checkout' = checkout
  BY <1>1, ReleaseAssumption DEF TypeOK
<1>2. ASSUME NEW p \in Publisher, ~ApplyFile(p),
             Publish(p) \/ Preflight(p) \/ Guard(p) \/ Build(p) \/ Deploy(p) \/ Fails(p)
      PROVE db' = db /\ checkout' = checkout
  BY <1>2 DEF Guard, Deploy
<1>3. db \in 0..MaxVersion
  BY DEF TypeOK
<1>4. 0..MaxVersion \subseteq Nat
  BY ReleaseAssumption
<1> QED
  BY <1>1, <1>2, <1>3, <1>4 DEF Next

(* A step of q moves q's place and no other's. *)
LEMMA TypeStep ==
  ASSUME TypeOK, Next
  PROVE  TypeOK'
<1> PICK p \in Publisher :
      Publish(p) \/ Preflight(p) \/ Guard(p) \/ Build(p) \/ Deploy(p) \/ Fails(p)
  BY DEF Next
<1> USE DEF Publish, Preflight, SyncBegin, SyncEnd, Status, DryRun, ApplyBegin, ApplyFile,
            ApplyEnd, Build, UploadTar, UploadScripts, Load, Remove, Up, Smoke, Fails,
            Guard, Deploy, Step, Writes, Quiet, files
<1>1. pc' \in [Publisher -> Pc]
  BY Zenon DEF TypeOK, Pc, Guarding, Releasing
<1>2. checkout' \in [Publisher -> [version : Version, mode : Modes, smoke : BOOLEAN]]
  BY DbGrows DEF TypeOK
<1>3. pending' \in [Publisher -> BOOLEAN]
  <2>1. CASE UNCHANGED pending
    BY <2>1 DEF TypeOK
  <2>2. CASE Status(p)
    <3>1. pending' = [pending EXCEPT ![p] = migrate > db]
      BY <2>2
    <3>2. pending \in [Publisher -> BOOLEAN] /\ (migrate > db) \in BOOLEAN
      BY DEF TypeOK
    <3> QED
      BY <3>1, <3>2, Zenon
  <2> QED
    BY <2>1, <2>2
<1>4. plan' \in [Publisher -> 0..MaxVersion]
  BY DEF TypeOK, AtlasRuns
<1>5. migrate' \in 0..MaxVersion \cup {Mixed}
  BY ReleaseAssumption DEF TypeOK, Version
<1>6. compose' \in BOOLEAN
  BY DEF TypeOK
<1>7. {tar', image', container'} \subseteq 0..MaxVersion
  BY ReleaseAssumption DEF TypeOK, Version
<1>8. lock' \in Publisher \cup {Nobody} /\ overtaken' \subseteq Publisher
  BY DEF TypeOK
<1> QED
  BY <1>1, <1>2, <1>3, <1>4, <1>5, <1>6, <1>7, <1>8, DbGrows DEF TypeOK

-----------------------------------------------------------------------------
(* A step of p itself brings p from place to place. *)
LEMMA OwnStep ==
  ASSUME IInv, NEW p \in Publisher, p \notin overtaken',
         Publish(p) \/ Preflight(p) \/ Guard(p) \/ Build(p) \/ Deploy(p) \/ Fails(p)
  PROVE  Place(p)'
<1> USE DEF IInv, TypeOK, Place, Step, Quiet, Writes, Guarding, Releasing
<1>1. CASE Publish(p)
  BY <1>1 DEF Publish
<1>2. CASE Preflight(p)
  BY <1>2 DEF Preflight
<1>3. CASE SyncBegin(p)
  BY <1>3 DEF SyncBegin
<1>4. CASE SyncEnd(p)
  BY <1>4 DEF SyncEnd
<1>5. CASE Status(p)
  <2>1. /\ pc[p] = "status" /\ pc'[p] = "dryRun" /\ checkout' = checkout /\ p \notin overtaken
        /\ migrate' = migrate /\ db' = db
    BY <1>5 DEF Status, files
  <2>2. pending'[p] = (migrate > db)
    BY <1>5 DEF Status
  <2>3. migrate = checkout[p].version /\ checkout[p].mode # "off"
    BY <2>1
  <2>4. ~pending'[p] => checkout[p].version <= db
    <3>1. checkout[p].version \in Nat /\ db \in Nat
      BY ReleaseAssumption DEF Version
    <3>2. migrate > db \/ checkout[p].version <= db
      BY <2>3, <3>1
    <3> QED
      BY <2>2, <3>2, Zenon
  <2> QED
    BY <2>1, <2>3, <2>4
<1>6. CASE DryRun(p)
  BY <1>6, ReleaseAssumption DEF DryRun, AtlasRuns, files
<1>7. CASE ApplyBegin(p)
  BY <1>7 DEF ApplyBegin, AtlasRuns, files
<1>8. CASE ApplyFile(p)
  BY <1>8 DEF ApplyFile, files
<1>9. CASE ApplyEnd(p)
  BY <1>9 DEF ApplyEnd, files
<1>10. CASE Build(p)
  BY <1>10 DEF Build, files
<1>11. CASE UploadTar(p)
  BY <1>11 DEF UploadTar
<1>12. CASE UploadScripts(p)
  BY <1>12 DEF UploadScripts
<1>13. CASE Load(p)
  BY <1>13 DEF Load
<1>14. CASE Remove(p)
  BY <1>14 DEF Remove
<1>15. CASE Up(p)
  BY <1>15 DEF Up
<1>16. CASE Smoke(p)
  BY <1>16 DEF Smoke
<1>17. CASE Fails(p)
  BY <1>17 DEF Fails
<1> QED
  BY <1>1, <1>2, <1>3, <1>4, <1>5, <1>6, <1>7, <1>8, <1>9, <1>10, <1>11, <1>12, <1>13,
     <1>14, <1>15, <1>16, <1>17, Zenon DEF Guard, Deploy

(* A step of another either leaves alone what p relies on or overtakes p. *)
LEMMA OthersStep ==
  ASSUME IInv, Next, NEW p \in Publisher, p \notin overtaken', NEW q \in Publisher, q # p,
         Publish(q) \/ Preflight(q) \/ Guard(q) \/ Build(q) \/ Deploy(q) \/ Fails(q)
  PROVE  Place(p)'
<1>1. /\ pc'[p] = pc[p] /\ pending'[p] = pending[p] /\ plan'[p] = plan[p]
      /\ checkout' = checkout /\ p \notin overtaken
  BY DEF IInv, TypeOK, Guard, Deploy, Publish, Preflight, SyncBegin, SyncEnd, Status, DryRun,
         ApplyBegin, ApplyFile, ApplyEnd, Build, UploadTar, UploadScripts, Load, Remove, Up,
         Smoke, Fails, Step, Quiet, Writes
<1>2. pc[p] \in Guarding => migrate' = migrate
  BY DEF IInv, TypeOK, Guard, Deploy, Publish, Preflight, SyncBegin, SyncEnd, Status, DryRun,
         ApplyBegin, ApplyFile, ApplyEnd, Build, UploadTar, UploadScripts, Load, Remove, Up,
         Smoke, Fails, Step, Quiet, Writes, files
<1>3. pc[p] \in Releasing => tar' = tar /\ image' = image /\ container' = container
  BY DEF IInv, TypeOK, Guard, Deploy, Publish, Preflight, SyncBegin, SyncEnd, Status, DryRun,
         ApplyBegin, ApplyFile, ApplyEnd, Build, UploadTar, UploadScripts, Load, Remove, Up,
         Smoke, Fails, Step, Quiet, Writes, files
<1>4. db \in Nat /\ db' \in Nat /\ db <= db' /\ checkout[p].version \in Nat
  BY DbGrows, ReleaseAssumption DEF IInv, TypeOK, Version
<1>5. Place(p)
  BY <1>1 DEF IInv
<1> QED
  BY <1>1, <1>2, <1>3, <1>4, <1>5 DEF Place, Guarding, Releasing

LEMMA StepPreserves == IInv /\ [Next]_vars => IInv'
<1>1. ASSUME IInv, Next PROVE IInv'
  <2>1. TypeOK'
    BY <1>1, TypeStep DEF IInv
  <2>2. PICK q \in Publisher :
          Publish(q) \/ Preflight(q) \/ Guard(q) \/ Build(q) \/ Deploy(q) \/ Fails(q)
    BY <1>1 DEF Next
  <2>3. ASSUME NEW p \in Publisher, p \notin overtaken' PROVE Place(p)'
    BY <1>1, <2>2, <2>3, OwnStep, OthersStep
  <2> QED
    BY <2>1, <2>3 DEF IInv
<1>2. ASSUME IInv, UNCHANGED vars PROVE IInv'
  BY <1>2 DEF IInv, TypeOK, Place, vars, files
<1> QED
  BY <1>1, <1>2

LEMMA InitEstablishes == Init => IInv
<1> SUFFICES ASSUME Init PROVE IInv
  OBVIOUS
<1>1. \A p \in Publisher : Place(p)
  BY DEF Init, Place, Guarding, Releasing
<1> QED
  BY <1>1, InitTypes DEF IInv

THEOREM ReleaseInvariant == Spec => []IInv
<1> QED
  BY InitEstablishes, StepPreserves, PTL DEF Spec

(* What is on the host is a version, or a mixed migration directory; the database
   never gets migrations that no version has. *)
THEOREM TypeCorrect == Spec => []TypeOK
<1>1. IInv => TypeOK
  BY DEF IInv
<1> QED
  BY <1>1, ReleaseInvariant, PTL

(* The guard is sound for whoever is not overtaken: however many publish, and
   however many publications fail halfway. *)
THEOREM GuardIsSoundAlone == Spec => OnlyARaceSkipsMigrations
<1>1. ASSUME IInv, Next, NEW p \in Publisher, pc[p] = "up", pc'[p] = "smoke", Unmigrated'
      PROVE  checkout[p].mode = "off" \/ p \in overtaken
  <2>1. Up(p)
    <3>1. PICK q \in Publisher :
            Publish(q) \/ Preflight(q) \/ Guard(q) \/ Build(q) \/ Deploy(q) \/ Fails(q)
      BY <1>1 DEF Next
    <3>2. q # p => pc'[p] = pc[p]
      BY <1>1, <3>1 DEF IInv, TypeOK, Guard, Deploy, Publish, Preflight, SyncBegin, SyncEnd,
                Status, DryRun, ApplyBegin, ApplyFile, ApplyEnd, Build, UploadTar,
                UploadScripts, Load, Remove, Up, Smoke, Fails, Step
    <3> QED
      BY <1>1, <3>1, <3>2 DEF IInv, TypeOK, Guard, Deploy, Publish, Preflight, SyncBegin,
                SyncEnd, Status, DryRun, ApplyBegin, ApplyFile, ApplyEnd, Build, UploadTar,
                UploadScripts, Load, Remove, Smoke, Fails, Step
  <2>2. ASSUME p \notin overtaken, checkout[p].mode # "off" PROVE FALSE
    <3>1. image = checkout[p].version /\ checkout[p].version <= db
      BY <1>1, <2>2 DEF IInv, Place, Releasing
    <3>2. container' = image /\ db' = db
      BY <2>1 DEF Up, Writes
    <3>3. checkout[p].version \in Nat /\ db \in Nat
      BY <1>1, ReleaseAssumption DEF IInv, TypeOK, Version
    <3> QED
      BY <1>1, <3>1, <3>2, <3>3 DEF Unmigrated
  <2> QED
    BY <2>2
<1>2. IInv /\ [Next]_vars
        => [\A p \in Publisher : pc[p] = "up" /\ pc'[p] = "smoke" /\ Unmigrated' =>
              checkout[p].mode = "off" \/ p \in overtaken]_vars
  BY <1>1
<1> QED
  BY <1>2, ReleaseInvariant, PTL DEF Spec, OnlyARaceSkipsMigrations

(* A publication that nobody overtook and that reports success runs its version. *)
THEOREM SuccessIsTrue == Spec => SuccessMeansMyVersion
<1>1. IInv /\ [Next]_vars
        => [\A p \in Publisher : pc[p] = "smoke" /\ pc'[p] = "done" =>
              container = checkout[p].version \/ p \in overtaken]_vars
  BY DEF IInv, Place
<1> QED
  BY <1>1, ReleaseInvariant, PTL DEF Spec, SuccessMeansMyVersion
=============================================================================
