--------------------------- MODULE DevPortsProofs ---------------------------
(***************************************************************************)
(* Why allocations need no lock, for any number of repositories and slots: *)
(* a project owns its manifest before it reads the others' to audit them,  *)
(* and an owned manifest never changes.  Of two projects that clash, the   *)
(* one that read the other's manifest too early is therefore itself read   *)
(* in time, and the other one's audit fails.                               *)
(***************************************************************************)
EXTENDS DevPorts, WellFoundedInduction, TLAPS

(* What holds of a repository by the place of its allocation. *)
Place(r) ==
  /\ pc[r] \in {"scan", "truncate"} => manifest[r] # Torn /\ ~IsOwned(r)
  /\ pc[r] = "write" => manifest[r] = Torn
  /\ pc[r] \in {"truncate", "write"} => IsValid(pick[r]) /\ pick[r].id # Template
  /\ pc[r] \in {"config", "fill", "audit"} => IsOwned(r) /\ pick[r] = manifest[r]
  /\ pc[r] = "fill" => ~won[r]
  /\ pc[r] \notin {"scan", "audit"} => seen[r] = Unseen
  /\ won[r] => IsOwned(r) /\ config[r] = manifest[r].ports

Places == \A r \in Derived : Place(r)

(* The template is not touched. *)
Originals == \A r \in Repo \ Derived : manifest[r] = Valid(Template, TemplatePorts)

(* Whatever s sees of r when it audits is what r owns, and s does not win with a
   manifest that clashes with it. *)
WillSee(s, r) ==
  /\ s \in Derived
  /\ pc[s] = "audit" /\ r \in DOMAIN seen[s] => seen[s][r] = manifest[r]
  /\ won[s] => ~Clash(manifest[r], manifest[s])

(* An audit of r has seen the manifest that s has now, or s will see that of r. *)
AuditSaw(r, s) ==
  pc[r] = "audit" /\ s \in DOMAIN seen[r] =>
    seen[r][s] = manifest[s] \/ (r # s /\ WillSee(s, r))

Audits == \A r \in Derived, s \in Repo : AuditSaw(r, s)

IInv ==
  /\ TypeOK
  /\ Places
  /\ Originals
  /\ Audits
  /\ WinnersDisjoint

-----------------------------------------------------------------------------
(* A set of slots that is not empty has a first one. *)
LEMMA FirstExists ==
  ASSUME NEW T \in SUBSET Nat, T # {}
  PROVE  \E i \in T : \A j \in T : i <= j
<1>1. PICK i \in T : \A j \in T : ~(<<j, i>> \in OpToRel(<, Nat))
  BY WFMin, NatLessThanWellFounded
<1>2. \A j \in T : <<j, i>> \in OpToRel(<, Nat) <=> j < i
  BY DEF OpToRel
<1>3. \A j \in T : ~(j < i)
  BY <1>1, <1>2, Zenon
<1> QED
  BY <1>3

(* The first candidate is a bundle that no manifest read so far overlaps. *)
LEMMA FirstSlotFree ==
  ASSUME NEW r \in Derived, FreeSlots(r) # {}
  PROVE  FirstSlot(r) \in 0..(MaxSlot - 1) /\ Free(r, Candidate(FirstSlot(r)))
<1>1. FreeSlots(r) \in SUBSET Nat
  BY DEF FreeSlots
<1>2. FirstSlot(r) \in FreeSlots(r)
  <2>1. \E i \in FreeSlots(r) : \A j \in FreeSlots(r) : i <= j
    BY <1>1, FirstExists
  <2> QED
    BY <2>1 DEF FirstSlot
<1> QED
  BY <1>2 DEF FreeSlots

(* To clash is mutual. *)
LEMMA ClashSymmetric == ASSUME NEW m, NEW n PROVE Clash(m, n) <=> Clash(n, m)
BY DEF Clash, Overlap

-----------------------------------------------------------------------------
(* Types: the one step that is not immediate is the choice of a bundle. *)
Seen == UNION {[S -> Manifest] : S \in SUBSET Repo}

LEMMA SeenGrows ==
  ASSUME NEW f \in Seen, NEW s \in Repo, NEW m \in Manifest
  PROVE  [t \in DOMAIN f \cup {s} |-> IF t = s THEN m ELSE f[t]] \in Seen
<1>1. PICK S \in SUBSET Repo : f \in [S -> Manifest]
  BY DEF Seen
<1>2. [t \in DOMAIN f \cup {s} |-> IF t = s THEN m ELSE f[t]] \in [S \cup {s} -> Manifest]
  BY <1>1
<1>3. S \cup {s} \in SUBSET Repo
  OBVIOUS
<1> QED
  BY <1>2, <1>3 DEF Seen

LEMMA UnseenType == Unseen \in Seen
<1>1. Unseen \in [{} -> Manifest]
  BY DEF Unseen
<1> QED
  BY <1>1 DEF Seen

LEMMA TypeInit == Init => TypeOK
<1>1. Valid(Template, TemplatePorts) \in Manifest /\ Missing \in Manifest
  BY DEF Manifest, Ports
<1>2. {Missing, Valid(Template, TemplatePorts)} \subseteq Manifest
  BY <1>1
<1>3. ASSUME Init PROVE manifest \in [Repo -> Manifest]
  BY <1>2, <1>3 DEF Init
<1> HIDE DEF Manifest
<1> QED
  BY <1>1, <1>3, UnseenType, DevPortsAssumption DEF Init, TypeOK, Seen, Ports, Pc

(* A manifest that is neither missing nor torn has ports. *)
LEMMA ValidPorts == ASSUME NEW m \in Manifest, IsValid(m) PROVE m.ports \in Ports
BY DEF Manifest, IsValid, Missing, Torn, Valid

LEMMA TypeStep == ASSUME TypeOK, Places, [Next]_vars PROVE TypeOK'
<1> USE DevPortsAssumption DEF TypeOK, Goto
<1>1. Torn \in Manifest
  BY DEF Manifest
<1>2. seen \in [Derived -> Seen] /\ Unseen \in Seen
  BY UnseenType DEF Seen
<1>3. ASSUME NEW r \in Derived, NEW from, Fail(r, from) PROVE TypeOK'
  BY <1>2, <1>3 DEF Fail, Pc, Seen
<1>4. ASSUME NEW r \in Derived, Refuse(r) PROVE TypeOK'
  BY <1>3, <1>4 DEF Refuse
<1>5. ASSUME NEW r \in Derived, KeepPorts(r) \/ Begin(r) PROVE TypeOK'
  BY <1>5 DEF KeepPorts, Begin, Pc
<1>6. ASSUME NEW r \in Derived, ReadSibling(r) PROVE TypeOK'
  <2>1. PICK s \in Repo :
          seen' = [seen EXCEPT ![r] = [t \in DOMAIN seen[r] \cup {s} |->
                                         IF t = s THEN manifest[s] ELSE seen[r][t]]]
    BY <1>6 DEF ReadSibling
  <2>2. [t \in DOMAIN seen[r] \cup {s} |-> IF t = s THEN manifest[s] ELSE seen[r][t]] \in Seen
    <3>1. seen[r] \in Seen /\ manifest[s] \in Manifest
      BY <1>2
    <3> HIDE DEF TypeOK
    <3> QED
      BY <3>1, SeenGrows
  <2>3. seen' \in [Derived -> Seen]
    BY <1>2, <2>1, <2>2
  <2> QED
    BY <1>6, <2>3 DEF ReadSibling, Seen
<1>7. ASSUME NEW r \in Derived, Choose(r) PROVE TypeOK'
  <2>1. CASE ~CannotChoose(r) /\ Goto(r, "scan", "truncate")
    <3>1. FirstSlot(r) \in 0..(MaxSlot - 1)
      BY <2>1, FirstSlotFree DEF CannotChoose
    <3>2. Candidate(FirstSlot(r)) \in Ports
      BY <3>1 DEF Ports
    <3>3. Valid(IdOf[r], Candidate(FirstSlot(r))) \in Manifest
      BY <3>2 DEF Manifest
    <3> HIDE DEF Goto
    <3>4. /\ pick' = [pick EXCEPT ![r] = Valid(IdOf[r], Candidate(FirstSlot(r)))]
          /\ seen' = [seen EXCEPT ![r] = Unseen]
          /\ UNCHANGED <<manifest, config, won, crashes>>
      BY <1>7, <2>1 DEF Choose
    <3>5. pc' \in [Derived -> Pc]
      BY <2>1 DEF Goto, Pc
    <3> QED
      BY <1>2, <3>3, <3>4, <3>5 DEF Seen
  <2> QED
    BY <1>3, <1>7, <2>1 DEF Choose
<1>8. ASSUME NEW r \in Derived, TruncateManifest(r) \/ WriteManifest(r) PROVE TypeOK'
  BY <1>1, <1>8 DEF TruncateManifest, WriteManifest, Pc
<1>9. ASSUME NEW r \in Derived, KeepConfig(r) \/ TruncateConfig(r) PROVE TypeOK'
  BY <1>9 DEF KeepConfig, TruncateConfig, Pc
<1>10. ASSUME NEW r \in Derived, WriteConfig(r) PROVE TypeOK'
  <2>1. IsValid(pick[r])
    BY <1>10 DEF WriteConfig, Places, Place, IsOwned
  <2>2. pick[r].ports \in Ports
    BY <2>1, ValidPorts
  <2> QED
    BY <1>10, <2>2 DEF WriteConfig, Pc
<1>11. ASSUME NEW r \in Derived, Audit(r) PROVE TypeOK'
  <2>1. CASE Fail(r, "audit")
    BY <1>3, <2>1
  <2>2. CASE ~Fail(r, "audit")
    <3>1. pc' = [pc EXCEPT ![r] = "idle"] /\ won' = [won EXCEPT ![r] = TRUE]
      BY <1>11, <2>2 DEF Audit
    <3>2. seen' = [seen EXCEPT ![r] = Unseen] /\ UNCHANGED <<manifest, config, pick, crashes>>
      BY <1>11, <2>2 DEF Audit
    <3> QED
      BY <1>2, <3>1, <3>2 DEF Seen, Pc
  <2> QED
    BY <2>1, <2>2
<1>12. ASSUME NEW r \in Derived, Crash(r) PROVE TypeOK'
  BY <1>2, <1>12 DEF Crash, Seen, Pc
<1>13. CASE UNCHANGED vars
  BY <1>13 DEF vars
<1> QED
  BY <1>4, <1>5, <1>6, <1>7, <1>8, <1>9, <1>10, <1>11, <1>12, <1>13 DEF Next, Run

-----------------------------------------------------------------------------
(* A step of r leaves everything of the other repositories alone. *)
LEMMA OthersSame ==
  ASSUME TypeOK, NEW r \in Derived, Run(r) \/ Crash(r), NEW q \in Repo, q # r
  PROVE  /\ manifest'[q] = manifest[q] /\ config'[q] = config[q] /\ won'[q] = won[q]
         /\ q \in Derived => pc'[q] = pc[q] /\ seen'[q] = seen[q] /\ pick'[q] = pick[q]
BY DEF TypeOK, Run, Crash, Refuse, KeepPorts, Begin, ReadSibling, Choose, TruncateManifest,
       WriteManifest, KeepConfig, TruncateConfig, WriteConfig, Audit, Fail, Goto

LEMMA PlaceOfMover ==
  ASSUME TypeOK, TypeOK', NEW r \in Derived, Place(r), Run(r) \/ Crash(r)
  PROVE  Place(r)'
<1> USE DevPortsAssumption DEF TypeOK, Goto, Place, IsOwned
<1>1. ASSUME NEW from, Fail(r, from) PROVE Place(r)'
  BY <1>1 DEF Fail
<1>2. CASE Refuse(r)
  BY <1>1, <1>2 DEF Refuse
<1>3. CASE KeepPorts(r)
  BY <1>3 DEF KeepPorts
<1>4. CASE Begin(r)
  BY <1>4 DEF Begin
<1>5. CASE ReadSibling(r)
  BY <1>5 DEF ReadSibling
<1>6. CASE Choose(r)
  <2>1. ASSUME NEW p PROVE IsValid(Valid(IdOf[r], p)) /\ Valid(IdOf[r], p).id # Template
    BY DEF IsValid, Valid
  <2>2. CASE CannotChoose(r)
    BY <1>1, <1>6, <2>2 DEF Choose
  <2> QED
    BY <1>6, <2>1, <2>2 DEF Choose
<1>7. CASE TruncateManifest(r)
  BY <1>7 DEF TruncateManifest
<1>8. CASE WriteManifest(r)
  <2>1. ~IsValid(Torn)
    BY DEF IsValid, Torn
  <2> QED
    BY <1>8, <2>1 DEF WriteManifest
<1>9. CASE KeepConfig(r)
  BY <1>9 DEF KeepConfig
<1>10. CASE TruncateConfig(r)
  BY <1>10 DEF TruncateConfig
<1>11. CASE WriteConfig(r)
  BY <1>11 DEF WriteConfig
<1>12. CASE Audit(r)
  <2>1. CASE AuditFails(r)
    BY <1>1, <1>12, <2>1 DEF Audit
  <2>2. CASE ~AuditFails(r)
    BY <1>12, <2>2 DEF Audit, AuditFails
  <2> QED
    BY <2>1, <2>2
<1>13. CASE Crash(r)
  BY <1>13 DEF Crash
<1> QED
  BY <1>2, <1>3, <1>4, <1>5, <1>6, <1>7, <1>8, <1>9, <1>10, <1>11, <1>12, <1>13 DEF Run

-----------------------------------------------------------------------------
(* Only the write of a first manifest changes one; its project has not won and
   does not audit. *)
LEMMA ManifestChange ==
  ASSUME TypeOK, Places, NEW r \in Derived, Run(r) \/ Crash(r), manifest'[r] # manifest[r]
  PROVE  pc[r] \in {"truncate", "write"} /\ ~IsOwned(r) /\ ~won'[r] /\ pc'[r] # "audit"
<1>1. TruncateManifest(r) \/ WriteManifest(r)
  BY DEF Run, Crash, Refuse, KeepPorts, Begin, ReadSibling, Choose, KeepConfig, TruncateConfig,
         WriteConfig, Audit, Fail
<1>2. pc[r] \in {"truncate", "write"} /\ pc'[r] # "audit" /\ won'[r] = won[r]
  BY <1>1 DEF TruncateManifest, WriteManifest, Goto, TypeOK
<1>3. ~IsValid(Torn)
  BY DEF IsValid, Torn
<1>4. ~IsOwned(r)
  BY <1>2, <1>3 DEF Places, Place, IsOwned
<1> QED
  BY <1>2, <1>4 DEF Places, Place

(* What r has read when it audits after a step: what it had read, and at most one
   manifest as it is now. *)
LEMMA AuditReads ==
  ASSUME TypeOK, Places, NEW r \in Derived, Run(r) \/ Crash(r), pc'[r] = "audit",
         NEW s \in DOMAIN seen'[r]
  PROVE  /\ manifest'[r] = manifest[r]
         /\ seen'[r][s] = manifest[s]
              \/ (pc[r] = "audit" /\ s \in DOMAIN seen[r] /\ seen'[r][s] = seen[r][s])
<1>1. manifest'[r] = manifest[r]
  BY ManifestChange
<1>2. CASE ReadSibling(r)
  <2>1. pc[r] = "audit"
    BY <1>2 DEF ReadSibling
  <2>2. PICK u \in Repo :
          seen' = [seen EXCEPT ![r] = [t \in DOMAIN seen[r] \cup {u} |->
                                         IF t = u THEN manifest[u] ELSE seen[r][t]]]
    BY <1>2 DEF ReadSibling
  <2>3. seen'[r] = [t \in DOMAIN seen[r] \cup {u} |->
                      IF t = u THEN manifest[u] ELSE seen[r][t]]
    BY <2>2 DEF TypeOK
  <2> QED
    BY <1>1, <2>1, <2>3
<1>3. CASE KeepConfig(r) \/ WriteConfig(r)
  <2>1. seen'[r] = Unseen
    BY <1>3 DEF KeepConfig, WriteConfig, Places, Place, Goto
  <2> QED
    BY <2>1 DEF Unseen
<1> QED
  BY <1>2, <1>3 DEF Run, Crash, Refuse, KeepPorts, Begin, Choose, TruncateManifest, WriteManifest,
                    TruncateConfig, Audit, Fail, Goto, TypeOK

(* A project that wins does not clash with a manifest it has seen. *)
LEMMA WinnerChecked ==
  ASSUME TypeOK, Places, Audits, NEW r \in Derived, Run(r) \/ Crash(r), won'[r], ~won[r],
         NEW s \in Repo, s # r, IsValid(manifest[s])
  PROVE  /\ pc[r] = "audit" /\ s \in DOMAIN seen[r]
         /\ seen[r][s] = manifest[s] => ~Clash(manifest[s], manifest[r])
<1>1. Audit(r) /\ ~AuditFails(r)
  BY DEF Run, Crash, Refuse, KeepPorts, Begin, ReadSibling, Choose, TruncateManifest,
         WriteManifest, KeepConfig, TruncateConfig, WriteConfig, Audit, Fail
<1>2. pc[r] = "audit" /\ DOMAIN seen[r] = Repo
  BY <1>1 DEF Audit
<1>3. seen[r][r] = manifest[r] /\ IsValid(manifest[r])
  BY <1>2, DevPortsAssumption DEF Audits, AuditSaw, Places, Place, IsOwned
<1>4. ~SeenClash(r)
  BY <1>1 DEF AuditFails
<1> QED
  BY <1>2, <1>3, <1>4, DevPortsAssumption DEF SeenClash, SeenValid

-----------------------------------------------------------------------------
(* Once s can see what p owns, it goes on seeing it. *)
LEMMA WillSeeKept ==
  ASSUME TypeOK, Places, Audits, NEW q \in Derived, Run(q) \/ Crash(q),
         NEW p \in Derived, p # q, pc[p] = "audit", WillSee(q, p)
  PROVE  WillSee(q, p)'
<1>1. manifest'[p] = manifest[p]
  BY OthersSame, DevPortsAssumption
<1>2. IsValid(manifest[p])
  BY DEF Places, Place, IsOwned
<1>3. ASSUME pc'[q] = "audit", p \in DOMAIN seen'[q] PROVE seen'[q][p] = manifest'[p]
  BY <1>1, <1>3, AuditReads DEF WillSee
<1>4. ASSUME won'[q] PROVE ~Clash(manifest'[p], manifest'[q])
  <2>1. manifest'[q] = manifest[q]
    BY <1>4, ManifestChange
  <2>2. ~Clash(manifest[p], manifest[q])
    <3>1. CASE won[q]
      BY <3>1 DEF WillSee
    <3>2. CASE ~won[q]
      BY <1>2, <1>4, <3>2, WinnerChecked, DevPortsAssumption DEF WillSee
    <3> QED
      BY <3>1, <3>2
  <2> QED
    BY <1>1, <2>1, <2>2
<1> QED
  BY <1>3, <1>4 DEF WillSee

LEMMA AuditsStep ==
  ASSUME TypeOK, Places, Audits, NEW q \in Derived, Run(q) \/ Crash(q)
  PROVE  Audits'
<1> SUFFICES ASSUME NEW p \in Derived, NEW s \in Repo, pc'[p] = "audit", s \in DOMAIN seen'[p]
             PROVE  seen'[p][s] = manifest'[s] \/ (p # s /\ WillSee(s, p)')
  BY DEF Audits, AuditSaw
<1> USE DevPortsAssumption
(* The project that moves read something new, or moved without reading. *)
<1>1. CASE p = q
  <2>1. manifest'[p] = manifest[p]
    BY <1>1, AuditReads
  <2>2. s # p => manifest'[s] = manifest[s]
    BY <1>1, OthersSame
  <2>3. CASE seen'[p][s] = manifest[s]
    BY <2>1, <2>2, <2>3
  <2>4. CASE pc[p] = "audit" /\ s \in DOMAIN seen[p] /\ seen'[p][s] = seen[p][s]
    <3>1. seen[p][s] = manifest[s] \/ (p # s /\ WillSee(s, p))
      BY <2>4 DEF Audits, AuditSaw
    <3>2. ASSUME p # s, WillSee(s, p) PROVE WillSee(s, p)'
      BY <1>1, <2>1, <2>2, <3>2, OthersSame DEF WillSee
    <3> QED
      BY <2>1, <2>2, <2>4, <3>1, <3>2
  <2> QED
    BY <1>1, <2>3, <2>4, AuditReads
(* Another project moves; s is the mover or not. *)
<1>2. CASE p # q
  <2>1. pc[p] = "audit" /\ seen'[p] = seen[p] /\ manifest'[p] = manifest[p]
    BY <1>2, OthersSame
  <2>2. seen[p][s] = manifest[s] \/ (p # s /\ WillSee(s, p))
    BY <2>1 DEF Audits, AuditSaw
  <2>3. CASE s # q
    <3>1. ASSUME p # s, WillSee(s, p) PROVE WillSee(s, p)'
      BY <2>1, <2>3, <3>1, OthersSame DEF WillSee
    <3>2. manifest'[s] = manifest[s]
      BY <2>3, OthersSame
    <3> QED
      BY <2>1, <2>2, <3>1, <3>2
  <2>4. CASE s = q /\ manifest'[q] = manifest[q]
    BY <1>2, <2>1, <2>2, <2>4, WillSeeKept
  <2>5. CASE s = q /\ manifest'[q] # manifest[q]
    BY <1>2, <2>5, ManifestChange DEF WillSee
  <2> QED
    BY <2>3, <2>4, <2>5
<1> QED
  BY <1>1, <1>2

(* A winner that moves clashes with no other winner. *)
LEMMA MoverDisjoint ==
  ASSUME IInv, NEW q \in Derived, Run(q) \/ Crash(q), won'[q],
         NEW s \in Repo, s # q, won[s]
  PROVE  ~Clash(manifest'[q], manifest'[s])
<1> USE DevPortsAssumption DEF IInv
<1>1. manifest'[q] = manifest[q] /\ manifest'[s] = manifest[s]
  BY ManifestChange, OthersSame
<1>2. CASE won[q]
  BY <1>1, <1>2 DEF WinnersDisjoint
<1>3. CASE ~won[q]
  <2>1. IsValid(manifest[s])
    BY DEF Originals, Places, Place, IsOwned, IsValid, Valid
  <2>2. pc[q] = "audit" /\ s \in DOMAIN seen[q]
    BY <1>3, <2>1, WinnerChecked
  <2>3. CASE seen[q][s] = manifest[s]
    BY <1>1, <1>3, <2>1, <2>3, WinnerChecked, ClashSymmetric
  <2>4. CASE WillSee(s, q)
    BY <1>1, <2>4 DEF WillSee
  <2> QED
    BY <2>2, <2>3, <2>4 DEF Audits, AuditSaw
<1> QED
  BY <1>2, <1>3

LEMMA WinnersStep ==
  ASSUME IInv, NEW q \in Derived, Run(q) \/ Crash(q)
  PROVE  WinnersDisjoint'
<1> SUFFICES ASSUME NEW r \in Repo, NEW s \in Repo, r # s, won'[r], won'[s]
             PROVE  ~Clash(manifest'[r], manifest'[s])
  BY DEF WinnersDisjoint
<1> USE DevPortsAssumption DEF IInv
<1>1. CASE r # q /\ s # q
  BY <1>1, OthersSame DEF WinnersDisjoint
<1>2. CASE r = q
  BY <1>2, MoverDisjoint, OthersSame
<1>3. CASE s = q
  <2>1. ~Clash(manifest'[s], manifest'[r])
    BY <1>3, MoverDisjoint, OthersSame
  <2> QED
    BY <2>1, ClashSymmetric
<1> QED
  BY <1>1, <1>2, <1>3

-----------------------------------------------------------------------------
LEMMA InitEstablishes == Init => IInv
<1> SUFFICES ASSUME Init PROVE IInv
  OBVIOUS
<1>1. TypeOK
  BY TypeInit
<1>2. Places /\ Originals
  BY DevPortsAssumption DEF Init, Places, Place, Originals
<1>3. Audits
  BY DEF Init, Audits, AuditSaw
<1>4. WinnersDisjoint
  BY DevPortsAssumption DEF Init, WinnersDisjoint
<1> QED
  BY <1>1, <1>2, <1>3, <1>4 DEF IInv

LEMMA StepPreserves == IInv /\ [Next]_vars => IInv'
<1> SUFFICES ASSUME IInv, [Next]_vars PROVE IInv'
  OBVIOUS
<1>1. TypeOK'
  BY TypeStep DEF IInv
<1>2. ASSUME NEW q \in Derived, Run(q) \/ Crash(q) PROVE IInv'
  <2>1. ASSUME NEW r \in Derived PROVE Place(r)'
    <3>1. CASE r = q
      BY <1>1, <1>2, <3>1, PlaceOfMover DEF IInv, Places
    <3>2. CASE r # q
      <4>1. /\ manifest'[r] = manifest[r] /\ config'[r] = config[r] /\ won'[r] = won[r]
            /\ pc'[r] = pc[r] /\ seen'[r] = seen[r] /\ pick'[r] = pick[r]
        BY <1>2, <3>2, OthersSame, DevPortsAssumption DEF IInv
      <4> QED
        BY <4>1 DEF IInv, Places, Place, IsOwned
    <3> QED
      BY <3>1, <3>2
  <2>2. Originals'
    BY <1>2, OthersSame, DevPortsAssumption DEF IInv, Originals
  <2>3. Audits'
    BY <1>2, AuditsStep DEF IInv
  <2>4. WinnersDisjoint'
    BY <1>2, WinnersStep
  <2> QED
    BY <1>1, <2>1, <2>2, <2>3, <2>4 DEF IInv, Places
<1>3. CASE UNCHANGED vars
  BY <1>1, <1>3 DEF vars, IInv, Places, Place, Originals, Audits, AuditSaw, WillSee,
                    WinnersDisjoint, IsOwned
<1> QED
  BY <1>2, <1>3 DEF Next

(* The inductive invariant holds for any repositories, ids and number of slots. *)
THEOREM AllocationInvariant == Spec => []IInv
<1>1. Init => IInv
  BY InitEstablishes
<1>2. IInv /\ [Next]_vars => IInv'
  BY StepPreserves
<1> QED
  BY <1>1, <1>2, PTL DEF Spec

(* Manifests, configs and what an allocation has read keep their types; the search
   for a bundle ends at the first free slot and inside the table. *)
THEOREM TypeCorrect == Spec => []TypeOK
<1>1. IInv => TypeOK
  BY DEF IInv
<1> QED
  BY <1>1, AllocationInvariant, PTL

(* Two projects whose allocations returned without error never share an id or a
   port, although no lock orders their runs. *)
THEOREM WinnersNeverClash == Spec => []WinnersDisjoint
<1>1. IInv => WinnersDisjoint
  BY DEF IInv
<1> QED
  BY <1>1, AllocationInvariant, PTL

(* The direct-start config of a project that was given ports has those ports. *)
THEOREM ConfigFollowsManifest == Spec => []WinnersInParity
<1>1. IInv => WinnersInParity
  BY DEF IInv, Places, Place, WinnersInParity
<1> QED
  BY <1>1, AllocationInvariant, PTL

(* No run replaces the bundle of a project that has one. *)
THEOREM BundleIsFixed == Spec => PortsStayFixed
<1>1. ASSUME IInv, [Next]_vars, NEW r \in Repo, IsValid(manifest[r]), manifest[r].id # Template
      PROVE  manifest'[r] = manifest[r]
  <2>1. ASSUME NEW q \in Derived, Run(q) \/ Crash(q) PROVE manifest'[r] = manifest[r]
    <3>1. CASE r = q
      BY <1>1, <2>1, <3>1, ManifestChange DEF IInv, IsOwned
    <3>2. CASE r # q
      BY <1>1, <2>1, <3>2, OthersSame DEF IInv
    <3> QED
      BY <3>1, <3>2
  <2> QED
    BY <1>1, <2>1 DEF Next, vars
<1>2. IInv /\ [Next]_vars
        => [\A r \in Repo : IsValid(manifest[r]) /\ manifest[r].id # Template
                               => manifest'[r] = manifest[r]]_vars
  BY <1>1
<1> QED
  BY <1>2, AllocationInvariant, PTL DEF Spec, PortsStayFixed
=============================================================================
