------------------------------ MODULE DevPorts -------------------------------
(***************************************************************************)
(* scripts/dev-ports.mjs: repositories side by side in one directory each  *)
(* hold a manifest of fixed development ports.  An allocation reads the    *)
(* manifests of its siblings, one file after the other, picks a bundle,    *)
(* writes its own manifest and server config and audits what is there.     *)
(* There is no lock: allocations of different repositories interleave, and *)
(* each may be killed at any point and run again.                          *)
(***************************************************************************)
EXTENDS Integers, FiniteSets

CONSTANTS
  Repo,      (* the repositories in the parent directory                      *)
  Derived,   (* those that `allocate` is run for, once or again               *)
  IdOf,      (* the project id given on the command line of each              *)
  Template,  (* the project id webapp-template                                *)
  Copied,    (* the numbers that the port docs of each derived one contain    *)
  MaxSlot,   (* candidate bundles are numbered 0..MaxSlot-1; the code's 500   *)
  MaxCrash   (* how often allocations are killed                              *)

ASSUME DevPortsAssumption ==
  /\ Derived \subseteq Repo
  /\ \A r, s \in Repo \ Derived : r = s    \* the template itself, or nothing
  /\ Template \notin {IdOf[r] : r \in Derived}
  /\ Copied \in [Derived -> SUBSET Nat]
  /\ MaxSlot \in Nat /\ MaxCrash \in Nat

VARIABLES
  manifest,  (* config/dev-ports.env of each repository                       *)
  config,    (* the bundle whose ports are in server/configs/dev/config.yaml  *)
  pc,        (* where the allocation of each repository is                    *)
  seen,      (* the manifests it has read so far, by repository               *)
  pick,      (* the manifest it is going to write                             *)
  won,       (* an allocation of the repository has returned without error    *)
  crashes

vars == <<manifest, config, pc, seen, pick, won, crashes>>

-----------------------------------------------------------------------------
(* Bundles of ports                                                           *)

AuxRange == 100

Candidate(slot) ==
  [web |-> 5178 + slot, http |-> 8500 + slot * 100, grpc |-> 9500 + slot * 100,
   style |-> 6178 + slot, aux |-> 15500 + slot * AuxRange]

TemplatePorts == [web |-> 5177, http |-> 8200, grpc |-> 9200, style |-> 6177, aux |-> 15400]

Ports == {Candidate(s) : s \in 0..(MaxSlot - 1)} \cup {TemplatePorts}

(* The last port of a reservation: the auxiliary one is a range. *)
Last(p, field) == IF field = "aux" THEN p[field] + AuxRange - 1 ELSE p[field]

(* assertNoReservationConflicts over two bundles. *)
Overlap(p, q) ==
  \E f, g \in {"web", "http", "grpc", "style", "aux"} :
    p[f] <= Last(q, g) /\ q[g] <= Last(p, f)

Missing  == [state |-> "missing"]
Torn     == [state |-> "torn"]     (* truncated by writeFileSync, not written *)
Valid(id, p) == [state |-> "valid", id |-> id, ports |-> p]

Manifest == {Missing, Torn} \cup
            {Valid(id, p) : id \in {Template} \cup {IdOf[r] : r \in Derived}, p \in Ports}

IsValid(m) == m.state = "valid"
Clash(m, n) == m.id = n.id \/ Overlap(m.ports, n.ports)

(* The manifest in the repository names a project of its own. *)
IsOwned(r) == IsValid(manifest[r]) /\ manifest[r].id # Template

Unseen == [s \in {} |-> Missing]

Pc == {"idle", "scan", "truncate", "write", "config", "fill", "audit"}

TypeOK ==
  /\ manifest \in [Repo -> Manifest]
  /\ config \in [Repo -> Ports \cup {Torn}]
  /\ pc \in [Derived -> Pc]
  /\ seen \in [Derived -> UNION {[S -> Manifest] : S \in SUBSET Repo}]
  /\ pick \in [Derived -> Manifest]
  /\ won \in [Repo -> BOOLEAN]
  /\ crashes \in 0..MaxCrash

(* The template, and derived repositories that are copies of it or that have no
   manifest yet. *)
Init ==
  /\ manifest \in [Repo -> {Missing, Valid(Template, TemplatePorts)}]
  /\ \A r \in Repo \ Derived : manifest[r] = Valid(Template, TemplatePorts)
  /\ config = [r \in Repo |-> TemplatePorts]
  /\ pc = [r \in Derived |-> "idle"]
  /\ seen = [r \in Derived |-> Unseen]
  /\ pick = [r \in Derived |-> Missing]
  /\ won = [r \in Repo |-> r \notin Derived]
  /\ crashes = 0

-----------------------------------------------------------------------------
Goto(r, from, to) == pc[r] = from /\ pc' = [pc EXCEPT ![r] = to]

(* An error of the allocation: the command exits with status 1. *)
Fail(r, from) == Goto(r, from, "idle") /\ UNCHANGED <<manifest, config, pick, won, crashes>>
                 /\ seen' = [seen EXCEPT ![r] = Unseen]

SeenValid(r) == {s \in DOMAIN seen[r] : IsValid(seen[r][s])}

(* What findSiblingManifests and the checks behind it complain of. *)
Unreadable(r) == \E s \in DOMAIN seen[r] : seen[r][s] = Torn
SeenClash(r)  == \E s, t \in SeenValid(r) : s # t /\ Clash(seen[r][s], seen[r][t])

Free(r, p) == \A s \in SeenValid(r) : ~Overlap(seen[r][s].ports, p)
FreeSlots(r) == {i \in 0..(MaxSlot - 1) : Free(r, Candidate(i))}
FirstSlot(r) == CHOOSE i \in FreeSlots(r) : \A j \in FreeSlots(r) : i <= j

-----------------------------------------------------------------------------
(* Seeded faults                                                              *)

(* A manifest of any project is replaced. *)
Begin_Reallocate(r) ==
  /\ Goto(r, "idle", "scan")
  /\ UNCHANGED <<manifest, config, seen, pick, won, crashes>>

(* The allocation trusts what it read before it wrote. *)
Audit_Skipped(r) ==
  /\ Goto(r, "audit", "idle")
  /\ won' = [won EXCEPT ![r] = TRUE]
  /\ seen' = [seen EXCEPT ![r] = Unseen]
  /\ UNCHANGED <<manifest, config, pick, crashes>>

(* The config is written even when it has the ports already. *)
TruncateConfig_Always(r) ==
  /\ Goto(r, "config", "fill")
  /\ config' = [config EXCEPT ![r] = Torn]
  /\ UNCHANGED <<manifest, seen, pick, won, crashes>>

(* A run that finds its manifest leaves the config alone. *)
KeepPorts_NoSync(r) ==
  /\ IsOwned(r) /\ manifest[r].id = IdOf[r]
  /\ Goto(r, "idle", "audit")
  /\ UNCHANGED <<manifest, config, seen, pick, won, crashes>>

-----------------------------------------------------------------------------
(* allocateDerivedPortBundle looks at its own manifest. One of another project,
   or one that does not parse, is an error, as is a config without the ports. *)
Refuse(r) ==
  /\ \/ manifest[r] = Torn
     \/ IsOwned(r) /\ (manifest[r].id # IdOf[r] \/ config[r] = Torn)
  /\ Fail(r, "idle")

(* The manifest of the project itself stays; the config is brought in line. *)
KeepPorts(r) ==
  /\ IsOwned(r) /\ manifest[r].id = IdOf[r] /\ config[r] # Torn
  /\ Goto(r, "idle", "config")
  /\ pick' = [pick EXCEPT ![r] = manifest[r]]
  /\ UNCHANGED <<manifest, config, seen, won, crashes>>

Begin(r) ==
  /\ manifest[r] # Torn /\ ~IsOwned(r)
  /\ Goto(r, "idle", "scan")
  /\ UNCHANGED <<manifest, config, seen, pick, won, crashes>>

(* findSiblingManifests reads one directory entry after the other, in the order
   readdir gives; the audit reads the repository's own manifest as well. *)
ReadSibling(r) ==
  /\ pc[r] \in {"scan", "audit"}
  /\ \E s \in (IF pc[r] = "scan" THEN Repo \ {r} ELSE Repo) \ DOMAIN seen[r] :
       seen' = [seen EXCEPT ![r] = [t \in DOMAIN @ \cup {s} |->
                                      IF t = s THEN manifest[s] ELSE @[t]]]
  /\ UNCHANGED <<manifest, config, pc, pick, won, crashes>>

(* The checks of the siblings, the search for the first free candidate and the
   look at the config it is for. *)
CannotChoose(r) ==
  \/ Unreadable(r) \/ SeenClash(r) \/ FreeSlots(r) = {} \/ config[r] = Torn
  \/ \E s \in SeenValid(r) : seen[r][s].id = IdOf[r]

Choose(r) ==
  /\ pc[r] = "scan" /\ DOMAIN seen[r] = Repo \ {r}
  /\ \/ CannotChoose(r) /\ Fail(r, "scan")
     \/ /\ ~CannotChoose(r)
        /\ Goto(r, "scan", "truncate")
        /\ pick' = [pick EXCEPT ![r] = Valid(IdOf[r], Candidate(FirstSlot(r)))]
        /\ seen' = [seen EXCEPT ![r] = Unseen]
        /\ UNCHANGED <<manifest, config, won, crashes>>

(* writeFileSync truncates a file and then writes it: first the manifest... *)
TruncateManifest(r) ==
  /\ Goto(r, "truncate", "write")
  /\ manifest' = [manifest EXCEPT ![r] = Torn]
  /\ UNCHANGED <<config, seen, pick, won, crashes>>

WriteManifest(r) ==
  /\ Goto(r, "write", "config")
  /\ manifest' = [manifest EXCEPT ![r] = pick[r]]
  /\ UNCHANGED <<config, seen, pick, won, crashes>>

(* ...and then the config, unless it has these ports already. *)
KeepConfig(r) ==
  /\ Goto(r, "config", "audit") /\ config[r] = pick[r].ports
  /\ UNCHANGED <<manifest, config, seen, pick, won, crashes>>

TruncateConfig(r) ==
  /\ Goto(r, "config", "fill") /\ config[r] # pick[r].ports
  /\ config' = [config EXCEPT ![r] = Torn]
  /\ UNCHANGED <<manifest, seen, pick, won, crashes>>

WriteConfig(r) ==
  /\ Goto(r, "fill", "audit")
  /\ config' = [config EXCEPT ![r] = pick[r].ports]
  /\ UNCHANGED <<manifest, seen, pick, won, crashes>>

(* assertPortDocsUseManifest: the port docs refer to the manifest, and copy neither
   the template's numbers nor the project's own. *)
TemplatePortLiterals == {5177, 6177, 8200, 9200, 15400, 15480, 15490, 15499}

ForbiddenInDocs(p) ==
  TemplatePortLiterals \cup {p.web, p.http, p.grpc, p.style}
    \cup {p.aux + i : i \in {0, 80, 90, AuxRange - 1}}

DocsCopyPorts(r) == IsValid(manifest[r]) /\ Copied[r] \cap ForbiddenInDocs(manifest[r].ports) # {}

(* auditSiblingPortConflicts over what was read, then auditRootPortParity. *)
AuditFails(r) ==
  Unreadable(r) \/ SeenClash(r) \/ manifest[r].ports # config[r] \/ DocsCopyPorts(r)

Audit(r) ==
  /\ pc[r] = "audit" /\ DOMAIN seen[r] = Repo
  /\ \/ AuditFails(r) /\ Fail(r, "audit")
     \/ /\ ~AuditFails(r)
        /\ Goto(r, "audit", "idle")
        /\ won' = [won EXCEPT ![r] = TRUE]
        /\ seen' = [seen EXCEPT ![r] = Unseen]
        /\ UNCHANGED <<manifest, config, pick, crashes>>

(* The process is killed; what it wrote stays. *)
Crash(r) ==
  /\ pc[r] # "idle" /\ crashes < MaxCrash
  /\ pc' = [pc EXCEPT ![r] = "idle"]
  /\ seen' = [seen EXCEPT ![r] = Unseen]
  /\ crashes' = crashes + 1
  /\ UNCHANGED <<manifest, config, pick, won>>

Run(r) ==
  \/ Refuse(r) \/ KeepPorts(r) \/ Begin(r) \/ ReadSibling(r) \/ Choose(r)
  \/ TruncateManifest(r) \/ WriteManifest(r)
  \/ KeepConfig(r) \/ TruncateConfig(r) \/ WriteConfig(r) \/ Audit(r)

Next == \E r \in Derived : Run(r) \/ Crash(r)

Spec == Init /\ [][Next]_vars

(* Whoever derives a project runs the command again until it succeeds. *)
FairSpec == Spec /\ \A r \in Derived : WF_vars(Run(r))

-----------------------------------------------------------------------------
(* Two projects whose allocations returned without error never share an id or a
   port, however their runs interleaved: each audits after it wrote. *)
WinnersDisjoint ==
  \A r, s \in Repo : r # s /\ won[r] /\ won[s] => ~Clash(manifest[r], manifest[s])

(* After a success the direct-start config has the ports of the manifest, and
   later runs that are killed half way do not change that. *)
WinnersInParity ==
  \A r \in Derived : won[r] => config[r] = manifest[r].ports

(* Ports are assigned once: no run, failed, repeated or killed, replaces the
   bundle of a project that has one. *)
PortsStayFixed ==
  [][\A r \in Repo : IsValid(manifest[r]) /\ manifest[r].id # Template
                       => manifest'[r] = manifest[r]]_vars

(* What keeps project r from its ports and no run of the command repairs: its
   config without its content, docs that copy a forbidden number, a manifest
   beside it without its content, and two manifests that share an id or a port. *)
NeedsRepair(r) ==
  \/ pc[r] = "idle" /\ config[r] = Torn
  \/ DocsCopyPorts(r)
  \/ \E s \in Derived : pc[s] = "idle" /\ manifest[s] = Torn
  \/ \E s, t \in Repo : /\ s # t /\ IsValid(manifest[s]) /\ IsValid(manifest[t])
                        /\ Clash(manifest[s], manifest[t])

(* A project whose allocation fails or is killed and is run again gets its ports,
   or is left in a state that every later run of it reports. *)
RetryCompletes == \A r \in Derived : <>won[r] \/ <>[]NeedsRepair(r)
=============================================================================
