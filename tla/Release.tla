------------------------------- MODULE Release -------------------------------
(***************************************************************************)
(* Operators who publish to one host with publish_server.sh: preflight,    *)
(* migration guard (migrate_online.sh), build, upload, replacement of the  *)
(* container (deploy_server.sh), smoke check.  The host's files and its    *)
(* image tag are shared, and the only lock is the flock around one atlas   *)
(* command.  A checkout is a version: version v has the migrations 1 .. v, *)
(* and its server needs all of them.                                       *)
(***************************************************************************)
EXTENDS Naturals

CONSTANTS
  Publisher,   (* operators, each with a checkout                             *)
  MaxVersion,  (* bound: versions                                             *)
  Modes,       (* DB_MIGRATION_MODE: "off", "check", "apply"                  *)
  Mixed,       (* a migration directory with files of two versions            *)
  Nobody       (* who holds a lock that is free                               *)

ASSUME ReleaseAssumption ==
  /\ MaxVersion \in Nat \ {0}
  /\ Modes \subseteq {"off", "check", "apply"}
  /\ Nobody \notin Publisher
  /\ Mixed \notin 0..MaxVersion

VARIABLES
  pc,         (* where each publish_server.sh is                              *)
  checkout,   (* what each publishes: version, migration mode, smoke check    *)
  pending,    (* what the status on its behalf said of pending migrations     *)
  plan,       (* the directory as its atlas apply has read it                 *)
  migrate,    (* host: the version in the migration directory                 *)
  compose,    (* host: whether the compose file has been uploaded             *)
  tar,        (* host: the version in the image archive                       *)
  image,      (* host: the version the image tag names                        *)
  container,  (* host: the version that runs, 0 when there is none            *)
  db,         (* database: how many migrations are applied                    *)
  lock,       (* who holds the flock                                          *)
  overtaken   (* history: publishers whose files on the host another wrote
                 while they relied on them, in their present publication      *)

files == <<migrate, compose, tar, image, container>>
vars  == <<pc, checkout, pending, plan, files, db, lock, overtaken>>

Version   == 1..MaxVersion
Guarding  == {"status", "dryRun", "apply"}
Releasing == {"scripts", "load", "remove", "up", "smoke"}
Pc == {"idle", "preflight", "sync", "syncing", "applying", "build", "upload", "done",
       "failed"} \cup Guarding \cup Releasing

TypeOK ==
  /\ pc \in [Publisher -> Pc]
  /\ checkout \in [Publisher -> [version : Version, mode : Modes, smoke : BOOLEAN]]
  /\ pending \in [Publisher -> BOOLEAN]
  /\ plan \in [Publisher -> 0..MaxVersion]
  /\ migrate \in 0..MaxVersion \cup {Mixed}
  /\ compose \in BOOLEAN
  /\ {tar, image, container, db} \subseteq 0..MaxVersion
  /\ lock \in Publisher \cup {Nobody}
  /\ overtaken \subseteq Publisher

(* A host that runs a version, or an empty one. *)
Init ==
  /\ pc = [p \in Publisher |-> "idle"]
  /\ checkout \in [Publisher -> [version : Version, mode : Modes, smoke : BOOLEAN]]
  /\ pending = [p \in Publisher |-> FALSE]
  /\ plan = [p \in Publisher |-> 0]
  /\ migrate \in 0..1
  /\ tar = migrate /\ image = migrate /\ container = migrate /\ db = migrate
  /\ compose = (migrate # 0)
  /\ lock = Nobody
  /\ overtaken = {}

Step(p, from, to) == pc[p] = from /\ pc' = [pc EXCEPT ![p] = to]

Quiet == UNCHANGED <<checkout, overtaken>>

(* A write of p to the host: those who relied on what was there are overtaken. *)
Writes(p, relying) ==
  /\ overtaken' = overtaken \cup {q \in Publisher \ {p} : pc[q] \in relying}
  /\ UNCHANGED <<checkout, pending, plan, db, lock>>

-----------------------------------------------------------------------------
(* publish_server.sh up to the guard                                          *)

Publish(p) ==
  /\ \/ Step(p, "idle", "preflight")
     \/ Step(p, "done", "preflight")
     \/ Step(p, "failed", "preflight")
  /\ overtaken' = overtaken \ {p}
  /\ UNCHANGED <<checkout, pending, plan, files, db, lock>>

Preflight(p) ==
  /\ Step(p, "preflight", IF checkout[p].mode = "off" THEN "build" ELSE "sync")
  /\ UNCHANGED <<pending, plan, files, db, lock>> /\ Quiet

(* sync_remote_migration_assets: rsync --delete, file by file. Two that overlap
   undo each other's files in any order. *)
SyncBegin(p) ==
  /\ Step(p, "sync", "syncing")
  /\ migrate' = Mixed
  /\ overtaken' = overtaken \cup {q \in Publisher \ {p} : pc[q] \in Guarding \cup {"syncing"}}
                             \cup {q \in {p} : \E r \in Publisher : pc[r] = "syncing"}
  /\ UNCHANGED <<checkout, pending, plan, compose, tar, image, container, db, lock>>

SyncEnd(p) ==
  /\ Step(p, "syncing", "status")
  /\ \/ migrate' = checkout[p].version
     \/ p \in overtaken /\ migrate' \in {Mixed} \cup {checkout[q].version : q \in Publisher}
  /\ UNCHANGED <<compose, tar, image, container>> /\ Writes(p, Guarding)

-----------------------------------------------------------------------------
(* migrate_online.sh: each atlas command runs under the flock and refuses a
   directory whose files do not fit together.  The compose file must be there. *)

AtlasRuns == lock = Nobody /\ migrate # Mixed

Status(p) ==
  /\ compose /\ AtlasRuns
  /\ Step(p, "status", "dryRun")
  /\ pending' = [pending EXCEPT ![p] = migrate > db]
  /\ UNCHANGED <<plan, files, db, lock>> /\ Quiet

(* Seeded fault: the output of the check is not looked at. *)
DryRun_PendingIgnored(p) ==
  /\ AtlasRuns
  /\ Step(p, "dryRun", IF checkout[p].mode = "apply" THEN "apply" ELSE "build")
  /\ UNCHANGED <<pending, plan, files, db, lock>> /\ Quiet

(* The dry run; then a check goes on when the status named nothing pending. *)
DryRun(p) ==
  /\ AtlasRuns
  /\ Step(p, "dryRun", IF checkout[p].mode = "apply" THEN "apply"
                       ELSE IF pending[p] THEN "failed" ELSE "build")
  /\ UNCHANGED <<pending, plan, files, db, lock>> /\ Quiet

ApplyBegin(p) ==
  /\ AtlasRuns
  /\ Step(p, "apply", "applying")
  /\ plan' = [plan EXCEPT ![p] = migrate]
  /\ lock' = p
  /\ UNCHANGED <<pending, files, db>> /\ Quiet

(* One file, one transaction. *)
ApplyFile(p) ==
  /\ pc[p] = "applying" /\ db < plan[p]
  /\ db' = db + 1
  /\ UNCHANGED <<pc, pending, plan, files, lock>> /\ Quiet

ApplyEnd(p) ==
  /\ db >= plan[p]
  /\ Step(p, "applying", "build")
  /\ lock' = Nobody
  /\ UNCHANGED <<pending, plan, files, db>> /\ Quiet

-----------------------------------------------------------------------------
(* Build, upload and deploy_server.sh                                         *)

Build(p) ==
  /\ Step(p, "build", "upload")
  /\ UNCHANGED <<pending, plan, files, db, lock>> /\ Quiet

UploadTar(p) ==
  /\ Step(p, "upload", "scripts")
  /\ tar' = checkout[p].version
  /\ UNCHANGED <<migrate, compose, image, container>> /\ Writes(p, Releasing)

UploadScripts(p) ==
  /\ Step(p, "scripts", "load")
  /\ compose' = TRUE
  /\ UNCHANGED <<migrate, tar, image, container>> /\ Writes(p, {})

(* Seeded fault: a failing docker load does not end the script. *)
Load_FailureIgnored(p) ==
  /\ Step(p, "load", "remove")
  /\ image' \in {tar, image}
  /\ UNCHANGED <<migrate, compose, tar, container>> /\ Writes(p, Releasing)

Load(p) ==
  /\ Step(p, "load", "remove")
  /\ image' = tar
  /\ UNCHANGED <<migrate, compose, tar, container>> /\ Writes(p, Releasing)

(* stop and rm, whose failures are ignored: up replaces what is left. *)
Remove(p) ==
  /\ Step(p, "remove", "up")
  /\ container' \in {0, container}
  /\ UNCHANGED <<migrate, compose, tar, image>> /\ Writes(p, Releasing)

Up(p) ==
  /\ Step(p, "up", "smoke")
  /\ container' = image
  /\ UNCHANGED <<migrate, compose, tar, image>> /\ Writes(p, Releasing)

(* The HTTP checks ask whoever answers at the port. *)
Smoke(p) ==
  /\ checkout[p].smoke => container # 0
  /\ Step(p, "smoke", "done")
  /\ UNCHANGED <<pending, plan, files, db, lock>> /\ Quiet

(* set -e: a command that fails, or a lost connection, ends the publication
   where it is; a flock ends with its process. *)
Fails(p) ==
  /\ pc[p] \notin {"idle", "done", "failed"}
  /\ pc' = [pc EXCEPT ![p] = "failed"]
  /\ lock' = IF lock = p THEN Nobody ELSE lock
  /\ UNCHANGED <<pending, plan, files, db>> /\ Quiet

-----------------------------------------------------------------------------
Guard(p) ==
  \/ SyncBegin(p) \/ SyncEnd(p) \/ Status(p) \/ DryRun(p)
  \/ ApplyBegin(p) \/ ApplyFile(p) \/ ApplyEnd(p)

Deploy(p) ==
  \/ UploadTar(p) \/ UploadScripts(p) \/ Load(p) \/ Remove(p) \/ Up(p) \/ Smoke(p)

Next ==
  \E p \in Publisher :
    Publish(p) \/ Preflight(p) \/ Guard(p) \/ Build(p) \/ Deploy(p) \/ Fails(p)

Spec == Init /\ [][Next]_vars

-----------------------------------------------------------------------------
Unmigrated == db < container

(* A publication starts a server on a database that lacks its migrations only if
   it switched the guard off or was overtaken by another: for whoever publishes
   alone the guard is sound, however often publications fail halfway and start
   again, and whatever files, archive or image they leave behind. *)
OnlyARaceSkipsMigrations ==
  [][\A p \in Publisher : pc[p] = "up" /\ pc'[p] = "smoke" /\ Unmigrated' =>
       checkout[p].mode = "off" \/ p \in overtaken]_vars

(* A publication that reports success has its own version running, unless another
   publisher wrote to the host meanwhile: no command that failed, and no archive
   or image left behind by a failed publication, comes between. *)
SuccessMeansMyVersion ==
  [][\A p \in Publisher : pc[p] = "smoke" /\ pc'[p] = "done" =>
       container = checkout[p].version \/ p \in overtaken]_vars

(* The promise of the modes check and apply: as long as nobody switches the guard
   off, no server runs whose migrations are pending.  Two publishers share the
   directory the guard looks at, so the code does not keep it. *)
PendingIsBlocked ==
  Unmigrated => \E p \in Publisher : checkout[p].mode = "off"
==============================================================================
