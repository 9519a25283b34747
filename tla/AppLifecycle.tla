----------------------------- MODULE AppLifecycle -----------------------------
(***************************************************************************)
(* The life of a server process: main of server/cmd/server, the retry of   *)
(* NewData while the database comes up, and the default task group of      *)
(* server/pkg/taskgroup/default.go.  Everything main defers runs last in,  *)
(* first out, on each of the ways main can end.  The process is TaskGroup  *)
(* with one Stop, that of the cleanup, and with calls of Go that go        *)
(* through an unsynchronised global.                                       *)
(***************************************************************************)
EXTENDS TaskGroup

CONSTANTS
  Main,       (* the one call of Stop, made by the deferred cleanup           *)
  Window,     (* postgresReadyTimeout, in ticks                               *)
  Interval,   (* postgresRetryInterval, in ticks                              *)
  NamesAdmin  (* the configuration names an administrator with a password     *)

ASSUME AppLifecycleAssumption ==
  /\ Stopper = {Main}
  /\ Window \in Nat \ {0} /\ Interval \in Nat \ {0}
  /\ NamesAdmin \in BOOLEAN

VARIABLES
  mainPc,    (* where main is                                                 *)
  ending,    (* why main ends: the first panic, or the signal                 *)
  group,     (* defaultGroup # nil                                            *)
  pool,      (* the pool of connections: "none", "open" or "closed"           *)
  db,        (* the database: "up", "refusing" or "silent" (no answer at all) *)
  now,       (* the clock of the ready window                                 *)
  timer,     (* when the wait between two pings is over                       *)
  upSince,   (* history: when the database came up last                       *)
  hung,      (* history: a ping waited for a silent database                  *)
  handler,   (* a request handler is working                                  *)
  overran,   (* app.Run returned before the handler did                       *)
  nilMet     (* history: a call of taskgroup.Go met nil                       *)

startVars == <<pool, db, now, timer, upSince, hung>>
serveVars == <<handler, overran, nilMet>>
appVars == <<mainPc, ending, group, startVars, serveVars, vars>>

MainPc == {"config", "init", "check", "open", "ping", "wait", "admin", "serve", "stopping",
           "close", "flush", "stop", "reset", "return", "gone"}
Ending == {"none", "config", "database", "admin", "run", "signal"}

AppTypeOK ==
  /\ TypeOK
  /\ mainPc \in MainPc
  /\ ending \in Ending
  /\ group \in BOOLEAN
  /\ pool \in {"none", "open", "closed"}
  /\ db \in {"up", "refusing", "silent"}
  /\ now \in 0..Window
  /\ timer \in 0..(Window + Interval)
  /\ upSince \in 0..Window
  /\ hung \in BOOLEAN
  /\ handler \in BOOLEAN
  /\ overran \in BOOLEAN
  /\ nilMet \in BOOLEAN

AppInit ==
  /\ Init
  /\ mainPc = "config"
  /\ ending = "none"
  /\ group = FALSE
  /\ pool = "none"
  /\ db \in {"up", "refusing", "silent"}
  /\ now = 0
  /\ timer = 0
  /\ upSince = 0
  /\ hung = FALSE
  /\ handler = FALSE
  /\ overran = FALSE
  /\ nilMet = FALSE

-----------------------------------------------------------------------------
Goto(from, to) == alive /\ mainPc = from /\ mainPc' = to

(* A panic of main, or the end of app.Run: the deferred calls begin. *)
Unwind(from, to, why) == Goto(from, to) /\ ending' = why

-----------------------------------------------------------------------------
(* Seeded faults                                                              *)

(* log.Fatal instead of panic: no deferred call runs. *)
RunFails_Fatal ==
  /\ Unwind("serve", "gone", "run")
  /\ UNCHANGED <<group, startVars, serveVars, vars>>

(* Stop without the timer, see TaskGroup. *)
Drain_NoTimer ==
  /\ alive /\ mainPc = "stop"
  /\ StopBegin(Main) \/ StopWait(Main) \/ StopDrained(Main) \/ StopCancel(Main)
  /\ mainPc' = IF stopPc[Main] = "cancel" THEN "reset" ELSE "stop"
  /\ UNCHANGED <<ending, group, startVars, serveVars>>

(* The wait between two pings grows beyond the interval. *)
PingRefused_Backoff ==
  /\ Goto("ping", "wait")
  /\ db = "refusing"
  /\ timer' = IF now + 2 * Interval > Window THEN Window + Interval ELSE now + 2 * Interval
  /\ UNCHANGED <<ending, group, pool, db, now, upSince, hung, serveVars, vars>>

(* The cleanup of the pool runs as soon as the signal arrives. *)
Signal_ClosesPool ==
  /\ Unwind("serve", "stopping", "signal")
  /\ pool' = "closed"
  /\ UNCHANGED <<group, db, now, timer, upSince, hung, serveVars, vars>>

(* The cleanup of the group forgets the default before it stops it. *)
Flush_ResetsFirst ==
  /\ Goto("flush", "stop")
  /\ group' = FALSE
  /\ UNCHANGED <<ending, startVars, serveVars, vars>>

-----------------------------------------------------------------------------
(* The start of the process                                                   *)

(* Load and Scan of the configuration; nothing is deferred yet that matters. *)
LoadConfig ==
  /\ \/ Goto("config", "init") /\ UNCHANGED ending
     \/ Unwind("config", "gone", "config")
  /\ UNCHANGED <<group, startVars, serveVars, vars>>

InitGroup ==
  /\ Goto("init", "check")
  /\ group' = TRUE
  /\ UNCHANGED <<ending, startVars, serveVars, vars>>

(* The tracer never fails; the server and data sections and the development
   ports may. *)
Check ==
  /\ \/ Goto("check", "open") /\ UNCHANGED ending
     \/ Unwind("check", "flush", "config")
  /\ UNCHANGED <<group, startVars, serveVars, vars>>

(* NewData: otelsql.Open and the context of the ready window. *)
OpenPool ==
  /\ \/ Goto("open", "ping") /\ pool' = "open" /\ UNCHANGED ending
     \/ Unwind("open", "flush", "config") /\ UNCHANGED pool
  /\ UNCHANGED <<group, db, now, timer, upSince, hung, serveVars, vars>>

(* waitForPostgresReady.  A ping whose context is over fails. *)
PingSucceeds ==
  /\ Goto("ping", "admin")
  /\ db = "up" /\ now < Window
  /\ UNCHANGED <<ending, group, startVars, serveVars, vars>>

PingRefused ==
  /\ Goto("ping", "wait")
  /\ db = "refusing" \/ now = Window
  /\ timer' = now + Interval
  /\ UNCHANGED <<ending, group, pool, db, now, upSince, hung, serveVars, vars>>

(* No answer: the ping returns when the connection breaks, or with the context,
   which is the whole window's. *)
PingHangs ==
  /\ Goto("ping", "wait")
  /\ db = "silent"
  /\ now' \in now..Window
  /\ timer' = now' + Interval
  /\ hung' = (hung \/ now' > now)
  /\ UNCHANGED <<ending, group, pool, db, upSince, serveVars, vars>>

PingAgain ==
  /\ Goto("wait", "ping") /\ now = timer
  /\ UNCHANGED <<ending, group, startVars, serveVars, vars>>

PingLater ==
  /\ Goto("wait", "wait") /\ now < timer /\ now < Window
  /\ now' = now + 1
  /\ UNCHANGED <<ending, group, pool, db, timer, upSince, hung, serveVars, vars>>

(* ctx.Done; NewData closes the pool itself. *)
GiveUp ==
  /\ Unwind("wait", "flush", "database") /\ now = Window
  /\ pool' = "closed"
  /\ UNCHANGED <<group, db, now, timer, upSince, hung, serveVars, vars>>

(* InitAdminUsersIfNeeded, one step here; its error leaves the pool open.  It has
   no deadline (context.Background): while the database is silent, or another
   session holds a lock, which looks the same from here, nothing comes back. *)
InitAdmin ==
  /\ \/ Goto("admin", "serve") /\ (NamesAdmin => db = "up") /\ UNCHANGED ending
     \/ Unwind("admin", "flush", "admin") /\ NamesAdmin /\ db # "silent"
  /\ UNCHANGED <<group, startVars, serveVars, vars>>

(* The connection to a silent database may break some day, or never. *)
InitAdminBroken ==
  /\ Unwind("admin", "flush", "admin") /\ NamesAdmin /\ db = "silent"
  /\ UNCHANGED <<group, startVars, serveVars, vars>>

(* Outside the process: the database comes up, goes down or falls silent. *)
DatabaseChanges ==
  /\ alive /\ mainPc \in {"open", "ping", "wait", "admin"}
  /\ db' \in {"up", "refusing", "silent"} \ {db}
  /\ upSince' = IF db' = "up" THEN now ELSE upSince
  /\ UNCHANGED <<mainPc, ending, group, pool, now, timer, hung, serveVars, vars>>

-----------------------------------------------------------------------------
(* app.Run, the framework's                                                   *)

Signal ==
  /\ Unwind("serve", "stopping", "signal")
  /\ UNCHANGED <<group, startVars, serveVars, vars>>

(* A server cannot listen, or fails later: app.Run returns an error. *)
RunFails ==
  /\ Unwind("serve", "stopping", "run")
  /\ UNCHANGED <<group, startVars, serveVars, vars>>

(* The servers are stopped gracefully, or no longer waited for. *)
RunReturns ==
  /\ Goto("stopping", "close")
  /\ overran' = handler
  /\ UNCHANGED <<ending, group, startVars, handler, nilMet, vars>>

HandlerBegins ==
  /\ alive /\ mainPc \in {"serve", "stopping"} /\ ~handler
  /\ handler' = TRUE
  /\ UNCHANGED <<mainPc, ending, group, startVars, overran, nilMet, vars>>

HandlerEnds ==
  /\ alive /\ mainPc # "gone" /\ handler
  /\ handler' = FALSE
  /\ UNCHANGED <<mainPc, ending, group, startVars, overran, nilMet, vars>>

-----------------------------------------------------------------------------
(* The deferred calls                                                         *)

ClosePool ==
  /\ Goto("close", "flush")
  /\ pool' = "closed"
  /\ UNCHANGED <<ending, group, db, now, timer, upSince, hung, serveVars, vars>>

Flush ==
  /\ Goto("flush", "stop")
  /\ UNCHANGED <<ending, group, startVars, serveVars, vars>>

(* Stop(true, 30 s): the immediate branch is never taken. *)
Drain ==
  /\ alive /\ mainPc = "stop"
  /\ \/ StopBegin(Main) \/ StopWait(Main)
     \/ StopDrained(Main) \/ StopTimeout(Main) \/ StopCancel(Main)
  /\ mainPc' = IF stopPc[Main] = "cancel" THEN "reset" ELSE "stop"
  /\ UNCHANGED <<ending, group, startVars, serveVars>>

Reset ==
  /\ Goto("reset", "return")
  /\ group' = FALSE
  /\ UNCHANGED <<ending, startVars, serveVars, vars>>

(* The configuration is closed and main returns, which ends every goroutine. *)
LeaveMain ==
  /\ Goto("return", "gone")
  /\ UNCHANGED <<ending, group, startVars, serveVars, vars>>

-----------------------------------------------------------------------------
(* taskgroup.Go, by a handler or by a task: a method call on the default group.
   With nil in the global it panics at the first access of a field, which the
   recover of the task, or of the framework, turns into the end of the caller. *)
NilCall(c, t) ==
  /\ alive /\ CanCall(c) /\ taskPc[t] = "new"
  /\ taskPc' = [u \in Task |-> IF u = t THEN "rejected"
                               ELSE IF u = c THEN "panicked" ELSE taskPc[u]]
  /\ result' = [u \in Task |-> IF u = c THEN "panic" ELSE result[u]]
  /\ UNCHANGED <<groupVars, unwinding, alive, stopVars>>

GoDefault(c, t) ==
  /\ mainPc # "gone"
  /\ c = Outside => handler
  /\ \/ /\ group
        /\ GoAccept(c, t) \/ GoReject(c, t)
        /\ UNCHANGED nilMet
     \/ /\ ~group
        /\ NilCall(c, t)
        /\ nilMet' = TRUE
  /\ handler' = (handler /\ (c = Outside => group /\ ~stoped))
  /\ UNCHANGED <<mainPc, ending, group, startVars, overran>>

(* Every goroutine goes on until main returns. *)
GroupRuns ==
  /\ mainPc # "gone"
  /\ (\E t \in Task : TaskStep(t)) \/ WaiterClose(Main)
  /\ UNCHANGED <<mainPc, ending, group, startVars, serveVars>>

-----------------------------------------------------------------------------
StartUp ==
  \/ LoadConfig \/ InitGroup \/ Check \/ OpenPool
  \/ PingSucceeds \/ PingRefused \/ PingHangs \/ PingAgain \/ PingLater \/ GiveUp
  \/ InitAdmin

ShutDown == RunReturns \/ ClosePool \/ Flush \/ Drain \/ Reset \/ LeaveMain

AppNext ==
  \/ StartUp \/ ShutDown
  \/ DatabaseChanges \/ InitAdminBroken \/ Signal \/ RunFails
  \/ HandlerBegins \/ HandlerEnds
  \/ \E c \in Task \cup {Outside}, t \in Task : GoDefault(c, t)
  \/ GroupRuns

AppSpec == AppInit /\ [][AppNext]_appVars

(***************************************************************************)
(* Fairness: main is a runnable goroutine whose clock ticks; the framework *)
(* returns from a graceful stop and the exporter from ForceFlush, neither  *)
(* of which the code bounds.  Tasks, handlers, the operator and the        *)
(* database owe nothing: a statement on a silent one need never return.    *)
(***************************************************************************)
FairAppSpec == AppSpec /\ WF_appVars(StartUp) /\ WF_appVars(ShutDown)

-----------------------------------------------------------------------------
(* However main ends once the default group exists, by a panic at any stage of
   the start, an error of app.Run or a signal, it leaves a task behind only when
   the 30 s ran out, and has cancelled it. *)
ExitIsOrderly ==
  mainPc = "gone" => /\ Executing \subseteq canceled
                     /\ Unreleased # {} => outcome[Main] = "timeout"

(* The cleanup sets the default group to nil, which no lock protects: a call of
   Go meets nil only from a task or a handler that outlived its grace. *)
NilOnlyAfterGrace == nilMet => outcome[Main] = "timeout" \/ overran

(* A handler that the framework waits for has the database to the end. *)
PoolOutlivesHandlers == handler /\ ~overran => pool = "open"

(* "Leaves the database a short window to recover": a start gives up on a database
   only if it was down in the last interval of the window, or did not refuse a
   connection but let a ping hang. *)
RecoveryWindow ==
  ending = "database" => db # "up" \/ upSince + Interval >= Window \/ hung

(* Every start serves or ends, unless the database falls silent, for good or again
   and again, when the ping was answered and the administrator's statements, which
   no timer bounds, are not.  An end that has begun ends the process: none of the
   tasks can hold it up. *)
ProcessEnds ==
  /\ \/ <>(mainPc = "serve" \/ ending # "none")
     \/ []<>(mainPc = "admin" /\ db = "silent")
  /\ ending # "none" ~> mainPc = "gone" \/ ~alive
=============================================================================
