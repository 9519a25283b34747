------------------------------ MODULE TaskGroup ------------------------------
(***************************************************************************)
(* server/pkg/taskgroup: the background task group.                        *)
(*                                                                         *)
(* Every task is a goroutine with a program counter, every call of Stop is *)
(* a process with a program counter and, on the waiting branch, a second   *)
(* goroutine blocked in WaitGroup.Wait.  A critical section of Group.lock  *)
(* is one action; the code between two critical sections is not.           *)
(***************************************************************************)
EXTENDS Naturals, FiniteSets

CONSTANTS
  Task,          (* the calls of Go that may be made                          *)
  Stopper,       (* the calls of Stop that may be made                        *)
  Outside,       (* the caller of Go that is not itself a task of the group   *)
  Cooperative,   (* tasks whose run function returns when ctx is cancelled    *)
  FaultyHandler  (* tasks whose panicFunc may itself panic                    *)

ASSUME TaskGroupAssumption ==
  /\ IsFiniteSet(Task)
  /\ Outside \notin Task
  /\ Cooperative \subseteq Task
  /\ FaultyHandler \subseteq Task

VARIABLES
  stoped,     (* Group.stoped                                                 *)
  running,    (* the domain of Group.running, a context per task              *)
  wait,       (* the counter of Group.wait                                    *)
  canceled,   (* tasks whose ctxNew has been cancelled                        *)
  taskPc,     (* where the goroutine of each task is                          *)
  result,     (* the result each task's goroutine reports                     *)
  unwinding,  (* tasks whose panicFunc panicked: finish runs, then the crash  *)
  stopPc,     (* where each call of Stop is                                   *)
  outcome,    (* which branch each call of Stop took                          *)
  waiter,     (* the goroutine in WaitGroup.Wait of each waiting Stop         *)
  alive       (* FALSE once an unrecovered panic ended the process            *)

groupVars == <<stoped, running, wait, canceled>>
taskVars  == <<taskPc, result, unwinding, alive>>
stopVars  == <<stopPc, outcome, waiter>>
vars == <<groupVars, taskVars, stopVars>>

TaskPc  == {"new", "rejected", "spawned", "running", "panicked", "returned",
            "removed", "classified", "done"}
Result  == {"completed", "canceled", "panic"}
StopPc  == {"idle", "begun", "select", "cancel", "over"}
Outcome == {"none", "immediate", "drained", "timeout"}
Waiter  == {"none", "waiting", "closed"}

(***************************************************************************)
(* Accepted: Go returned to its caller and the goroutine has not released  *)
(* the WaitGroup.  Executing: user code of the task may still run.         *)
(***************************************************************************)
Unreleased == {t \in Task : taskPc[t] \in {"spawned", "running", "panicked",
                                           "returned", "removed", "classified"}}
Executing  == {t \in Task : taskPc[t] \in {"spawned", "running", "panicked"}}

CanCall(c) == c = Outside \/ (c \in Task /\ taskPc[c] = "running")

Init ==
  /\ stoped    = FALSE
  /\ running   = {}
  /\ wait      = 0
  /\ canceled  = {}
  /\ taskPc    = [t \in Task |-> "new"]
  /\ result    = [t \in Task |-> "completed"]
  /\ unwinding = {}
  /\ stopPc    = [s \in Stopper |-> "idle"]
  /\ outcome   = [s \in Stopper |-> "none"]
  /\ waiter    = [s \in Stopper |-> "none"]
  /\ alive     = TRUE

-----------------------------------------------------------------------------
(* Seeded faults: forms the code could take by mistake.                       *)

(* Go without the check of stoped under the lock. *)
GoAccept_Unchecked(c, t) ==
  /\ alive /\ CanCall(c) /\ taskPc[t] = "new"
  /\ wait' = wait + 1
  /\ running' = running \cup {t}
  /\ taskPc' = [taskPc EXCEPT ![t] = "spawned"]
  /\ UNCHANGED <<stoped, canceled, result, unwinding, alive, stopVars>>

(* wait.Add left to the goroutine, outside the critical section. *)
GoAccept_LateAdd(c, t) ==
  /\ alive /\ CanCall(c) /\ taskPc[t] = "new" /\ ~stoped
  /\ running' = running \cup {t}
  /\ taskPc' = [taskPc EXCEPT ![t] = "spawned"]
  /\ UNCHANGED <<stoped, wait, canceled, result, unwinding, alive, stopVars>>

(* A goroutine without the deferred recover. *)
PanicRun_Unrecovered(t) ==
  /\ alive /\ taskPc[t] = "running"
  /\ taskPc' = [taskPc EXCEPT ![t] = "panicked"]
  /\ alive' = FALSE
  /\ UNCHANGED <<groupVars, result, unwinding, stopVars>>

(* finish that does not delete the task from running. *)
FinishRemove_Forgotten(t) ==
  /\ alive /\ taskPc[t] = "returned"
  /\ taskPc' = [taskPc EXCEPT ![t] = "removed"]
  /\ UNCHANGED <<groupVars, result, unwinding, alive, stopVars>>

(* finish that reports "completed" for a cancelled task. *)
FinishClassify_NoErrCheck(t) ==
  /\ alive /\ taskPc[t] = "removed"
  /\ taskPc' = [taskPc EXCEPT ![t] = "classified"]
  /\ UNCHANGED <<groupVars, result, unwinding, alive, stopVars>>

(* Stop that returns when Wait returns without dispatching cancellation, or
   that forgets it when the timer fires. *)
StopCancel_Forgotten(s) ==
  /\ alive /\ stopPc[s] = "cancel"
  /\ stopPc' = [stopPc EXCEPT ![s] = "over"]
  /\ UNCHANGED <<groupVars, taskVars, outcome, waiter>>

(* Stop without the timer branch of the select. *)
StopTimeout_NoTimer(s) ==
  /\ FALSE
  /\ UNCHANGED vars

-----------------------------------------------------------------------------
(* Group.Go                                                                   *)

(* The critical section that accepts a task: Add and the registration in
   running are made under one lock, and the goroutine is spawned. *)
GoAccept(c, t) ==
  /\ alive /\ CanCall(c) /\ taskPc[t] = "new"
  /\ ~stoped
  /\ wait' = wait + 1
  /\ running' = running \cup {t}
  /\ taskPc' = [taskPc EXCEPT ![t] = "spawned"]
  /\ UNCHANGED <<stoped, canceled, result, unwinding, alive, stopVars>>

(* After Stop, Go panics ErrStopped; a task that called it unwinds into its
   own deferred recover. *)
GoReject(c, t) ==
  /\ alive /\ CanCall(c) /\ taskPc[t] = "new"
  /\ stoped
  /\ taskPc' = [u \in Task |-> IF u = t THEN "rejected"
                               ELSE IF u = c THEN "panicked" ELSE taskPc[u]]
  /\ result' = [u \in Task |-> IF u = c THEN "panic" ELSE result[u]]
  /\ UNCHANGED <<groupVars, unwinding, alive, stopVars>>

-----------------------------------------------------------------------------
(* The goroutine of a task                                                    *)

(* The scheduler starts run(ctxNew); a context that is already cancelled does
   not prevent it (the early return is commented out). *)
Start(t) ==
  /\ alive /\ taskPc[t] = "spawned"
  /\ taskPc' = [taskPc EXCEPT ![t] = "running"]
  /\ UNCHANGED <<groupVars, result, unwinding, alive, stopVars>>

Return(t) ==
  /\ alive /\ taskPc[t] = "running"
  /\ taskPc' = [taskPc EXCEPT ![t] = "returned"]
  /\ UNCHANGED <<groupVars, result, unwinding, alive, stopVars>>

(* run panics: the deferred recover catches it and records the result. *)
PanicRun(t) ==
  /\ alive /\ taskPc[t] = "running"
  /\ taskPc' = [taskPc EXCEPT ![t] = "panicked"]
  /\ result' = [result EXCEPT ![t] = "panic"]
  /\ UNCHANGED <<groupVars, unwinding, alive, stopVars>>

(* The panic callbacks return, or one of them panics and the goroutine keeps
   unwinding through finish. *)
PanicHandled(t) ==
  /\ alive /\ taskPc[t] = "panicked"
  /\ taskPc' = [taskPc EXCEPT ![t] = "returned"]
  /\ \/ UNCHANGED unwinding
     \/ t \in FaultyHandler /\ unwinding' = unwinding \cup {t}
  /\ UNCHANGED <<groupVars, result, alive, stopVars>>

(* finish, first part: the critical section that deletes the context. *)
FinishRemove(t) ==
  /\ alive /\ taskPc[t] = "returned"
  /\ running' = running \ {t}
  /\ taskPc' = [taskPc EXCEPT ![t] = "removed"]
  /\ UNCHANGED <<stoped, wait, canceled, result, unwinding, alive, stopVars>>

(* finish, second part: ctx.Err() is read after the lock was released. *)
FinishClassify(t) ==
  /\ alive /\ taskPc[t] = "removed"
  /\ taskPc' = [taskPc EXCEPT ![t] = "classified"]
  /\ result' = IF result[t] = "completed" /\ t \in canceled
               THEN [result EXCEPT ![t] = "canceled"] ELSE result
  /\ UNCHANGED <<groupVars, unwinding, alive, stopVars>>

(* finish, last part: wait.Done(). *)
FinishRelease(t) ==
  /\ alive /\ taskPc[t] = "classified"
  /\ wait' = wait - 1
  /\ taskPc' = [taskPc EXCEPT ![t] = "done"]
  /\ UNCHANGED <<stoped, running, canceled, result, unwinding, alive, stopVars>>

(* A panic of the callback itself has no recover above it. *)
Crash(t) ==
  /\ alive /\ taskPc[t] = "done" /\ t \in unwinding
  /\ alive' = FALSE
  /\ UNCHANGED <<groupVars, taskPc, result, unwinding, stopVars>>

-----------------------------------------------------------------------------
(* Group.Stop                                                                 *)

(* The first critical section. *)
StopBegin(s) ==
  /\ alive /\ stopPc[s] = "idle"
  /\ stoped' = TRUE
  /\ stopPc' = [stopPc EXCEPT ![s] = "begun"]
  /\ UNCHANGED <<running, wait, canceled, taskVars, outcome, waiter>>

(* ~wait, or timeout <= 0: straight to cancelRunning. *)
StopImmediate(s) ==
  /\ alive /\ stopPc[s] = "begun"
  /\ stopPc' = [stopPc EXCEPT ![s] = "cancel"]
  /\ outcome' = [outcome EXCEPT ![s] = "immediate"]
  /\ UNCHANGED <<groupVars, taskVars, waiter>>

(* wait with a positive timeout: the waiter goroutine and the timer start. *)
StopWait(s) ==
  /\ alive /\ stopPc[s] = "begun"
  /\ stopPc' = [stopPc EXCEPT ![s] = "select"]
  /\ waiter' = [waiter EXCEPT ![s] = "waiting"]
  /\ UNCHANGED <<groupVars, taskVars, outcome>>

(* The waiter goroutine: Wait returns at zero, then close(cancelChan). *)
WaiterClose(s) ==
  /\ alive /\ waiter[s] = "waiting" /\ wait = 0
  /\ waiter' = [waiter EXCEPT ![s] = "closed"]
  /\ UNCHANGED <<groupVars, taskVars, stopPc, outcome>>

(* select: <-cancelChan. *)
StopDrained(s) ==
  /\ alive /\ stopPc[s] = "select" /\ waiter[s] = "closed"
  /\ stopPc' = [stopPc EXCEPT ![s] = "cancel"]
  /\ outcome' = [outcome EXCEPT ![s] = "drained"]
  /\ UNCHANGED <<groupVars, taskVars, waiter>>

(* select: <-timer.C; Go picks either branch when both are ready. *)
StopTimeout(s) ==
  /\ alive /\ stopPc[s] = "select"
  /\ stopPc' = [stopPc EXCEPT ![s] = "cancel"]
  /\ outcome' = [outcome EXCEPT ![s] = "timeout"]
  /\ UNCHANGED <<groupVars, taskVars, waiter>>

(* cancelRunning, the last thing every branch of Stop does, then return. *)
StopCancel(s) ==
  /\ alive /\ stopPc[s] = "cancel"
  /\ canceled' = canceled \cup running
  /\ stopPc' = [stopPc EXCEPT ![s] = "over"]
  /\ UNCHANGED <<stoped, running, wait, taskVars, outcome, waiter>>

-----------------------------------------------------------------------------
GoStep(t) == \E c \in Task \cup {Outside} : GoAccept(c, t) \/ GoReject(c, t)

Finish(t) == FinishRemove(t) \/ FinishClassify(t) \/ FinishRelease(t)

TaskStep(t) ==
  \/ Start(t) \/ Return(t) \/ PanicRun(t) \/ PanicHandled(t)
  \/ Finish(t) \/ Crash(t)

StopStep(s) ==
  \/ StopBegin(s) \/ StopImmediate(s) \/ StopWait(s) \/ WaiterClose(s)
  \/ StopDrained(s) \/ StopTimeout(s) \/ StopCancel(s)

Next ==
  \/ \E t \in Task : GoStep(t) \/ TaskStep(t)
  \/ \E s \in Stopper : StopStep(s)

Spec == Init /\ [][Next]_vars

(***************************************************************************)
(* Fairness: the Go scheduler runs every runnable goroutine, the timer of  *)
(* a Stop fires, a panic callback returns, and a cooperative task returns  *)
(* once its context is cancelled.  Nothing makes a caller call Go or Stop, *)
(* and nothing makes a task that ignores ctx.Done() return.                *)
(***************************************************************************)
Fairness ==
  /\ \A t \in Task :
       WF_vars(Start(t) \/ PanicHandled(t) \/ Finish(t) \/ Crash(t))
  /\ \A t \in Cooperative : WF_vars(t \in canceled /\ Return(t))
  /\ \A s \in Stopper :
       /\ WF_vars(WaiterClose(s))
       /\ WF_vars(\/ StopImmediate(s) \/ StopWait(s) \/ StopDrained(s)
                  \/ StopTimeout(s) \/ StopCancel(s))

FairSpec == Spec /\ Fairness

-----------------------------------------------------------------------------
TypeOK ==
  /\ stoped \in BOOLEAN
  /\ running \subseteq Task
  /\ wait \in Nat
  /\ canceled \subseteq Task
  /\ taskPc \in [Task -> TaskPc]
  /\ result \in [Task -> Result]
  /\ unwinding \subseteq Task
  /\ stopPc \in [Stopper -> StopPc]
  /\ outcome \in [Stopper -> Outcome]
  /\ waiter \in [Stopper -> Waiter]
  /\ alive \in BOOLEAN

(* A Stop that took the "finished before timeout" branch returned after every
   accepted task released the group, and none was accepted since: the wait
   misses no task that Go accepted before stoped was set. *)
DrainedMeansFinished ==
  \A s \in Stopper : outcome[s] = "drained" => Unreleased = {}

(* Once a Stop has returned, no task still runs user code with a context
   nobody cancelled: Go and Stop leave no gap in which a task is accepted and
   missed by cancelRunning. *)
NoUncancelledSurvivor ==
  \A s \in Stopper : stopPc[s] = "over" => Executing \subseteq canceled

(* Stop(true, timeout) cancels nobody unless the timer fired: when Wait
   returned in time, the final cancelRunning finds an empty map. *)
NoCancelBeforeTimeout ==
  (\A s \in Stopper : outcome[s] \in {"none", "drained"}) => canceled = {}

(* What a finished goroutine reported about itself stays true: "completed" is
   never said of a cancelled context, "canceled" never of a live one. *)
ReportMatchesContext ==
  \A t \in Task : taskPc[t] \in {"classified", "done"} =>
    /\ result[t] = "completed" => t \notin canceled
    /\ result[t] = "canceled"  => t \in canceled

(* A panic of a task never ends the process; only a panic inside a panic
   callback does, and not before finish released the task. *)
PanicContained ==
  ~alive => \E t \in FaultyHandler : t \in unwinding /\ taskPc[t] = "done"

(* The contract of sync.WaitGroup: once a goroutine is in Wait no Add makes
   the counter grow, so a Wait that returned was not overtaken. *)
NoAddDuringWait ==
  [][(\E s \in Stopper : waiter[s] # "none") => wait' <= wait]_vars

(* Every call of Stop returns, whatever the tasks do. *)
StopReturns ==
  \A s \in Stopper : stopPc[s] = "begun" ~> (stopPc[s] = "over" \/ ~alive)

(* After a Stop has returned, every cooperative task is eventually gone, and
   once the group is empty no waiter goroutine is left behind in Wait. *)
ShutdownCompletes ==
  \A s \in Stopper : stopPc[s] = "over" ~>
    \/ ~alive
    \/ /\ Unreleased \cap Cooperative = {}
       /\ Unreleased = {} => \A r \in Stopper : waiter[r] # "waiting"


-----------------------------------------------------------------------------
(* The mapping to the promise of the package, module TaskLifecycle.           *)

PhaseOf(pc) ==
  CASE pc = "new"      -> "absent"
    [] pc = "rejected" -> "refused"
    [] pc \in {"spawned", "running", "panicked"}       -> "active"
    [] pc \in {"returned", "removed", "classified"}    -> "leaving"
    [] pc = "done"     -> "ended"

ReportOf(s) ==
  IF stopPc[s] # "over" THEN "pending"
  ELSE IF outcome[s] = "drained" THEN "drained" ELSE "cancelled"

Lifecycle == INSTANCE TaskLifecycle WITH
  open      <- ~stoped,
  phase     <- [t \in Task |-> PhaseOf(taskPc[t])],
  signalled <- canceled,
  report    <- [s \in Stopper |-> ReportOf(s)]

(* The group with its lock, map, counter and waiter goroutines does nothing
   the lifecycle of TaskLifecycle does not allow. *)
ImplementsLifecycle == Lifecycle!LifecycleSpec
=============================================================================
