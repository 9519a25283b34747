-------------------------- MODULE AppLifecycleProofs ---------------------------
(***************************************************************************)
(* Safety of the task group, for any finite set of tasks and any set of    *)
(* calls of Stop, and of the server process around it, for any length of   *)
(* the ready window.                                                       *)
(*                                                                         *)
(* IInv says what the counter, the map and the cancelled contexts of the   *)
(* group are in terms of where each goroutine is; the three facts about    *)
(* Stop then follow from where each call of Stop is.                       *)
(*                                                                         *)
(* Every step of the process is a step of the group or none, so what is    *)
(* proved of the group holds inside the process; what main adds is an      *)
(* order, which AppInv ties to the one call of Stop.                       *)
(***************************************************************************)
EXTENDS AppLifecycle, FiniteSetTheorems, TLAPS

-----------------------------------------------------------------------------
(* The task group.                                                         *)

(* Group.running holds exactly the tasks that finish has not deleted. *)
RunningIsRegistered ==
  running = {t \in Task : taskPc[t] \in {"spawned", "running", "panicked", "returned"}}

(* Group.wait counts exactly the tasks that have not called Done. *)
WaitCounts == wait = Cardinality(Unreleased)

CanceledWereAccepted ==
  \A t \in canceled : taskPc[t] \notin {"new", "rejected"}

(* What each call of Stop has established, by program counter. *)
StopProgress ==
  \A s \in Stopper :
    /\ stopPc[s] # "idle" => stoped
    /\ waiter[s] # "none" => stopPc[s] \notin {"idle", "begun"}
    /\ waiter[s] = "closed" => Unreleased = {}
    /\ outcome[s] = "drained" => waiter[s] = "closed"
    /\ stopPc[s] \in {"cancel", "over"} <=> outcome[s] # "none"

(* Nobody is reported cancelled before finish has read ctx.Err(). *)
Reports ==
  /\ ReportMatchesContext
  /\ \A t \in Task : result[t] = "canceled" => taskPc[t] \in {"classified", "done"}

IInv ==
  /\ TypeOK
  /\ RunningIsRegistered
  /\ WaitCounts
  /\ CanceledWereAccepted
  /\ StopProgress
  /\ NoUncancelledSurvivor
  /\ NoCancelBeforeTimeout
  /\ Reports

-----------------------------------------------------------------------------
(* The set of unreleased tasks is finite, so its cardinality is a number. *)
LEMMA UnreleasedFinite == IsFiniteSet(Unreleased)
<1>1. Unreleased \in SUBSET Task
  BY DEF Unreleased
<1> QED
  BY <1>1, FS_Subset, TaskGroupAssumption

(* The three ways a step of a goroutine changes the set of unreleased tasks:
   not at all, by the task it accepts, by the task it releases. *)
LEMMA UnreleasedSame ==
  ASSUME WaitCounts, wait' = wait, Unreleased' = Unreleased
  PROVE  WaitCounts'
BY DEF WaitCounts

LEMMA UnreleasedGrows ==
  ASSUME NEW t \in Task, WaitCounts, wait' = wait + 1,
         t \notin Unreleased, Unreleased' = Unreleased \cup {t}
  PROVE  WaitCounts'
<1>1. Cardinality(Unreleased \cup {t}) = Cardinality(Unreleased) + 1
  BY UnreleasedFinite, FS_AddElement
<1> QED
  BY <1>1 DEF WaitCounts

LEMMA UnreleasedShrinks ==
  ASSUME NEW t \in Task, WaitCounts, wait' = wait - 1,
         t \in Unreleased, Unreleased' = Unreleased \ {t}
  PROVE  WaitCounts'
<1>1. Cardinality(Unreleased \ {t}) = Cardinality(Unreleased) - 1
  BY UnreleasedFinite, FS_RemoveElement
<1> QED
  BY <1>1 DEF WaitCounts

(* While a task is unreleased the counter is positive, so Done never takes it
   below zero; at zero nothing is unreleased. *)
LEMMA CounterPositive ==
  ASSUME NEW t \in Unreleased, WaitCounts
  PROVE  wait \in Nat /\ wait > 0
<1>1. Unreleased # {}
  OBVIOUS
<1>2. Cardinality(Unreleased) \in Nat /\ Cardinality(Unreleased) # 0
  BY <1>1, UnreleasedFinite, FS_CardinalityType, FS_EmptySet
<1> QED
  BY <1>2 DEF WaitCounts

LEMMA CounterZero ==
  ASSUME WaitCounts, wait = 0
  PROVE  Unreleased = {}
BY UnreleasedFinite, FS_EmptySet DEF WaitCounts

-----------------------------------------------------------------------------
LEMMA InitIInv == Init => IInv
<1> SUFFICES ASSUME Init PROVE IInv
  OBVIOUS
<1> USE DEF Init
<1>1. TypeOK
  BY DEF TypeOK, TaskPc, Result, StopPc, Outcome, Waiter
<1>2. Unreleased = {} /\ Executing = {}
  BY DEF Unreleased, Executing
<1>3. WaitCounts
  BY <1>2, FS_EmptySet DEF WaitCounts
<1>4. RunningIsRegistered /\ CanceledWereAccepted /\ StopProgress
  BY DEF RunningIsRegistered, CanceledWereAccepted, StopProgress
<1>5. NoUncancelledSurvivor /\ NoCancelBeforeTimeout /\ Reports
  BY DEF NoUncancelledSurvivor, NoCancelBeforeTimeout, Reports, ReportMatchesContext
<1> QED
  BY <1>1, <1>3, <1>4, <1>5 DEF IInv

(* A task is accepted under the lock, while no Stop has begun: every waiter is
   still "none" and no Stop is over. *)
LEMMA GoAcceptIInv ==
  ASSUME NEW c, NEW t \in Task, IInv, GoAccept(c, t)
  PROVE  IInv'
<1> USE DEF IInv, GoAccept, groupVars, taskVars, stopVars
<1>1. TypeOK'
  BY DEF TypeOK, TaskPc
<1>2. t \notin Unreleased /\ Unreleased' = Unreleased \cup {t}
  BY DEF Unreleased, TypeOK, TaskPc
<1>3. WaitCounts'
  BY <1>2, UnreleasedGrows
<1>4. RunningIsRegistered' /\ CanceledWereAccepted'
  BY DEF RunningIsRegistered, CanceledWereAccepted, TypeOK, TaskPc
<1>5. \A s \in Stopper : stopPc[s] = "idle" /\ waiter[s] = "none"
  BY DEF StopProgress, TypeOK, Waiter
<1>6. StopProgress' /\ NoUncancelledSurvivor'
  BY <1>5 DEF StopProgress, NoUncancelledSurvivor
<1>7. NoCancelBeforeTimeout' /\ Reports'
  BY DEF NoCancelBeforeTimeout, Reports, ReportMatchesContext, TypeOK, TaskPc
<1> QED
  BY <1>1, <1>3, <1>4, <1>6, <1>7

(* A step that leaves the group's state and the calls of Stop alone, and keeps
   every goroutine on its side of registration and release, keeps IInv if it
   keeps the types and the reports. *)
LEMMA LocalStep ==
  ASSUME IInv, TypeOK', UNCHANGED <<groupVars, stopVars>>,
         Unreleased' = Unreleased, Executing' \subseteq Executing,
         RunningIsRegistered', CanceledWereAccepted', Reports'
  PROVE  IInv'
<1> USE DEF IInv, groupVars, stopVars
<1>1. WaitCounts'
  BY UnreleasedSame
<1>2. StopProgress'
  BY DEF StopProgress
<1>3. NoUncancelledSurvivor' /\ NoCancelBeforeTimeout'
  BY DEF NoUncancelledSurvivor, NoCancelBeforeTimeout
<1> QED
  BY <1>1, <1>2, <1>3

LEMMA GoRejectIInv ==
  ASSUME NEW c, NEW t \in Task, IInv, GoReject(c, t)
  PROVE  IInv'
<1> USE DEF IInv, GoReject, groupVars, taskVars, stopVars, CanCall
<1>1. TypeOK'
  BY DEF TypeOK, TaskPc, Result
<1>2. c # t
  BY TaskGroupAssumption DEF TypeOK, TaskPc
<1>3. Unreleased' = Unreleased /\ Executing' \subseteq Executing
  BY <1>2, TaskGroupAssumption DEF Unreleased, Executing, TypeOK
<1>4. RunningIsRegistered'
  BY <1>2, TaskGroupAssumption DEF RunningIsRegistered, TypeOK
<1>5. CanceledWereAccepted' /\ Reports'
  BY <1>2, TaskGroupAssumption
  DEF CanceledWereAccepted, Reports, ReportMatchesContext, TypeOK, TaskPc
<1> QED
  BY <1>1, <1>3, <1>4, <1>5, LocalStep

LEMMA StartIInv ==
  ASSUME NEW t \in Task, IInv, Start(t)
  PROVE  IInv'
<1> USE DEF IInv, Start, groupVars, taskVars, stopVars
<1>1. TypeOK'
  BY DEF TypeOK, TaskPc
<1>2. Unreleased' = Unreleased /\ Executing' \subseteq Executing
  BY DEF Unreleased, Executing, TypeOK
<1>3. RunningIsRegistered' /\ CanceledWereAccepted' /\ Reports'
  BY DEF RunningIsRegistered, CanceledWereAccepted, Reports, ReportMatchesContext, TypeOK
<1> QED
  BY <1>1, <1>2, <1>3, LocalStep

LEMMA ReturnIInv ==
  ASSUME NEW t \in Task, IInv, Return(t)
  PROVE  IInv'
<1> USE DEF IInv, Return, groupVars, taskVars, stopVars
<1>1. TypeOK'
  BY DEF TypeOK, TaskPc
<1>2. Unreleased' = Unreleased /\ Executing' \subseteq Executing
  BY DEF Unreleased, Executing, TypeOK
<1>3. RunningIsRegistered' /\ CanceledWereAccepted' /\ Reports'
  BY DEF RunningIsRegistered, CanceledWereAccepted, Reports, ReportMatchesContext, TypeOK
<1> QED
  BY <1>1, <1>2, <1>3, LocalStep

LEMMA PanicRunIInv ==
  ASSUME NEW t \in Task, IInv, PanicRun(t)
  PROVE  IInv'
<1> USE DEF IInv, PanicRun, groupVars, taskVars, stopVars
<1>1. TypeOK'
  BY DEF TypeOK, TaskPc, Result
<1>2. Unreleased' = Unreleased /\ Executing' \subseteq Executing
  BY DEF Unreleased, Executing, TypeOK
<1>3. RunningIsRegistered' /\ CanceledWereAccepted' /\ Reports'
  BY DEF RunningIsRegistered, CanceledWereAccepted, Reports, ReportMatchesContext, TypeOK
<1> QED
  BY <1>1, <1>2, <1>3, LocalStep

LEMMA PanicHandledIInv ==
  ASSUME NEW t \in Task, IInv, PanicHandled(t)
  PROVE  IInv'
<1> USE DEF IInv, PanicHandled, groupVars, taskVars, stopVars
<1>1. TypeOK'
  BY DEF TypeOK, TaskPc
<1>2. Unreleased' = Unreleased /\ Executing' \subseteq Executing
  BY DEF Unreleased, Executing, TypeOK
<1>3. RunningIsRegistered' /\ CanceledWereAccepted' /\ Reports'
  BY DEF RunningIsRegistered, CanceledWereAccepted, Reports, ReportMatchesContext, TypeOK
<1> QED
  BY <1>1, <1>2, <1>3, LocalStep

LEMMA CrashIInv ==
  ASSUME NEW t \in Task, IInv, Crash(t)
  PROVE  IInv'
<1> USE DEF IInv, Crash, groupVars, taskVars, stopVars
<1>1. TypeOK'
  BY DEF TypeOK
<1>2. Unreleased' = Unreleased /\ Executing' \subseteq Executing
  BY DEF Unreleased, Executing
<1>3. RunningIsRegistered' /\ CanceledWereAccepted' /\ Reports'
  BY DEF RunningIsRegistered, CanceledWereAccepted, Reports, ReportMatchesContext
<1> QED
  BY <1>1, <1>2, <1>3, LocalStep

(* finish.  The delete moves the task out of running; the read of ctx.Err
   comes after it, so the context it classifies can no longer change. *)
LEMMA FinishRemoveIInv ==
  ASSUME NEW t \in Task, IInv, FinishRemove(t)
  PROVE  IInv'
<1> USE DEF IInv, FinishRemove, groupVars, taskVars, stopVars
<1>1. TypeOK'
  BY DEF TypeOK, TaskPc
<1>2. Unreleased' = Unreleased /\ Executing' = Executing
  BY DEF Unreleased, Executing, TypeOK
<1>3. WaitCounts'
  BY <1>2, UnreleasedSame
<1>4. RunningIsRegistered' /\ CanceledWereAccepted' /\ Reports'
  BY DEF RunningIsRegistered, CanceledWereAccepted, Reports, ReportMatchesContext, TypeOK
<1>5. StopProgress' /\ NoUncancelledSurvivor' /\ NoCancelBeforeTimeout'
  BY <1>2 DEF StopProgress, NoUncancelledSurvivor, NoCancelBeforeTimeout
<1> QED
  BY <1>1, <1>3, <1>4, <1>5

LEMMA FinishClassifyIInv ==
  ASSUME NEW t \in Task, IInv, FinishClassify(t)
  PROVE  IInv'
<1> USE DEF IInv, FinishClassify, groupVars, taskVars, stopVars
<1>1. TypeOK'
  BY DEF TypeOK, TaskPc, Result
<1>2. Unreleased' = Unreleased /\ Executing' \subseteq Executing
  BY DEF Unreleased, Executing, TypeOK
<1>3. RunningIsRegistered' /\ CanceledWereAccepted'
  BY DEF RunningIsRegistered, CanceledWereAccepted, TypeOK
<1>4. result[t] # "canceled"
  BY DEF TypeOK, TaskPc, Reports
<1>5. Reports'
  BY <1>4 DEF Reports, ReportMatchesContext, TypeOK
<1> QED
  BY <1>1, <1>2, <1>3, <1>5, LocalStep

(* Done is the only step that can bring the counter to zero: the task it
   releases is the last, or the set stays non-empty. *)
LEMMA FinishReleaseIInv ==
  ASSUME NEW t \in Task, IInv, FinishRelease(t)
  PROVE  IInv'
<1> USE DEF IInv, FinishRelease, groupVars, taskVars, stopVars
<1>1. t \in Unreleased /\ Unreleased' = Unreleased \ {t} /\ Executing' = Executing
  BY DEF Unreleased, Executing, TypeOK
<1>2. wait - 1 \in Nat
  BY <1>1, CounterPositive
<1>3. TypeOK'
  BY <1>2 DEF TypeOK, TaskPc
<1>4. WaitCounts'
  BY <1>1, UnreleasedShrinks
<1>5. RunningIsRegistered' /\ CanceledWereAccepted' /\ Reports'
  BY DEF RunningIsRegistered, CanceledWereAccepted, Reports, ReportMatchesContext, TypeOK
<1>6. StopProgress' /\ NoUncancelledSurvivor' /\ NoCancelBeforeTimeout'
  BY <1>1 DEF StopProgress, NoUncancelledSurvivor, NoCancelBeforeTimeout
<1> QED
  BY <1>3, <1>4, <1>5, <1>6

-----------------------------------------------------------------------------
(* Steps of a call of Stop before its last critical section touch no task. *)
LEMMA StopLocalStep ==
  ASSUME IInv, TypeOK', UNCHANGED <<running, wait, canceled, taskVars>>,
         StopProgress', NoCancelBeforeTimeout',
         \A s \in Stopper : stopPc'[s] = "over" => stopPc[s] = "over"
  PROVE  IInv'
<1> USE DEF IInv, taskVars
<1>1. Unreleased' = Unreleased /\ Executing' = Executing
  BY DEF Unreleased, Executing
<1>2. WaitCounts'
  BY <1>1, UnreleasedSame
<1>3. RunningIsRegistered' /\ CanceledWereAccepted' /\ Reports'
  BY DEF RunningIsRegistered, CanceledWereAccepted, Reports, ReportMatchesContext
<1>4. NoUncancelledSurvivor'
  BY <1>1 DEF NoUncancelledSurvivor
<1> QED
  BY <1>2, <1>3, <1>4

LEMMA StopEarlyIInv ==
  ASSUME NEW s \in Stopper, IInv,
         \/ StopBegin(s) \/ StopImmediate(s) \/ StopWait(s) \/ WaiterClose(s)
         \/ StopDrained(s) \/ StopTimeout(s)
  PROVE  IInv'
<1> USE DEF IInv, groupVars, taskVars, stopVars
<1>0. Unreleased' = Unreleased
  BY DEF StopBegin, StopImmediate, StopWait, WaiterClose, StopDrained, StopTimeout,
         Unreleased
<1>1. CASE StopBegin(s)
  <2>1. TypeOK' /\ StopProgress' /\ NoCancelBeforeTimeout'
    BY <1>0, <1>1 DEF StopBegin, TypeOK, StopPc, StopProgress, NoCancelBeforeTimeout
  <2>2. \A r \in Stopper : stopPc'[r] = "over" => stopPc[r] = "over"
    BY <1>1 DEF StopBegin, TypeOK
  <2> QED
    BY <1>1, <2>1, <2>2, StopLocalStep DEF StopBegin
<1>2. CASE StopImmediate(s)
  <2>1. TypeOK' /\ StopProgress' /\ NoCancelBeforeTimeout'
    BY <1>0, <1>2 DEF StopImmediate, TypeOK, StopPc, Outcome, StopProgress,
                      NoCancelBeforeTimeout
  <2>2. \A r \in Stopper : stopPc'[r] = "over" => stopPc[r] = "over"
    BY <1>2 DEF StopImmediate, TypeOK
  <2> QED
    BY <1>2, <2>1, <2>2, StopLocalStep DEF StopImmediate
<1>3. CASE StopWait(s)
  <2>1. TypeOK' /\ StopProgress' /\ NoCancelBeforeTimeout'
    BY <1>0, <1>3 DEF StopWait, TypeOK, StopPc, Waiter, Outcome, StopProgress,
                      NoCancelBeforeTimeout
  <2>2. \A r \in Stopper : stopPc'[r] = "over" => stopPc[r] = "over"
    BY <1>3 DEF StopWait, TypeOK
  <2> QED
    BY <1>3, <2>1, <2>2, StopLocalStep DEF StopWait
<1>4. CASE WaiterClose(s)
  <2>1. Unreleased = {}
    BY <1>4, CounterZero DEF WaiterClose
  <2>2. TypeOK' /\ StopProgress' /\ NoCancelBeforeTimeout'
    BY <1>0, <1>4, <2>1 DEF WaiterClose, TypeOK, Waiter, StopProgress,
                            NoCancelBeforeTimeout
  <2>3. \A r \in Stopper : stopPc'[r] = "over" => stopPc[r] = "over"
    BY <1>4 DEF WaiterClose
  <2> QED
    BY <1>4, <2>2, <2>3, StopLocalStep DEF WaiterClose
<1>5. CASE StopDrained(s)
  <2>1. TypeOK' /\ StopProgress' /\ NoCancelBeforeTimeout'
    BY <1>0, <1>5 DEF StopDrained, TypeOK, StopPc, Outcome, StopProgress,
                      NoCancelBeforeTimeout
  <2>2. \A r \in Stopper : stopPc'[r] = "over" => stopPc[r] = "over"
    BY <1>5 DEF StopDrained, TypeOK
  <2> QED
    BY <1>5, <2>1, <2>2, StopLocalStep DEF StopDrained
<1>6. CASE StopTimeout(s)
  <2>1. TypeOK' /\ StopProgress' /\ NoCancelBeforeTimeout'
    BY <1>0, <1>6 DEF StopTimeout, TypeOK, StopPc, Outcome, StopProgress,
                      NoCancelBeforeTimeout
  <2>2. \A r \in Stopper : stopPc'[r] = "over" => stopPc[r] = "over"
    BY <1>6 DEF StopTimeout, TypeOK
  <2> QED
    BY <1>6, <2>1, <2>2, StopLocalStep DEF StopTimeout
<1> QED
  BY <1>1, <1>2, <1>3, <1>4, <1>5, <1>6

(* cancelRunning reaches every task whose user code may still run, because
   running is exactly the registered ones; on the drained branch there is none. *)
LEMMA StopCancelIInv ==
  ASSUME NEW s \in Stopper, IInv, StopCancel(s)
  PROVE  IInv'
<1> USE DEF IInv, StopCancel, taskVars
<1>1. TypeOK'
  BY DEF TypeOK, StopPc
<1>2. Unreleased' = Unreleased /\ Executing' = Executing
  BY DEF Unreleased, Executing
<1>3. WaitCounts'
  BY <1>2, UnreleasedSame
<1>4. RunningIsRegistered' /\ CanceledWereAccepted' /\ Reports'
  BY DEF RunningIsRegistered, CanceledWereAccepted, Reports, ReportMatchesContext, TypeOK
<1>5. StopProgress'
  BY <1>2 DEF StopProgress, TypeOK
<1>6. Executing \subseteq running
  BY DEF Executing, RunningIsRegistered
<1>7. NoUncancelledSurvivor'
  BY <1>2, <1>6 DEF NoUncancelledSurvivor, TypeOK
<1>8. outcome[s] = "drained" => running = {}
  BY DEF StopProgress, RunningIsRegistered, Unreleased
<1>9. NoCancelBeforeTimeout'
  <2> SUFFICES ASSUME \A r \in Stopper : outcome[r] \in {"none", "drained"}
               PROVE  canceled' = {}
    BY DEF NoCancelBeforeTimeout
  <2>1. canceled = {}
    BY DEF NoCancelBeforeTimeout
  <2>2. outcome[s] = "drained"
    BY DEF StopProgress
  <2> QED
    BY <1>8, <2>1, <2>2
<1> QED
  BY <1>1, <1>3, <1>4, <1>5, <1>7, <1>9

-----------------------------------------------------------------------------
LEMMA NextIInv == IInv /\ [Next]_vars => IInv'
<1> SUFFICES ASSUME IInv, [Next]_vars PROVE IInv'
  OBVIOUS
<1>1. ASSUME NEW t \in Task, GoStep(t) PROVE IInv'
  BY <1>1, GoAcceptIInv, GoRejectIInv DEF GoStep
<1>2. ASSUME NEW t \in Task, TaskStep(t) PROVE IInv'
  BY <1>2, StartIInv, ReturnIInv, PanicRunIInv, PanicHandledIInv, CrashIInv,
     FinishRemoveIInv, FinishClassifyIInv, FinishReleaseIInv DEF TaskStep, Finish
<1>3. ASSUME NEW s \in Stopper, StopStep(s) PROVE IInv'
  BY <1>3, StopEarlyIInv, StopCancelIInv DEF StopStep
<1>4. CASE UNCHANGED vars
  <2> USE <1>4 DEF vars, groupVars, taskVars, stopVars, IInv
  <2>1. TypeOK' /\ Unreleased' = Unreleased /\ Executing' \subseteq Executing
    BY DEF TypeOK, Unreleased, Executing
  <2>2. RunningIsRegistered' /\ CanceledWereAccepted' /\ Reports'
    BY DEF RunningIsRegistered, CanceledWereAccepted, Reports, ReportMatchesContext
  <2> QED
    BY <2>1, <2>2, LocalStep
<1> QED
  BY <1>1, <1>2, <1>3, <1>4 DEF Next

(* The inductive invariant holds in every reachable state of every instance. *)
THEOREM GroupInvariant == Spec => []IInv
<1>1. Init => IInv
  BY InitIInv
<1>2. IInv /\ [Next]_vars => IInv'
  BY NextIInv
<1> QED
  BY <1>1, <1>2, PTL DEF Spec

(* Every variable of the group has its type, for any number of tasks. *)
THEOREM TypeCorrect == Spec => []TypeOK
<1>1. IInv => TypeOK
  BY DEF IInv
<1> QED
  BY <1>1, GroupInvariant, PTL

(* The wait of Stop misses no accepted task, whatever the number of tasks and
   of overlapping Stops. *)
THEOREM DrainedIsFinished == Spec => []DrainedMeansFinished
<1>1. IInv => DrainedMeansFinished
  BY DEF IInv, StopProgress, DrainedMeansFinished
<1> QED
  BY <1>1, GroupInvariant, PTL

(* No task outlives a Stop with a context nobody cancelled. *)
THEOREM NoSurvivor == Spec => []NoUncancelledSurvivor
<1>1. IInv => NoUncancelledSurvivor
  BY DEF IInv
<1> QED
  BY <1>1, GroupInvariant, PTL

(* A waiting Stop cancels nobody before its timer fired. *)
THEOREM TimeoutBeforeCancel == Spec => []NoCancelBeforeTimeout
<1>1. IInv => NoCancelBeforeTimeout
  BY DEF IInv
<1> QED
  BY <1>1, GroupInvariant, PTL

(* A finished task's report agrees with its context for good. *)
THEOREM ReportIsTrue == Spec => []ReportMatchesContext
<1>1. IInv => ReportMatchesContext
  BY DEF IInv, Reports
<1> QED
  BY <1>1, GroupInvariant, PTL

-----------------------------------------------------------------------------
(* Panics: a goroutine unwinds only out of a faulty callback, and past finish. *)
Unwinds ==
  /\ \A t \in unwinding :
       t \in FaultyHandler /\ taskPc[t] \in {"returned", "removed", "classified", "done"}
  /\ PanicContained

LEMMA NextUnwinds == IInv /\ Unwinds /\ [Next]_vars => Unwinds'
<1> SUFFICES ASSUME IInv, Unwinds, [Next]_vars PROVE Unwinds'
  OBVIOUS
<1> USE DEF Unwinds, PanicContained, groupVars, taskVars, stopVars
<1>0. TypeOK
  BY DEF IInv
<1>1. ASSUME NEW c \in Task \cup {Outside}, NEW t \in Task, GoAccept(c, t) PROVE Unwinds'
  BY <1>0, <1>1 DEF GoAccept, TypeOK
<1>2. ASSUME NEW c \in Task \cup {Outside}, NEW t \in Task, GoReject(c, t) PROVE Unwinds'
  BY <1>0, <1>2, TaskGroupAssumption DEF GoReject, CanCall, TypeOK
<1>3. ASSUME NEW t \in Task, Start(t) \/ Return(t) \/ PanicRun(t) PROVE Unwinds'
  BY <1>0, <1>3 DEF Start, Return, PanicRun, TypeOK
<1>4. ASSUME NEW t \in Task, PanicHandled(t) PROVE Unwinds'
  BY <1>0, <1>4 DEF PanicHandled, TypeOK
<1>5. ASSUME NEW t \in Task, Finish(t) PROVE Unwinds'
  BY <1>0, <1>5 DEF Finish, FinishRemove, FinishClassify, FinishRelease, TypeOK
<1>6. ASSUME NEW t \in Task, Crash(t) PROVE Unwinds'
  BY <1>0, <1>6 DEF Crash, TypeOK
<1>7. ASSUME NEW s \in Stopper, StopStep(s) PROVE Unwinds'
  BY <1>7 DEF StopStep, StopBegin, StopImmediate, StopWait, WaiterClose, StopDrained,
              StopTimeout, StopCancel
<1>8. CASE UNCHANGED vars
  BY <1>8 DEF vars
<1> QED
  BY <1>1, <1>2, <1>3, <1>4, <1>5, <1>6, <1>7, <1>8 DEF Next, GoStep, TaskStep

(* The recover in each goroutine: only a panic of a panic callback ends the
   process, and finish has run before it does. *)
THEOREM PanicsStayInside == Spec => []PanicContained
<1>1. Init => Unwinds
  BY DEF Init, Unwinds, PanicContained
<1>2. Unwinds => PanicContained
  BY DEF Unwinds
<1> QED
  BY <1>1, <1>2, NextUnwinds, GroupInvariant, PTL DEF Spec

-----------------------------------------------------------------------------
(* The contract of sync.WaitGroup: the lock in Go and Stop keeps Add out of Wait,
   because a waiter starts after stoped was set. *)
THEOREM AddBeforeWait == Spec => NoAddDuringWait
<1>1. ASSUME IInv, Next, NEW s \in Stopper, waiter[s] # "none"
      PROVE  wait' <= wait
  <2>1. stoped /\ wait \in Nat
    BY <1>1 DEF IInv, StopProgress, TypeOK
  <2>2. wait' = wait \/ wait' = wait - 1
    BY <1>1, <2>1 DEF Next, GoStep, TaskStep, StopStep, GoAccept, GoReject, Start, Return,
      PanicRun, PanicHandled, Finish, FinishRemove, FinishClassify, FinishRelease, Crash,
      StopBegin, StopImmediate, StopWait, WaiterClose, StopDrained, StopTimeout, StopCancel,
      groupVars
  <2> QED
    BY <2>1, <2>2
<1>2. ASSUME IInv, UNCHANGED vars PROVE wait' <= wait
  BY <1>2 DEF vars, groupVars, IInv, TypeOK
<1>3. IInv /\ [Next]_vars => [(\E s \in Stopper : waiter[s] # "none") => wait' <= wait]_vars
  BY <1>1, <1>2
<1> QED
  BY <1>3, GroupInvariant, PTL DEF Spec, NoAddDuringWait

-----------------------------------------------------------------------------
(* Every step of the group is a step of TaskLifecycle or changes nothing there. *)

Phases   == [t \in Task |-> PhaseOf(taskPc[t])]
Returned == [s \in Stopper |-> ReportOf(s)]

AbstractStep == [Lifecycle!AbstractNext]_(Lifecycle!abstractVars)

LEMMA StutterStep ==
  ASSUME stoped' = stoped, canceled' = canceled, Phases' = Phases, Returned' = Returned
  PROVE  AbstractStep
BY DEF AbstractStep, Lifecycle!abstractVars, Phases, Returned

(* A goroutine moves to pc: so does its phase, and no other. *)
LEMMA PhaseMoves ==
  ASSUME TypeOK, NEW t \in Task, NEW p, taskPc' = [taskPc EXCEPT ![t] = p]
  PROVE  Phases' = [Phases EXCEPT ![t] = PhaseOf(p)]
BY DEF Phases, TypeOK

LEMMA ReturnedSame ==
  ASSUME UNCHANGED <<stopPc, outcome>>
  PROVE  Returned' = Returned
BY DEF Returned, ReportOf

LEMMA PhasesSame ==
  ASSUME UNCHANGED taskPc
  PROVE  Phases' = Phases
BY DEF Phases

LEMMA AcceptStep ==
  ASSUME IInv, NEW c, NEW t \in Task, GoAccept(c, t)
  PROVE  AbstractStep
<1>1. Phases' = [Phases EXCEPT ![t] = "active"]
  BY PhaseMoves DEF GoAccept, IInv, PhaseOf
<1>2. Phases[t] = "absent" /\ Returned' = Returned
  BY ReturnedSame DEF GoAccept, stopVars, Phases, PhaseOf
<1>3. Lifecycle!Accept(t)
  BY <1>1, <1>2 DEF Lifecycle!Accept, GoAccept, Phases, Returned
<1> QED
  BY <1>3 DEF AbstractStep, Lifecycle!AbstractNext

(* The caller that is refused unwinds: it was executing and still is. *)
LEMMA RefuseStep ==
  ASSUME IInv, NEW c \in Task \cup {Outside}, NEW t \in Task, GoReject(c, t)
  PROVE  AbstractStep
<1>1. taskPc[t] = "new" /\ (c \in Task => taskPc[c] = "running")
  BY TaskGroupAssumption DEF GoReject, CanCall
<1>a. PhaseOf("running") = "active" /\ PhaseOf("panicked") = "active" /\ PhaseOf("rejected") = "refused"
  BY DEF PhaseOf
<1>b. taskPc' = [u \in Task |-> IF u = t THEN "rejected"
                               ELSE IF u = c THEN "panicked" ELSE taskPc[u]]
  BY DEF GoReject
<1>c. \A u \in Task : PhaseOf(taskPc'[u]) = IF u = t THEN "refused" ELSE PhaseOf(taskPc[u])
  BY <1>1, <1>a, <1>b
<1>2. Phases' = [Phases EXCEPT ![t] = "refused"]
  BY <1>c DEF Phases
<1>3. Phases[t] = "absent" /\ Returned' = Returned
  BY <1>1, ReturnedSame DEF GoReject, stopVars, Phases, PhaseOf
<1>4. Lifecycle!Refuse(t)
  BY <1>2, <1>3 DEF Lifecycle!Refuse, GoReject, groupVars, Phases, Returned
<1> QED
  BY <1>4 DEF AbstractStep, Lifecycle!AbstractNext

LEMMA TaskStepIsAbstract ==
  ASSUME IInv, NEW t \in Task, TaskStep(t)
  PROVE  AbstractStep
<1>0. TypeOK /\ stoped' = stoped /\ canceled' = canceled /\ Returned' = Returned
  BY ReturnedSame DEF IInv, TaskStep, Start, Return, PanicRun, PanicHandled, Finish, FinishRemove,
     FinishClassify, FinishRelease, Crash, groupVars, stopVars
<1>1. CASE Return(t) \/ PanicHandled(t)
  <2>1. Phases[t] = "active" /\ Phases' = [Phases EXCEPT ![t] = "leaving"]
    BY <1>0, <1>1, PhaseMoves DEF Return, PanicHandled, PhaseOf, Phases
  <2>2. Lifecycle!Leave(t)
    BY <1>0, <2>1 DEF Lifecycle!Leave, Phases, Returned
  <2> QED
    BY <2>2 DEF AbstractStep, Lifecycle!AbstractNext
<1>2. CASE FinishRelease(t)
  <2>1. Phases[t] = "leaving" /\ Phases' = [Phases EXCEPT ![t] = "ended"]
    BY <1>0, <1>2, PhaseMoves DEF FinishRelease, PhaseOf, Phases
  <2>2. Lifecycle!End(t)
    BY <1>0, <2>1 DEF Lifecycle!End, Phases, Returned
  <2> QED
    BY <2>2 DEF AbstractStep, Lifecycle!AbstractNext
<1>3. CASE Start(t) \/ PanicRun(t) \/ FinishRemove(t) \/ FinishClassify(t) \/ Crash(t)
  <2>a. /\ \A p \in {"spawned", "running", "panicked"} : PhaseOf(p) = "active"
        /\ \A p \in {"returned", "removed", "classified"} : PhaseOf(p) = "leaving"
    BY DEF PhaseOf
  <2>b. ASSUME NEW u \in Task
        PROVE  \/ taskPc'[u] = taskPc[u]
               \/ {taskPc[u], taskPc'[u]} \subseteq {"spawned", "running", "panicked"}
               \/ {taskPc[u], taskPc'[u]} \subseteq {"returned", "removed", "classified"}
    BY <1>0, <1>3 DEF Start, PanicRun, FinishRemove, FinishClassify, Crash, TypeOK
  <2>1. Phases' = Phases
    <3>1. \A u \in Task : PhaseOf(taskPc'[u]) = PhaseOf(taskPc[u])
      BY <2>a, <2>b
    <3> QED
      BY <3>1 DEF Phases
  <2> QED
    BY <1>0, <2>1, StutterStep
<1> QED
  BY <1>1, <1>2, <1>3 DEF TaskStep, Finish

(* StopBegin closes the gate, StopCancel is the return; what is between does not
   show. *)
LEMMA StopStepIsAbstract ==
  ASSUME IInv, NEW s \in Stopper, StopStep(s)
  PROVE  AbstractStep
<1>0. TypeOK /\ Phases' = Phases
  BY PhasesSame DEF IInv, StopStep, StopBegin, StopImmediate, StopWait, WaiterClose, StopDrained,
     StopTimeout, StopCancel, taskVars
<1>1. CASE StopBegin(s)
  <2>1. Returned' = Returned /\ canceled' = canceled /\ stoped' = TRUE /\ stoped \in BOOLEAN
    BY <1>0, <1>1 DEF StopBegin, Returned, ReportOf, TypeOK
  <2>2. CASE stoped
    BY <1>0, <2>1, <2>2, StutterStep
  <2>3. CASE ~stoped
    <3>1. Lifecycle!Close
      BY <1>0, <2>1, <2>3 DEF Lifecycle!Close, Phases, Returned
    <3> QED
      BY <3>1 DEF AbstractStep, Lifecycle!AbstractNext
  <2> QED
    BY <2>2, <2>3
<1>2. CASE \/ StopImmediate(s) \/ StopWait(s) \/ WaiterClose(s)
          \/ StopDrained(s) \/ StopTimeout(s)
  <2>1. stoped' = stoped /\ canceled' = canceled
    BY <1>2 DEF StopImmediate, StopWait, WaiterClose, StopDrained, StopTimeout, groupVars
  <2>2. Returned' = Returned
    BY <1>0, <1>2 DEF StopImmediate, StopWait, WaiterClose, StopDrained, StopTimeout, Returned,
                      ReportOf, TypeOK
  <2> QED
    BY <1>0, <2>1, <2>2, StutterStep
<1>3. CASE StopCancel(s)
  <2>1. stoped /\ stoped' = stoped /\ Returned[s] = "pending"
    BY <1>3 DEF StopCancel, IInv, StopProgress, Returned, ReportOf
  <2>2. Returned' = [Returned EXCEPT ![s] = IF outcome[s] = "drained" THEN "drained"
                                            ELSE "cancelled"]
    BY <1>0, <1>3 DEF StopCancel, Returned, ReportOf, TypeOK
  <2> DEFINE Active == {t \in Task : Phases[t] = "active"}
             Leaving == {t \in Task : Phases[t] = "leaving"}
  <2>3. /\ Active = Executing
        /\ Leaving = {t \in Task : taskPc[t] \in {"returned", "removed", "classified"}}
    BY <1>0 DEF Phases, PhaseOf, Executing, TypeOK, TaskPc
  <2>4. canceled' = canceled \cup running
    BY <1>3 DEF StopCancel
  <2>5. CASE outcome[s] = "drained"
    <3>1. Unreleased = {}
      BY <2>5 DEF IInv, StopProgress
    <3>2. Active \cup Leaving = {} /\ running = {}
      BY <2>3, <3>1 DEF Executing, Unreleased, IInv, RunningIsRegistered
    <3>3. Lifecycle!ReturnDrained(s)
      BY <1>0, <2>1, <2>2, <2>4, <2>5, <3>2
      DEF Lifecycle!ReturnDrained, Lifecycle!InPhase, Phases, Returned
    <3> QED
      BY <3>3 DEF AbstractStep, Lifecycle!AbstractNext
  <2>6. CASE outcome[s] # "drained"
    <3> DEFINE C == {t \in Task : taskPc[t] = "returned"}
    <3>1. C \in SUBSET Leaving /\ running = Active \cup C
      BY <2>3 DEF Executing, IInv, RunningIsRegistered
    <3>2. canceled' = canceled \cup Active \cup C
      BY <2>4, <3>1
    <3>3. Lifecycle!ReturnCancelled(s)
      <4> HIDE DEF C
      <4> QED
        BY <1>0, <2>1, <2>2, <2>6, <3>1, <3>2
        DEF Lifecycle!ReturnCancelled, Lifecycle!InPhase, Phases, Returned
    <3> QED
      BY <3>3 DEF AbstractStep, Lifecycle!AbstractNext
  <2> QED
    BY <2>5, <2>6
<1> QED
  BY <1>1, <1>2, <1>3 DEF StopStep

(* The lock, the map, the counter and the waiters implement a gate that closes once
   and Stops that return in one of two ways. *)
THEOREM GroupIsLifecycle == Spec => ImplementsLifecycle
<1>1. Init => Lifecycle!AbstractInit
  BY DEF Init, Lifecycle!AbstractInit, PhaseOf, ReportOf
<1>2. IInv /\ [Next]_vars => [Lifecycle!AbstractNext]_(Lifecycle!abstractVars)
  <2> SUFFICES ASSUME IInv, [Next]_vars PROVE AbstractStep
    BY DEF AbstractStep
  <2>1. CASE Next
    BY <2>1, AcceptStep, RefuseStep, TaskStepIsAbstract, StopStepIsAbstract DEF Next, GoStep
  <2>2. CASE UNCHANGED vars
    <3>1. UNCHANGED <<stopPc, outcome>> /\ UNCHANGED taskPc /\ stoped' = stoped
          /\ canceled' = canceled
      BY <2>2 DEF vars, groupVars, taskVars, stopVars
    <3> QED
      BY <3>1, ReturnedSame, PhasesSame, StutterStep
  <2> QED
    BY <2>1, <2>2
<1> QED
  BY <1>1, <1>2, GroupInvariant, PTL DEF Spec, ImplementsLifecycle, Lifecycle!LifecycleSpec

-----------------------------------------------------------------------------
(* The process around it.                                                  *)

(* Where main is when the group exists, and how far its Stop is. *)
Order ==
  /\ group <=> mainPc \notin {"config", "init", "return", "gone"}
  /\ mainPc \in {"config", "init"} => ~handler /\ \A t \in Task : taskPc[t] = "new"
  /\ mainPc \notin {"stop", "reset", "return", "gone"} => stopPc[Main] = "idle"
  /\ mainPc = "stop" => stopPc[Main] # "over"
  /\ mainPc \in {"reset", "return"} => stopPc[Main] = "over"
  /\ mainPc = "gone" => stopPc[Main] = "over" \/ \A t \in Task : taskPc[t] = "new"
  /\ outcome[Main] # "immediate"

(* Which handlers there can be, and what they have. *)
Handlers ==
  /\ handler /\ ~overran => mainPc \in {"serve", "stopping"}
  /\ mainPc \in {"ping", "wait", "admin", "serve", "stopping"} => pool = "open"
  /\ nilMet => mainPc \in {"return", "gone"}
  /\ NilOnlyAfterGrace

(* A database that is up was found down less than an interval before it came up. *)
ReadyWindow ==
  /\ mainPc \in {"config", "init", "check", "open"} => now = 0
  /\ mainPc = "wait" => now <= timer /\ timer <= now + Interval
  /\ mainPc = "ping" /\ db = "up" /\ ~hung => upSince + Interval >= now
  /\ mainPc = "wait" /\ db = "up" /\ ~hung =>
       upSince + Interval >= timer \/ upSince + Interval >= Window
  /\ ending = "database" => mainPc \in {"flush", "stop", "reset", "return", "gone"}
  /\ RecoveryWindow

AppInv ==
  /\ IInv
  /\ AppTypeOK
  /\ Order
  /\ Handlers
  /\ ReadyWindow

-----------------------------------------------------------------------------
LEMMA MainIsAStopper == Main \in Stopper
BY AppLifecycleAssumption

LEMMA InitAppInv == AppInit => AppInv
<1> SUFFICES ASSUME AppInit PROVE AppInv
  OBVIOUS
<1> USE AppLifecycleAssumption DEF AppInit
<1>1. IInv
  BY InitIInv
<1>2. AppTypeOK
  <2>1. TypeOK
    BY <1>1 DEF IInv
  <2>2. 0 \in 0..Window /\ 0 \in 0..(Window + Interval)
    OBVIOUS
  <2> QED
    BY <2>1, <2>2 DEF AppTypeOK, MainPc, Ending
<1>3. Order
  BY MainIsAStopper DEF Order, Init
<1>4. Handlers /\ ReadyWindow
  BY DEF Handlers, ReadyWindow, NilOnlyAfterGrace, RecoveryWindow
<1> QED
  BY <1>1, <1>2, <1>3, <1>4 DEF AppInv

-----------------------------------------------------------------------------
(* Outside main's start nobody can meet nil before Stop has begun: a call that
   does is refused like one that comes too late. *)
LEMMA NilIsRefusal ==
  ASSUME AppInv, NEW c \in Task \cup {Outside}, NEW t \in Task, GoDefault(c, t)
  PROVE  GoAccept(c, t) \/ GoReject(c, t)
<1>1. CASE group
  BY <1>1 DEF GoDefault
<1>2. CASE ~group
  <2>1. NilCall(c, t) /\ mainPc # "gone" /\ (c = Outside => handler)
    BY <1>2 DEF GoDefault
  <2>2. mainPc \notin {"config", "init"}
    BY <2>1, TaskGroupAssumption DEF NilCall, CanCall, AppInv, Order
  <2>3. stopPc[Main] = "over"
    BY <1>2, <2>1, <2>2 DEF AppInv, Order
  <2>4. stoped
    BY <2>3, MainIsAStopper DEF AppInv, IInv, StopProgress
  <2> QED
    BY <2>1, <2>4 DEF NilCall, GoReject
<1> QED
  BY <1>1, <1>2

LEMMA StepsOfTheGroup ==
  ASSUME AppInv, [AppNext]_appVars
  PROVE  [Next]_vars
<1>1. CASE UNCHANGED appVars
  BY <1>1 DEF appVars
<1>2. ASSUME StartUp \/ DatabaseChanges \/ InitAdminBroken \/ Signal \/ RunFails \/ HandlerBegins \/ HandlerEnds
      PROVE  UNCHANGED vars
  BY <1>2 DEF StartUp, LoadConfig, InitGroup, Check, OpenPool, PingSucceeds, PingRefused,
     PingHangs, PingAgain, PingLater, GiveUp, InitAdmin, DatabaseChanges, InitAdminBroken, Signal, RunFails,
     HandlerBegins, HandlerEnds
<1>3. CASE ShutDown
  <2>1. CASE Drain
    BY <2>1, MainIsAStopper DEF Drain, Next, StopStep
  <2>2. CASE RunReturns \/ ClosePool \/ Flush \/ Reset \/ LeaveMain
    BY <2>2 DEF RunReturns, ClosePool, Flush, Reset, LeaveMain
  <2> QED
    BY <1>3, <2>1, <2>2 DEF ShutDown
<1>4. ASSUME NEW c \in Task \cup {Outside}, NEW t \in Task, GoDefault(c, t)
      PROVE  Next
  BY <1>4, NilIsRefusal DEF Next, GoStep
<1>5. CASE GroupRuns
  BY <1>5, MainIsAStopper DEF GroupRuns, Next, StopStep
<1> QED
  BY <1>1, <1>2, <1>3, <1>4, <1>5 DEF AppNext

LEMMA GroupKept ==
  ASSUME AppInv, [AppNext]_appVars
  PROVE  IInv'
BY StepsOfTheGroup, NextIInv DEF AppInv

-----------------------------------------------------------------------------
(* Types: the clock of the window, the flags, and the rest. *)
Clock == now \in 0..Window /\ timer \in 0..(Window + Interval) /\ upSince \in 0..Window

Flags ==
  /\ group \in BOOLEAN /\ hung \in BOOLEAN /\ handler \in BOOLEAN
  /\ overran \in BOOLEAN /\ nilMet \in BOOLEAN

Places ==
  /\ mainPc \in MainPc /\ ending \in Ending
  /\ pool \in {"none", "open", "closed"}
  /\ db \in {"up", "refusing", "silent"}

LEMMA ClockKept ==
  ASSUME Clock, [AppNext]_appVars
  PROVE  Clock'
<1> USE AppLifecycleAssumption DEF Clock, startVars
<1>1. CASE PingRefused
  BY <1>1 DEF PingRefused
<1>2. CASE PingHangs
  <2>1. now' \in now..Window /\ timer' = now' + Interval /\ upSince' = upSince
    BY <1>2 DEF PingHangs
  <2>2. \A i \in 0..Window : \A j \in i..Window :
           j \in 0..Window /\ j + Interval \in 0..(Window + Interval)
    OBVIOUS
  <2> QED
    BY <2>1, <2>2
<1>3. CASE PingLater
  <2>1. now < Window /\ now' = now + 1 /\ timer' = timer /\ upSince' = upSince
    BY <1>3 DEF PingLater
  <2> QED
    BY <2>1
<1>4. CASE DatabaseChanges
  <2>1. now' = now /\ timer' = timer /\ upSince' \in {now, upSince}
    BY <1>4 DEF DatabaseChanges
  <2> QED
    BY <2>1
<1>5. ASSUME UNCHANGED <<now, timer, upSince>> PROVE Clock'
  BY <1>5
<1>6. CASE StartUp
  <2>1. ASSUME LoadConfig \/ InitGroup \/ Check \/ OpenPool \/ PingSucceeds \/ PingAgain
               \/ GiveUp \/ InitAdmin
        PROVE  UNCHANGED <<now, timer, upSince>>
    BY <2>1 DEF LoadConfig, InitGroup, Check, OpenPool, PingSucceeds, PingAgain, GiveUp,
       InitAdmin
  <2> QED
    BY <1>1, <1>2, <1>3, <1>5, <1>6, <2>1 DEF StartUp
<1>7. ASSUME ShutDown \/ InitAdminBroken \/ Signal \/ RunFails \/ HandlerBegins
             \/ HandlerEnds \/ GroupRuns
             \/ UNCHANGED appVars
             \/ \E c \in Task \cup {Outside}, t \in Task : GoDefault(c, t)
      PROVE  UNCHANGED <<now, timer, upSince>>
  BY <1>7 DEF ShutDown, RunReturns, ClosePool, Flush, Drain, Reset, LeaveMain,
     InitAdminBroken, Signal, RunFails, HandlerBegins, HandlerEnds, GroupRuns, GoDefault, appVars
<1> QED
  BY <1>4, <1>5, <1>6, <1>7 DEF AppNext

LEMMA FlagsKept ==
  ASSUME Flags, [AppNext]_appVars
  PROVE  Flags'
<1> USE DEF Flags, startVars, serveVars
<1>1. CASE PingHangs
  <2>1. hung' = (hung \/ now' > now) /\ UNCHANGED <<group, handler, overran, nilMet>>
    BY <1>1 DEF PingHangs
  <2> QED
    BY <2>1, Zenon
<1>2. ASSUME NEW c \in Task \cup {Outside}, NEW t \in Task, GoDefault(c, t)
      PROVE  Flags'
  <2>1. handler' = (handler /\ (c = Outside => group /\ ~stoped))
    BY <1>2 DEF GoDefault
  <2>2. nilMet' = nilMet \/ nilMet' = TRUE
    BY <1>2 DEF GoDefault
  <2>3. UNCHANGED <<group, hung, overran>>
    BY <1>2 DEF GoDefault
  <2> QED
    BY <2>1, <2>2, <2>3, Zenon
<1>3. CASE StartUp
  BY <1>1, <1>3 DEF StartUp, LoadConfig, InitGroup, Check, OpenPool, PingSucceeds,
     PingRefused, PingAgain, PingLater, GiveUp, InitAdmin
<1>4. CASE ShutDown
  BY <1>4 DEF ShutDown, RunReturns, ClosePool, Flush, Drain, Reset, LeaveMain
<1>5. CASE DatabaseChanges \/ InitAdminBroken \/ Signal \/ RunFails \/ HandlerBegins \/ HandlerEnds \/ GroupRuns
  BY <1>5 DEF DatabaseChanges, InitAdminBroken, Signal, RunFails, HandlerBegins, HandlerEnds, GroupRuns
<1>6. CASE UNCHANGED appVars
  BY <1>6 DEF appVars
<1> QED
  BY <1>2, <1>3, <1>4, <1>5, <1>6 DEF AppNext

LEMMA PlacesKept ==
  ASSUME Places, [AppNext]_appVars
  PROVE  Places'
<1> USE DEF Places, MainPc, Ending, Goto, Unwind, startVars
<1>1. CASE StartUp
  BY <1>1 DEF StartUp, LoadConfig, InitGroup, Check, OpenPool, PingSucceeds, PingRefused,
     PingHangs, PingAgain, PingLater, GiveUp, InitAdmin
<1>2. CASE ShutDown
  BY <1>2 DEF ShutDown, RunReturns, ClosePool, Flush, Drain, Reset, LeaveMain
<1>3. CASE DatabaseChanges \/ InitAdminBroken \/ Signal \/ RunFails \/ HandlerBegins \/ HandlerEnds \/ GroupRuns
  BY <1>3 DEF DatabaseChanges, InitAdminBroken, Signal, RunFails, HandlerBegins, HandlerEnds, GroupRuns
<1>4. ASSUME NEW c \in Task \cup {Outside}, NEW t \in Task, GoDefault(c, t)
      PROVE  Places'
  BY <1>4 DEF GoDefault
<1>5. CASE UNCHANGED appVars
  BY <1>5 DEF appVars
<1> QED
  BY <1>1, <1>2, <1>3, <1>4, <1>5 DEF AppNext

LEMMA TypesKept ==
  ASSUME AppInv, [AppNext]_appVars
  PROVE  AppTypeOK'
<1>1. TypeOK'
  BY GroupKept DEF IInv
<1>2. Clock /\ Flags /\ Places
  BY DEF AppInv, AppTypeOK, Clock, Flags, Places
<1>3. Clock' /\ Flags' /\ Places'
  BY <1>2, ClockKept, FlagsKept, PlacesKept
<1> QED
  BY <1>1, <1>3 DEF AppTypeOK, Clock, Flags, Places

-----------------------------------------------------------------------------
(* The order.  Only Drain moves Stop; only a handler or a running task can call
   Go, and before the group exists there are none. *)
LEMMA OrderKept ==
  ASSUME AppInv, [AppNext]_appVars
  PROVE  Order'
<1> USE MainIsAStopper DEF AppInv, Order, Goto, Unwind, serveVars
<1>1. CASE UNCHANGED appVars
  BY <1>1 DEF appVars, vars, taskVars, stopVars
<1>2. CASE StartUp \/ DatabaseChanges \/ InitAdminBroken \/ Signal \/ RunFails
  BY <1>2 DEF StartUp, LoadConfig, InitGroup, Check, OpenPool, PingSucceeds, PingRefused,
     PingHangs, PingAgain, PingLater, GiveUp, InitAdmin, DatabaseChanges, InitAdminBroken, Signal, RunFails,
     vars, taskVars, stopVars
<1>3. CASE HandlerBegins \/ HandlerEnds
  BY <1>3 DEF HandlerBegins, HandlerEnds, vars, taskVars, stopVars
<1>4. CASE RunReturns \/ ClosePool \/ Flush \/ Reset \/ LeaveMain
  BY <1>4 DEF RunReturns, ClosePool, Flush, Reset, LeaveMain, vars, taskVars, stopVars
<1>5. CASE Drain
  <2>1. stopPc \in [Stopper -> StopPc] /\ outcome \in [Stopper -> Outcome]
    BY DEF IInv, TypeOK
  <2>2. stopPc[Main] = "cancel" <=> stopPc'[Main] = "over"
    BY <1>5, <2>1 DEF Drain, StopBegin, StopWait, StopDrained, StopTimeout, StopCancel
  <2>3. outcome'[Main] # "immediate"
    BY <1>5, <2>1 DEF Drain, StopBegin, StopWait, StopDrained, StopTimeout, StopCancel
  <2> QED
    BY <1>5, <2>2, <2>3 DEF Drain
<1>6. ASSUME NEW c \in Task \cup {Outside}, NEW t \in Task, GoDefault(c, t)
      PROVE  Order'
  <2>1. mainPc \notin {"config", "init"}
    BY <1>6, TaskGroupAssumption DEF GoDefault, GoAccept, GoReject, NilCall, CanCall
  <2>2. UNCHANGED stopVars
    BY <1>6 DEF GoDefault, GoAccept, GoReject, NilCall
  <2> QED
    BY <1>6, <2>1, <2>2 DEF GoDefault, stopVars
<1>7. CASE GroupRuns
  <2>1. UNCHANGED <<stopPc, outcome>>
    BY <1>7 DEF GroupRuns, TaskStep, Start, Return, PanicRun, PanicHandled, Finish,
       FinishRemove, FinishClassify, FinishRelease, Crash, WaiterClose, stopVars
  <2>2. mainPc \notin {"config", "init"}
    <3>1. CASE WaiterClose(Main)
      BY <3>1 DEF WaiterClose, IInv, StopProgress
    <3>2. ASSUME NEW t \in Task, TaskStep(t) PROVE taskPc[t] # "new"
      BY <3>2 DEF TaskStep, Start, Return, PanicRun, PanicHandled, Finish,
         FinishRemove, FinishClassify, FinishRelease, Crash
    <3> QED
      BY <1>7, <3>1, <3>2 DEF GroupRuns
  <2> QED
    BY <1>7, <2>1, <2>2 DEF GroupRuns
<1> QED
  BY <1>1, <1>2, <1>3, <1>4, <1>5, <1>6, <1>7 DEF AppNext, ShutDown

(* Handlers, and who meets nil: after Reset a task that still runs was accepted,
   and unless the timer fired Stop would have waited for it. *)
LEMMA HandlersKept ==
  ASSUME AppInv, [AppNext]_appVars
  PROVE  Handlers'
<1> USE MainIsAStopper DEF AppInv, Handlers, NilOnlyAfterGrace, Goto, Unwind, serveVars, startVars
<1>1. CASE UNCHANGED appVars
  BY <1>1 DEF appVars, vars, stopVars
<1>2. CASE StartUp \/ DatabaseChanges \/ InitAdminBroken \/ Signal \/ RunFails
  BY <1>2 DEF StartUp, LoadConfig, InitGroup, Check, OpenPool, PingSucceeds, PingRefused,
     PingHangs, PingAgain, PingLater, GiveUp, InitAdmin, DatabaseChanges, InitAdminBroken, Signal, RunFails,
     vars, stopVars
<1>3. CASE HandlerBegins \/ HandlerEnds
  BY <1>3 DEF HandlerBegins, HandlerEnds, vars, stopVars
<1>4. CASE RunReturns
  BY <1>4 DEF RunReturns, vars, stopVars
<1>5. CASE ClosePool \/ Flush \/ Reset \/ LeaveMain
  BY <1>5 DEF ClosePool, Flush, Reset, LeaveMain, vars, stopVars
<1>6. CASE Drain
  <2>1. ~nilMet /\ ~nilMet'
    BY <1>6 DEF Drain
  <2> QED
    BY <1>6, <2>1 DEF Drain
<1>7. ASSUME NEW c \in Task \cup {Outside}, NEW t \in Task, GoDefault(c, t)
      PROVE  Handlers'
  <2>1. UNCHANGED <<mainPc, overran, pool>> /\ outcome' = outcome
    BY <1>7 DEF GoDefault, GoAccept, GoReject, NilCall, stopVars
  <2>2. handler' => handler
    BY <1>7 DEF GoDefault
  <2>3. CASE group
    <3>1. nilMet' = nilMet
      BY <1>7, <2>3 DEF GoDefault
    <3> QED
      BY <2>1, <2>2, <3>1
  <2>4. CASE ~group
    <3>1. NilCall(c, t) /\ mainPc # "gone" /\ (c = Outside => handler)
      BY <1>7, <2>4 DEF GoDefault
    <3>2. mainPc = "return" /\ stopPc[Main] = "over"
      BY <2>4, <3>1, TaskGroupAssumption DEF NilCall, CanCall, Order
    <3>3. CASE c = Outside
      BY <2>1, <2>2, <3>1, <3>2, <3>3
    <3>4. CASE c # Outside
      <4>1. c \in Unreleased
        BY <3>1, <3>4 DEF NilCall, CanCall, Unreleased
      <4>2. outcome[Main] # "drained" /\ outcome[Main] # "none"
        BY <3>2, <4>1 DEF IInv, StopProgress
      <4>3. outcome[Main] \in {"none", "drained", "timeout"}
        BY DEF Order, IInv, TypeOK, Outcome
      <4> QED
        BY <2>1, <2>2, <3>2, <4>2, <4>3
    <3> QED
      BY <3>3, <3>4
  <2> QED
    BY <2>3, <2>4
<1>8. CASE GroupRuns
  <2>1. outcome' = outcome
    BY <1>8 DEF GroupRuns, TaskStep, Start, Return, PanicRun, PanicHandled, Finish,
       FinishRemove, FinishClassify, FinishRelease, Crash, WaiterClose, stopVars
  <2> QED
    BY <1>8, <2>1 DEF GroupRuns
<1> QED
  BY <1>1, <1>2, <1>3, <1>4, <1>5, <1>6, <1>7, <1>8 DEF AppNext, ShutDown

-----------------------------------------------------------------------------
(* The ready window.  What a step leaves of the clock, the database and main's
   place is all that matters outside the loop of pings. *)
LEMMA WindowUnmoved ==
  ASSUME AppInv, UNCHANGED <<mainPc, ending, startVars>>
  PROVE  ReadyWindow'
BY DEF AppInv, ReadyWindow, RecoveryWindow, startVars

LEMMA ReadyWindowKept ==
  ASSUME AppInv, [AppNext]_appVars
  PROVE  ReadyWindow'
<1>0. /\ now \in 0..Window /\ upSince \in 0..Window /\ timer \in 0..(Window + Interval)
      /\ Window \in Nat \ {0} /\ Interval \in Nat \ {0}
  BY AppLifecycleAssumption DEF AppInv, AppTypeOK
<1> USE DEF AppInv, ReadyWindow, RecoveryWindow, Goto, Unwind, startVars
<1>1. ASSUME UNCHANGED appVars \/ HandlerBegins \/ HandlerEnds \/ GroupRuns \/ Drain
             \/ \E c \in Task \cup {Outside}, t \in Task : GoDefault(c, t)
      PROVE  UNCHANGED <<ending, startVars>>
  BY <1>1 DEF appVars, HandlerBegins, HandlerEnds, GroupRuns, Drain, GoDefault
<1>2. CASE UNCHANGED appVars \/ HandlerBegins \/ HandlerEnds \/ GroupRuns
           \/ \E c \in Task \cup {Outside}, t \in Task : GoDefault(c, t)
  <2>1. mainPc' = mainPc
    BY <1>2 DEF appVars, HandlerBegins, HandlerEnds, GroupRuns, GoDefault
  <2> QED
    BY <1>1, <1>2, <2>1, WindowUnmoved
<1>3. CASE Drain
  BY <1>1, <1>3 DEF Drain
<1>4. CASE LoadConfig \/ InitGroup \/ Check \/ InitAdmin \/ InitAdminBroken \/ Signal \/ RunFails
  BY <1>4 DEF LoadConfig, InitGroup, Check, InitAdmin, InitAdminBroken, Signal, RunFails
<1>5. CASE RunReturns \/ ClosePool \/ Flush \/ Reset \/ LeaveMain
  BY <1>5 DEF RunReturns, ClosePool, Flush, Reset, LeaveMain
<1>6. CASE OpenPool
  BY <1>0, <1>6 DEF OpenPool
<1>7. CASE PingSucceeds
  BY <1>7 DEF PingSucceeds
<1>8. CASE PingRefused
  BY <1>0, <1>8 DEF PingRefused
<1>9. CASE PingHangs
  <2>1. mainPc = "ping" /\ mainPc' = "wait" /\ db' = "silent" /\ ending' = ending
    BY <1>9 DEF PingHangs
  <2>2. now' \in now..Window /\ timer' = now' + Interval
    BY <1>9 DEF PingHangs
  <2>3. \A i \in 0..Window : \A j \in i..Window : j <= j + Interval /\ j + Interval <= j + Interval
    BY <1>0
  <2>4. now' <= timer' /\ timer' <= now' + Interval
    BY <1>0, <2>2, <2>3, Zenon
  <2> QED
    BY <2>1, <2>4
<1>10. CASE PingAgain
  BY <1>0, <1>10 DEF PingAgain
<1>11. CASE PingLater
  BY <1>0, <1>11 DEF PingLater
<1>12. CASE GiveUp
  BY <1>0, <1>12 DEF GiveUp
<1>13. CASE DatabaseChanges
  BY <1>0, <1>13 DEF DatabaseChanges
<1> QED
  BY <1>2, <1>3, <1>4, <1>5, <1>6, <1>7, <1>8, <1>9, <1>10, <1>11, <1>12, <1>13
  DEF AppNext, StartUp, ShutDown

-----------------------------------------------------------------------------
LEMMA NextAppInv == AppInv /\ [AppNext]_appVars => AppInv'
BY GroupKept, TypesKept, OrderKept, HandlersKept, ReadyWindowKept DEF AppInv

(* The invariant of a process, for any tasks and any length of the window. *)
THEOREM ProcessInvariant == AppSpec => []AppInv
<1> QED
  BY InitAppInv, NextAppInv, PTL DEF AppSpec

(* A process is a run of the task group: through the default group, nil or not,
   main, its handlers and the tasks do nothing the group does not allow. *)
THEOREM ImplementsGroup == AppSpec => Spec
<1>1. AppInit => Init
  BY DEF AppInit
<1>2. AppInv /\ [AppNext]_appVars => [Next]_vars
  BY StepsOfTheGroup
<1> QED
  BY <1>1, <1>2, ProcessInvariant, PTL DEF AppSpec, Spec

(* Every variable of the process has its type. *)
THEOREM AppTypeCorrect == AppSpec => []AppTypeOK
<1>1. AppInv => AppTypeOK
  BY DEF AppInv
<1> QED
  BY <1>1, ProcessInvariant, PTL

(* Every way out of main leaves the group stopped and its survivors cancelled. *)
THEOREM OrderlyExit == AppSpec => []ExitIsOrderly
<1>1. AppInv => ExitIsOrderly
  <2> SUFFICES ASSUME AppInv, mainPc = "gone"
               PROVE  /\ Executing \subseteq canceled
                      /\ Unreleased # {} => outcome[Main] = "timeout"
    BY DEF ExitIsOrderly
  <2>1. CASE \A t \in Task : taskPc[t] = "new"
    BY <2>1 DEF Executing, Unreleased
  <2>2. CASE stopPc[Main] = "over"
    <3>1. Executing \subseteq canceled
      BY <2>2, MainIsAStopper DEF AppInv, IInv, NoUncancelledSurvivor
    <3>2. outcome[Main] \in {"drained", "timeout"}
      BY <2>2, MainIsAStopper DEF AppInv, IInv, StopProgress, TypeOK, Outcome, Order
    <3>3. outcome[Main] = "drained" => Unreleased = {}
      BY MainIsAStopper DEF AppInv, IInv, StopProgress
    <3> QED
      BY <3>1, <3>2, <3>3
  <2> QED
    BY <2>1, <2>2 DEF AppInv, Order
<1> QED
  BY <1>1, ProcessInvariant, PTL

(* Nobody who was waited for meets the default group after it was reset. *)
THEOREM NilAfterGrace == AppSpec => []NilOnlyAfterGrace
<1>1. AppInv => NilOnlyAfterGrace
  BY DEF AppInv, Handlers
<1> QED
  BY <1>1, ProcessInvariant, PTL

(* The pool is closed under no handler that app.Run waits for. *)
THEOREM PoolForHandlers == AppSpec => []PoolOutlivesHandlers
<1>1. AppInv => PoolOutlivesHandlers
  BY DEF AppInv, Handlers, PoolOutlivesHandlers
<1> QED
  BY <1>1, ProcessInvariant, PTL

(* A database that comes up in time is found, whatever the window and interval. *)
THEOREM RecoveryIsFound == AppSpec => []RecoveryWindow
<1>1. AppInv => RecoveryWindow
  BY DEF AppInv, ReadyWindow
<1> QED
  BY <1>1, ProcessInvariant, PTL
=============================================================================
