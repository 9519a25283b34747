---------------------------- MODULE TaskLifecycle ----------------------------
(***************************************************************************)
(* What server/pkg/taskgroup promises, without locks, counters or waiter  *)
(* goroutines: a gate that closes once, tasks that are accepted only while *)
(* it is open, and calls of Stop that return in one of two ways.           *)
(***************************************************************************)
CONSTANTS Task, Stopper

VARIABLES
  open,       (* no Stop has begun                                            *)
  phase,      (* "absent", "refused", "active", "leaving" or "ended"          *)
  signalled,  (* tasks whose context is cancelled                             *)
  report      (* "pending", "drained" or "cancelled", for each Stop           *)

abstractVars == <<open, phase, signalled, report>>

InPhase(p) == {t \in Task : phase[t] = p}

AbstractInit ==
  /\ open = TRUE
  /\ phase = [t \in Task |-> "absent"]
  /\ signalled = {}
  /\ report = [s \in Stopper |-> "pending"]

Accept(t) ==
  /\ open /\ phase[t] = "absent"
  /\ phase' = [phase EXCEPT ![t] = "active"]
  /\ UNCHANGED <<open, signalled, report>>

Refuse(t) ==
  /\ ~open /\ phase[t] = "absent"
  /\ phase' = [phase EXCEPT ![t] = "refused"]
  /\ UNCHANGED <<open, signalled, report>>

(* User code of the task is over; its bookkeeping may not be. *)
Leave(t) ==
  /\ phase[t] = "active"
  /\ phase' = [phase EXCEPT ![t] = "leaving"]
  /\ UNCHANGED <<open, signalled, report>>

End(t) ==
  /\ phase[t] = "leaving"
  /\ phase' = [phase EXCEPT ![t] = "ended"]
  /\ UNCHANGED <<open, signalled, report>>

Close ==
  /\ open
  /\ open' = FALSE
  /\ UNCHANGED <<phase, signalled, report>>

(* Stop returns because everything accepted has ended: it cancels nothing. *)
ReturnDrained(s) ==
  /\ ~open /\ report[s] = "pending"
  /\ InPhase("active") \cup InPhase("leaving") = {}
  /\ report' = [report EXCEPT ![s] = "drained"]
  /\ UNCHANGED <<open, phase, signalled>>

(* Stop returns by cancelling every task whose user code may still run, and
   perhaps some whose bookkeeping is not over. *)
ReturnCancelled(s) ==
  /\ ~open /\ report[s] = "pending"
  /\ \E C \in SUBSET InPhase("leaving") :
       signalled' = signalled \cup InPhase("active") \cup C
  /\ report' = [report EXCEPT ![s] = "cancelled"]
  /\ UNCHANGED <<open, phase>>

AbstractNext ==
  \/ \E t \in Task : Accept(t) \/ Refuse(t) \/ Leave(t) \/ End(t)
  \/ Close
  \/ \E s \in Stopper : ReturnDrained(s) \/ ReturnCancelled(s)

LifecycleSpec == AbstractInit /\ [][AbstractNext]_abstractVars
=============================================================================
