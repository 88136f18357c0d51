---------------------------- MODULE BoundedStage ----------------------------
(***************************************************************************)
(* run_with_heartbeat of backend/app/services/ops_execution.py: one stage  *)
(* of an operations job, with a deadline, a cancel event and heartbeats.   *)
(*                                                                         *)
(* The stage runs its operation as a child task.  The operation modelled   *)
(* is the one _execute_change passes: it awaits asyncio.to_thread, so its  *)
(* work is done by a thread of a pool that no task can stop.               *)
(*                                                                         *)
(* An action is what runs between two suspension points of the stage or of *)
(* the child, or a step of the thread, the clock or the caller.            *)
(***************************************************************************)
EXTENDS Naturals

CONSTANTS
    Timeout,    \* timeout_seconds
    Heartbeat,  \* heartbeat_seconds
    MaxTime     \* bound: the clock explored

ASSUME TimeAssumption ==
    /\ Timeout \in Nat \ {0} /\ Heartbeat \in 1..Timeout
    /\ MaxTime \in Nat

VARIABLES
    pc,         \* the await the stage is suspended at
    outcome,    \* what it is about to return or raise
    child,      \* the child task
    asked,      \* task.cancel() was called on the child
    work,       \* the call handed to the thread pool
    stop,       \* cancel_event is set
    cancelled,  \* CancelledError is about to be thrown into the stage
    now, timer, \* the clock, and when asyncio.wait gives up
    interrupted \* history: the caller asked the stage to stop

vars == <<pc, outcome, child, asked, work, stop, cancelled, now, timer, interrupted>>

Done == {"value", "error", "cancelled"}
ChildDone == child \in Done

-----------------------------------------------------------------------------
(* The stage *)

\* Mutant of Leaves: the child is not cancelled.
LeavesQuietly(o) ==
    /\ outcome' = o /\ pc' = "cleanup"
    /\ UNCHANGED <<asked, timer>>

\* A return or a raise enters the finally block, which cancels the child if
\* it still runs and gathers it.
Leaves(o) ==
    /\ outcome' = o /\ pc' = "cleanup"
    /\ asked' = (asked \/ ~ChildDone)
    /\ UNCHANGED timer

\* Mutant of LoopHead: the next wait is a whole heartbeat, whatever remains.
LoopHeadUncapped ==
    \/ stop /\ Leaves("cancelled")
    \/ ~stop /\ now >= Timeout /\ Leaves("timeout")
    \/ /\ ~stop /\ now < Timeout
       /\ timer' = now + Heartbeat
       /\ pc' = "waiting"
       /\ UNCHANGED <<outcome, asked>>

\* Mutant of LoopHead: a wait that expired is taken for the deadline.
LoopHeadImpatient ==
    \/ stop /\ Leaves("cancelled")
    \/ ~stop /\ now > 0 /\ now >= timer /\ Leaves("timeout")
    \/ /\ ~stop /\ (now = 0 \/ now < timer)
       /\ timer' = (IF now + Heartbeat < Timeout THEN now + Heartbeat ELSE Timeout)
       /\ pc' = "waiting"
       /\ UNCHANGED <<outcome, asked>>

\* The head of the loop: cancel event, deadline, next wait.
LoopHead ==
    \/ stop /\ Leaves("cancelled")
    \/ ~stop /\ now >= Timeout /\ Leaves("timeout")
    \/ /\ ~stop /\ now < Timeout
       /\ timer' = (IF now + Heartbeat < Timeout THEN now + Heartbeat ELSE Timeout)
       /\ pc' = "waiting"
       /\ UNCHANGED <<outcome, asked>>

Called ==
    /\ pc = "called"
    /\ LoopHead
    /\ child' = "new"
    /\ UNCHANGED <<work, stop, cancelled, now, interrupted>>

\* asyncio.wait returned and the child is done.
ResultArrives ==
    /\ pc = "waiting" /\ ~cancelled /\ ChildDone
    /\ Leaves(child)
    /\ UNCHANGED <<child, work, stop, cancelled, now, interrupted>>

\* asyncio.wait gave up.  The heartbeat of a job appends an event and comes
\* back at once; on_heartbeat in general may suspend.
WaitExpires ==
    /\ pc = "waiting" /\ ~cancelled /\ ~ChildDone /\ now >= timer
    /\ \/ LoopHead
       \/ pc' = "beating" /\ UNCHANGED <<outcome, asked, timer>>
    /\ UNCHANGED <<child, work, stop, cancelled, now, interrupted>>

HeartbeatReturns ==
    /\ pc = "beating" /\ ~cancelled
    /\ LoopHead \/ Leaves("error")
    /\ UNCHANGED <<child, work, stop, cancelled, now, interrupted>>

\* CancelledError is thrown at the await the stage is suspended at.
CancelArrives ==
    /\ pc \in {"waiting", "beating"} /\ cancelled
    /\ Leaves("cancelled")
    /\ cancelled' = FALSE
    /\ UNCHANGED <<child, work, stop, now, interrupted>>

\* Mutant of Gathered: the child is cancelled and not waited for.
GatheredAtOnce ==
    /\ pc = "cleanup"
    /\ pc' = "ended"
    /\ outcome' = IF cancelled THEN "cancelled" ELSE outcome
    /\ cancelled' = FALSE
    /\ UNCHANGED <<child, asked, work, stop, now, timer, interrupted>>

\* gather returns when the child is done.  A cancellation meanwhile is passed
\* to the child and raised here in the end, in place of what was under way.
Gathered ==
    /\ pc = "cleanup" /\ ChildDone
    /\ pc' = "ended"
    /\ outcome' = IF cancelled THEN "cancelled" ELSE outcome
    /\ cancelled' = FALSE
    /\ UNCHANGED <<child, asked, work, stop, now, timer, interrupted>>

StageStep ==
    \/ Called \/ ResultArrives \/ WaitExpires \/ HeartbeatReturns
    \/ CancelArrives \/ Gathered

-----------------------------------------------------------------------------
(* The child task and its thread *)

\* A task cancelled before its first step never runs its coroutine.
ChildStarts ==
    /\ child = "new"
    /\ \/ asked /\ child' = "cancelled" /\ UNCHANGED work
       \/ ~asked /\ child' = "running" /\ work' = "queued"
    /\ UNCHANGED <<pc, outcome, asked, stop, cancelled, now, timer, interrupted>>

\* The child's await ends.  A cancellation removes a call that is still in
\* the pool's queue; it does not stop a thread, and it hides a result.
ChildEnds ==
    /\ child = "running"
    /\ \/ /\ asked /\ child' = "cancelled"
          /\ work' = IF work = "queued" THEN "none" ELSE work
       \/ /\ ~asked /\ work \in {"value", "error"}
          /\ child' = work /\ UNCHANGED work
    /\ UNCHANGED <<pc, outcome, asked, stop, cancelled, now, timer, interrupted>>

ChildStep == ChildStarts \/ ChildEnds

ThreadStep ==
    /\ \/ work = "queued" /\ work' = "running"
       \/ work = "running" /\ work' \in {"value", "error"}
    /\ UNCHANGED <<pc, outcome, child, asked, stop, cancelled, now, timer, interrupted>>

-----------------------------------------------------------------------------
(* The caller and the clock *)

\* cancel_ops_job sets the event and cancels the task of the job; a shutdown
\* only cancels the task.
Interrupt ==
    /\ pc \notin {"called", "ended"} /\ ~cancelled
    /\ cancelled' = TRUE
    /\ stop' \in {stop, TRUE}
    /\ interrupted' = TRUE
    /\ UNCHANGED <<pc, outcome, child, asked, work, now, timer>>

Tick ==
    /\ pc # "ended" /\ now < MaxTime
    /\ now' = now + 1
    /\ UNCHANGED <<pc, outcome, child, asked, work, stop, cancelled, timer, interrupted>>

Init ==
    /\ pc = "called" /\ outcome = "none"
    /\ child = "none" /\ asked = FALSE /\ work = "none"
    /\ stop \in BOOLEAN /\ interrupted = stop
    /\ cancelled = FALSE
    /\ now = 0 /\ timer = 0

Next == StageStep \/ ChildStep \/ ThreadStep \/ Interrupt \/ Tick

Spec == Init /\ [][Next]_vars

\* The event loop runs every task that is ready; a thread may hang for ever.
FairSpec == Spec /\ WF_vars(StageStep) /\ WF_vars(ChildStep) /\ WF_vars(Tick)

-----------------------------------------------------------------------------
(* What the stage promises *)

TypeOK ==
    /\ pc \in {"called", "waiting", "beating", "cleanup", "ended"}
    /\ outcome \in {"none", "timeout"} \union Done
    /\ child \in {"none", "new", "running"} \union Done
    /\ work \in {"none", "queued", "running", "value", "error"}
    /\ asked \in BOOLEAN /\ stop \in BOOLEAN /\ cancelled \in BOOLEAN
    /\ interrupted \in BOOLEAN
    /\ now \in Nat /\ timer \in 0..Timeout

\* What a stage reports happened: a value was computed by the work, a timeout
\* is never early, a cancellation was asked for.  An interrupted stage may
\* replace any of them by a cancellation, but never a cancellation by them.
OutcomeIsTrue ==
    pc = "ended" =>
        /\ outcome = "value" => work = "value"
        /\ outcome = "timeout" => now >= Timeout
        /\ outcome = "cancelled" => interrupted
        /\ outcome # "none"

\* After a stage has returned or raised, no work of it begins: a call that was
\* still queued when it timed out or was cancelled is never made.
NoLateStart == [][pc = "ended" /\ work' = "running" => work = "running"]_vars

\* "A stage can no longer leave an operation job permanently in running": it
\* ends even when its thread hangs for ever and nobody cancels it.
StageEnds == <>(pc = "ended")
=============================================================================
