------------------------------ MODULE OpsJobs ------------------------------
(***************************************************************************)
(* The operations-job engine of backend/app/application.py: the in-memory  *)
(* job table, the coroutine _run_ops_job that drives one incident through  *)
(* evidence, approval, change, verification and replanning, the HTTP       *)
(* handlers that operate on a job, the job file and the restart.           *)
(*                                                                         *)
(* Everything runs on one asyncio event loop, so a step of the model is    *)
(* what runs between two real suspension points of a coroutine or handler. *)
(* OPS_JOBS_LOCK is never held across an await and the helpers             *)
(* _append_ops_job_event and _update_ops_job never suspend: a sequence of  *)
(* them is one step.  Between two of their file writes only a crash can    *)
(* intervene, and it matters in one place (CrashInReleaseGate).            *)
(*                                                                         *)
(* A change stands for its canonical value, so a change is its own         *)
(* fingerprint.  What a planner, a Skill or an operator proposes is any    *)
(* member of Proposal.                                                     *)
(***************************************************************************)
EXTENDS Naturals, Sequences, FiniteSets, Functions

CONSTANTS
    Job,            \* identifiers of jobs (uuid4: never reused)
    Change,         \* canonical values of infrastructure changes
    ApprovalId,     \* identifiers of approval requests (uuid4: never reused)
    Proposal,       \* the strategies a request or a planner may put forward
    Redacted,       \* a change as _redact_sensitive writes it to the job file
    MaxConcurrent,  \* OPS_MAX_CONCURRENT_JOBS
    StoreLimit,     \* OPS_JOB_STORE_LIMIT
    ApprovalTimeout,\* OPS_STEP_APPROVAL_TIMEOUT_SECONDS > 0
    DiskMayFail,    \* a write of the job file may fail (the error is swallowed)
    MaxCycle,       \* bound: rechecks explored per job
    MaxCrashes,     \* bound: crashes explored
    None            \* Python's None

Stage == {"unset", "hardening", "other"}

(***************************************************************************)
(* A strategy: its changes, the probes of a read-only plan (the recheck    *)
(* cycle its step ids carry, 0 for any other), and whether the plan names  *)
(* a permission_recovery_stage ("hardening" is the stage that also carries *)
(* a rollback_change).                                                     *)
(***************************************************************************)
Strategy == [changes : Seq(Change), probe : Nat, stage : Stage]

\* An approval request as it was displayed.
Slip == [job : Job, change : Change, index : Nat, epoch : Nat]

ASSUME ProposalAssumption == Proposal \subseteq Strategy
ASSUME NoneAssumption == None \notin Slip
ASSUME RedactedAssumption == Redacted \in [Change -> Change]
ASSUME LimitAssumption ==
    /\ MaxConcurrent \in Nat /\ StoreLimit \in Nat \ {0}
    /\ MaxCycle \in Nat /\ MaxCrashes \in Nat
    /\ ApprovalTimeout \in BOOLEAN /\ DiskMayFail \in BOOLEAN

\* Statuses of a job whose coroutine should be running, and the final ones.
Active == {"queued", "running", "awaiting_approval", "cancelling"}
Terminal == {"completed", "failed", "cancelled", "blocked"}

\* How a change came back from its executor.  "refused": the channel (RBAC,
\* certificate, network) rejected it; "timeout": no answer by the deadline.
Outcome == {"completed", "failed", "refused", "timeout"}

VARIABLES
    jobs,      \* OPS_JOBS: the record of each job, or None
    order,     \* OPS_JOBS: the order in which its keys were inserted
    task,      \* OPS_JOB_TASKS: the coroutine of each job and its locals
    stop,      \* OPS_JOB_CANCEL_EVENTS: jobs whose event is set
    cancelled, \* jobs whose task received Task.cancel()
    bell,      \* OPS_JOB_STEP_APPROVAL_EVENTS: the approval event of each job
    disk,      \* the job file
    up,        \* whether the process is running
    \* History, read by the properties only
    epoch,     \* how many times the process died
    unused,    \* job identifiers not yet drawn
    ledger,    \* every approval request ever displayed
    consent,   \* approvals an operator confirmed
    spent      \* approvals under which the executor was called

store == <<jobs, order, disk>>
wires == <<stop, cancelled, bell>>
history == <<epoch, unused, ledger, consent, spent>>
vars == <<jobs, order, task, stop, cancelled, bell, disk, up,
          epoch, unused, ledger, consent, spent>>

-----------------------------------------------------------------------------
(* Records *)

\* _change_fingerprint: the changes in sorted order, else the probes.
Fingerprint(p) ==
    [changes |-> Range(p.changes),
     probe |-> IF p.changes = <<>> THEN p.probe ELSE 0]

Fingerprints == [changes : SUBSET Change, probe : Nat]

\* What the approval dialog shows of the change it asks about.
Pending == [id : ApprovalId, change : Change, index : Nat, consumed : BOOLEAN]
Receipt == [id : ApprovalId, change : Change, index : Nat, confirmed : BOOLEAN]

JobRecord ==
    [status : Active \union Terminal,
     plan : Strategy,
     tried : SUBSET Fingerprints,        \* _attempted_strategy_fingerprints
     pending : Pending \union {None},
     approvedIndex : Nat,
     consumed : Receipt \union {None}]   \* last_consumed_approval

ASSUME RecordAssumption == None \notin JobRecord

\* The suspension points of the coroutine.
PC == {"none", "dead", "ready", "evidence", "diagnose", "approval", "change",
       "verify", "rollback", "probe", "replan", "summary", "recheck"}

TaskRecord ==
    [pc : PC,
     plan : Strategy,                    \* current
     origin : Stage,                     \* the stage of initial_plan
     tried : SUBSET Fingerprints,        \* attempted
     fp : Fingerprints,                  \* fingerprint, of the plan as started
     cycle : Nat,                        \* continuous_cycle
     forced : BOOLEAN,                   \* a Skill replaced the changes
     index : Nat,
     approval : ApprovalId \union {None},
     results : Seq(Outcome),
     landed : SUBSET Nat,                \* which changes the cluster took
     why : {"recovered", "refused", "exhausted"}]

Idle == [changes |-> <<>>, probe |-> 0, stage |-> "unset"]

NewTask(pc, p, tried) ==
    [pc |-> pc, plan |-> p, origin |-> p.stage, tried |-> tried,
     fp |-> Fingerprint(p), cycle |-> 0, forced |-> FALSE, index |-> 0,
     approval |-> None, results |-> <<>>, landed |-> {}, why |-> "exhausted"]

NoTask == NewTask("none", Idle, {})

NewJob(p, tried) ==
    [status |-> "queued", plan |-> p, tried |-> tried, pending |-> None,
     approvedIndex |-> 0, consumed |-> None]

(* Edits of the two records, each made by one piece of the code. *)

\* A record whose status changes, or that takes over the plan of an attempt.
WithStatus(r, status) == [r EXCEPT !.status = status]

Started(r, t) ==
    [r EXCEPT !.status = "running", !.plan = t.plan, !.tried = t.tried]

\* What approve_ops_job_step writes before its first await: the pending request
\* is consumed and the receipt says how.
Consumed(r, a, confirm) ==
    [r EXCEPT
        !.pending.consumed = TRUE,
        !.consumed = [id |-> a, change |-> r.pending.change,
                      index |-> r.pending.index, confirmed |-> confirm],
        !.approvedIndex = IF confirm THEN r.pending.index ELSE 0,
        !.status = IF confirm THEN "running" ELSE @]

\* What await_change_approval writes before its wait, when the wait times out,
\* and when the change is approved.
Asking(r, c, i, a) ==
    [r EXCEPT !.status = "awaiting_approval",
              !.pending = [id |-> a, change |-> c, index |-> i,
                           consumed |-> FALSE]]
TimedOut(r) ==
    [r EXCEPT !.status = "cancelled", !.pending = None, !.approvedIndex = 0]
Submitted(r) == [r EXCEPT !.status = "running", !.pending = None]

\* The coroutine moves on, waits for an approval, books a returned change,
\* writes a summary, or waits for the next recheck.
Moved(t, pc) == [t EXCEPT !.pc = pc]
Asks(t, i, a) == [t EXCEPT !.pc = "approval", !.index = i, !.approval = a]
Booked(t, o, took) ==
    [t EXCEPT !.results = Append(@, o),
              !.landed = IF took THEN @ \union {t.index} ELSE @]
Summing(t, why) == [t EXCEPT !.pc = "summary", !.why = why]
Resting(t) == [t EXCEPT !.pc = "recheck", !.cycle = @ + 1]

\* An attempt starts afresh, remembers its strategy and keeps its lineage.
Attempting(t) ==
    [NewTask("evidence", t.plan, t.tried \union {Fingerprint(t.plan)})
        EXCEPT !.origin = t.origin, !.cycle = t.cycle]

\* The Skill gate filtered the changes, or a Skill replaced them.
Gated(t, kept) == [t EXCEPT !.pc = "diagnose", !.plan.changes = kept]
Replaced(t, changes) ==
    [t EXCEPT !.pc = "diagnose", !.plan.changes = changes, !.forced = TRUE]

\* _continuous_diagnostic_plan: nothing to change, probes of this cycle.
Probing(t) ==
    [t EXCEPT !.plan = [@ EXCEPT !.changes = <<>>, !.probe = t.cycle]]

\* A strategy whose channel was blocked may be tried again.
Forgetting(t) == [t EXCEPT !.tried = @ \ {t.fp}]

Recorded(j) == jobs[j] # None
Live(j) == task[j].pc \notin {"none", "dead"}
\* Mutant of Busy: a job that waits for approval no longer counts.
BusyRunning == {k \in Job : Recorded(k) /\ jobs[k].status = "running"}

Busy == {k \in Job : Recorded(k) /\ jobs[k].status \in Active}

\* Mutant of At: Task.cancel() is ignored.
AtIgnoringCancel(j, pc) == up /\ task[j].pc = pc

\* A step the coroutine takes by itself: Task.cancel() preempts all of them.
At(j, pc) == up /\ task[j].pc = pc /\ j \notin cancelled

-----------------------------------------------------------------------------
(* The job table and its file *)

\* _persist_ops_jobs: an exception leaves the old file and is only recorded.
Persist(js, os) ==
    \/ disk' = [jobs |-> js, order |-> os]
    \/ DiskMayFail /\ UNCHANGED disk

\* _append_ops_job_event and _update_ops_job: nothing happens for a job that
\* is no longer in the table.
Put(j, r) ==
    /\ IF Recorded(j)
       THEN jobs' = [jobs EXCEPT ![j] = r] /\ Persist(jobs', order)
       ELSE UNCHANGED <<jobs, disk>>
    /\ UNCHANGED order

Emit(j) == Put(j, jobs[j])
Goto(j, t) == task' = [task EXCEPT ![j] = t]

\* Mutant of Finish: the safety net of the finally block is missing.
FinishWithoutVerdict(j, status) ==
    /\ Emit(j)
    /\ Goto(j, NoTask)
    /\ stop' = stop \ {j}
    /\ cancelled' = cancelled \ {j}
    /\ bell' = [bell EXCEPT ![j] = "none"]

\* The end of _run_ops_job: the final event, then the three tables forget it.
Finish(j, status) ==
    /\ Put(j, WithStatus(jobs[j], status))
    /\ Goto(j, NoTask)
    /\ stop' = stop \ {j}
    /\ cancelled' = cancelled \ {j}
    /\ bell' = [bell EXCEPT ![j] = "none"]

-----------------------------------------------------------------------------
(* Handlers of the HTTP API *)

\* _enqueue_ops_job: the concurrency check counts statuses of the table, and
\* the oldest records leave a full table whatever their status.
Enqueue(j) ==
    LET kept == IF Len(order) < StoreLimit
                THEN order
                ELSE SubSeq(order, Len(order) - StoreLimit + 2, Len(order))
    IN
    /\ up /\ j \in unused
    /\ Cardinality(Busy) < MaxConcurrent
    /\ \E p \in Proposal :
         /\ jobs' = [k \in Job |-> CASE k = j -> NewJob(p, {})
                                     [] k # j /\ k \in Range(kept) -> jobs[k]
                                     [] OTHER -> None]
         /\ Goto(j, NewTask("ready", p, {}))
    /\ order' = Append(kept, j)
    /\ Persist(jobs', order')
    /\ unused' = unused \ {j}
    /\ UNCHANGED <<wires, up, epoch, ledger, consent, spent>>

\* The checks of approve_ops_job_step, in its order.  The request carries the
\* approval id, change and index of some approval displayed earlier.
Decidable(j, a) ==
    /\ up /\ Recorded(j)
    /\ jobs[j].status = "awaiting_approval"
    /\ jobs[j].pending # None
    /\ ledger[a] # None
    /\ ledger[a].index = jobs[j].pending.index
    /\ a = jobs[j].pending.id
    /\ ledger[a].change = jobs[j].pending.change
    /\ ~jobs[j].pending.consumed
    /\ bell[j] # "none"

ApproveStep(j) ==
    \E a \in ApprovalId :
        /\ Decidable(j, a)
        /\ Put(j, Consumed(jobs[j], a, TRUE))
        /\ bell' = [bell EXCEPT ![j] = "rung"]
        /\ consent' = consent \union {a}
        /\ UNCHANGED <<task, stop, cancelled, up, epoch, unused, ledger, spent>>

\* Mutant of RejectStep: event.set() is forgotten.
RejectQuietly(j) ==
    \E a \in ApprovalId :
        /\ Decidable(j, a)
        /\ Put(j, Consumed(jobs[j], a, FALSE))
        /\ stop' = stop \union {j}
        /\ UNCHANGED <<task, cancelled, bell, up, history>>

RejectStep(j) ==
    \E a \in ApprovalId :
        /\ Decidable(j, a)
        /\ Put(j, Consumed(jobs[j], a, FALSE))
        /\ stop' = stop \union {j}
        /\ bell' = [bell EXCEPT ![j] = "rung"]
        /\ UNCHANGED <<task, cancelled, up, history>>

\* cancel_ops_job.  The loop runs the first step of a new task before it reads
\* another request, so no request meets a task that is still "ready".
CancelJob(j) ==
    /\ up /\ Recorded(j) /\ jobs[j].status \in Active
    /\ task[j].pc # "ready"
    /\ stop' = stop \union {j}
    /\ cancelled' = IF Live(j) THEN cancelled \union {j} ELSE cancelled
    /\ Put(j, WithStatus(jobs[j], "cancelling"))
    /\ UNCHANGED <<task, bell, up, history>>

\* get_ops_job: a poll closes a job whose task ended without a final status.
PollJob(j) ==
    /\ up /\ Recorded(j) /\ jobs[j].status \in Active
    /\ task[j].pc = "dead"
    /\ Put(j, WithStatus(jobs[j], "failed"))
    /\ UNCHANGED <<task, wires, up, history>>

\* delete_ops_record
DeleteRecord(j) ==
    /\ up /\ Recorded(j) /\ jobs[j].status \notin Active
    /\ jobs' = [jobs EXCEPT ![j] = None]
    /\ \E i \in DOMAIN order :
         /\ order[i] = j
         /\ order' = SubSeq(order, 1, i - 1) \o SubSeq(order, i + 1, Len(order))
    /\ Persist(jobs', order')
    /\ UNCHANGED <<task, wires, up, history>>

-----------------------------------------------------------------------------
(* The coroutine _run_ops_job *)

\* _wait_for_continuous_recheck
Rest(j, t) ==
    /\ Goto(j, Resting(t))
    /\ Put(j, WithStatus(jobs[j], "running"))

\* The head of the loop with plan t.plan: a strategy tried before goes to the
\* recheck wait; _ops_release_gate may deny one with changes, whose
\* fingerprint is then forgotten again.
BeginAttempt(j, t) ==
    LET fp == Fingerprint(t.plan) IN
    \/ fp \in t.tried /\ Rest(j, t)
    \/ /\ fp \notin t.tried
       /\ Goto(j, Attempting(t)) /\ Put(j, Started(jobs[j], t))
    \/ /\ fp \notin t.tried /\ t.plan.changes # <<>>
       /\ Goto(j, Resting(t)) /\ Put(j, Started(jobs[j], t))

\* Mutant of Merged: a next plan without a stage leaves None in its place.
MergedBlindly(t, p) ==
    [t EXCEPT !.plan = [p EXCEPT !.stage = IF @ = "unset" THEN None ELSE @]]

\* The new current plan: {**initial_plan, **next_plan}, so a next plan that
\* names no stage inherits the one of the initial plan.
Merged(t, p) ==
    [t EXCEPT !.plan = [p EXCEPT !.stage = IF @ = "unset" THEN t.origin ELSE @]]

\* The tail of the loop: _select_next_ops_plan takes a proposal whose
\* fingerprint was not tried, or there is none and the job writes its summary
\* (only some rounds ask the LLM for one) and waits for the next recheck.
Conclude(j, t) ==
    \/ \E p \in Proposal : /\ Fingerprint(p) \notin t.tried
                           /\ BeginAttempt(j, Merged(t, p))
    \/ Goto(j, Summing(t, "exhausted")) /\ Emit(j)
    \/ Rest(j, t)

Start(j) ==
    /\ At(j, "ready")
    /\ BeginAttempt(j, task[j])
    /\ UNCHANGED <<wires, up, history>>

\* Before its try block the coroutine converts environment values and counters
\* of the restored plan; an exception there ends the task without any cleanup.
StartFails(j) ==
    /\ At(j, "ready") /\ epoch > 0
    /\ Goto(j, Moved(task[j], "dead"))
    /\ UNCHANGED <<store, wires, up, history>>

\* What is left of a list when a filter has passed over it.
Subsequences(s) ==
    {t \in UNION {[1 .. n -> Range(s)] : n \in 0 .. Len(s)} :
        \E from \in [DOMAIN t -> DOMAIN s] :
            /\ \A i \in DOMAIN t : t[i] = s[from[i]]
            /\ \A i, k \in DOMAIN t : i < k => from[i] < from[k]}

\* The evidence arrives, or fails, or times out.  The Skill gate keeps the
\* changes of the actions it supports (none without evidence), or an
\* executable Skill replaces them.
EvidenceArrives(j) ==
    /\ At(j, "evidence")
    /\ \/ \E kept \in Subsequences(task[j].plan.changes) :
            Goto(j, Gated(task[j], kept))
       \/ \E p \in Proposal :
            /\ Range(p.changes) # Range(task[j].plan.changes)
            /\ Goto(j, Replaced(task[j], p.changes))
    /\ Emit(j)
    /\ UNCHANGED <<wires, up, history>>

Contradicted(t) == t.forced \/ t.plan.changes # <<>>

\* await_change_approval, up to its wait.
AskApproval(j, t, i) ==
    LET c == t.plan.changes[i] IN
    \E a \in ApprovalId :
        /\ ledger[a] = None
        /\ ledger' = [ledger EXCEPT ![a] = [job |-> j, change |-> c, index |-> i,
                                            epoch |-> epoch]]
        /\ bell' = [bell EXCEPT ![j] = "silent"]
        /\ Goto(j, Asks(t, i, a))
        /\ Put(j, Asking(jobs[j], c, i, a))

\* The diagnostic steps end.  Evidence against the plan, or a Skill's
\* replacement, turns it into a proposal; otherwise the changes begin.
DiagnosisEnds(j) ==
    /\ At(j, "diagnose")
    /\ LET t == task[j] IN
       \/ /\ Contradicted(t)
          /\ Conclude(j, t)
          /\ UNCHANGED <<bell, ledger>>
       \/ /\ ~t.forced /\ t.plan.changes # <<>>
          /\ AskApproval(j, t, 1)
       \/ /\ ~t.forced /\ t.plan.changes = <<>>
          /\ Goto(j, Moved(t, "probe")) /\ Emit(j)
          /\ UNCHANGED <<bell, ledger>>
    /\ UNCHANGED <<stop, cancelled, up, epoch, unused, consent, spent>>

\* Mutants of ApprovalExpires: the record is not closed; no answer is consent.
ExpireSilently(j) ==
    /\ ApprovalTimeout /\ At(j, "approval")
    /\ Goto(j, NoTask)
    /\ bell' = [bell EXCEPT ![j] = "none"]
    /\ UNCHANGED <<store, stop, cancelled, up, history>>
ExpireIntoChange(j) ==
    /\ ApprovalTimeout /\ At(j, "approval")
    /\ Goto(j, Moved(task[j], "change"))
    /\ spent' = spent \union {task[j].approval}
    /\ UNCHANGED <<store, wires, up, epoch, unused, ledger, consent>>

\* asyncio.wait_for gives up, even against an event set in the same iteration.
ApprovalExpires(j) ==
    /\ ApprovalTimeout /\ At(j, "approval")
    /\ Put(j, TimedOut(jobs[j]))
    /\ Goto(j, NoTask)
    /\ stop' = stop \ {j}
    /\ bell' = [bell EXCEPT ![j] = "none"]
    /\ UNCHANGED <<cancelled, up, history>>

\* The receipt the coroutine re-reads from the table when it wakes up.
Approved(j) ==
    LET t == task[j] IN
    /\ Recorded(j) /\ jobs[j].consumed # None
    /\ jobs[j].consumed.confirmed
    /\ jobs[j].consumed.id = t.approval
    /\ jobs[j].consumed.change = t.plan.changes[t.index]
    /\ jobs[j].consumed.index = t.index
    /\ jobs[j].approvedIndex = t.index

\* Mutant of SubmitChange: any ring of the event counts as a confirmation.
SubmitOnAnyRing(j) ==
    /\ At(j, "approval") /\ bell[j] = "rung"
    /\ Goto(j, Moved(task[j], "change"))
    /\ Put(j, Submitted(jobs[j]))
    /\ bell' = [bell EXCEPT ![j] = "none"]
    /\ spent' = spent \union {task[j].approval}
    /\ UNCHANGED <<stop, cancelled, up, epoch, unused, ledger, consent>>

\* await_change_approval after its wait, then the call of _execute_change.
SubmitChange(j) ==
    /\ At(j, "approval") /\ bell[j] = "rung"
    /\ j \notin stop /\ Approved(j)
    /\ Goto(j, Moved(task[j], "change"))
    /\ Put(j, Submitted(jobs[j]))
    /\ bell' = [bell EXCEPT ![j] = "none"]
    /\ spent' = spent \union {task[j].approval}
    /\ UNCHANGED <<stop, cancelled, up, epoch, unused, ledger, consent>>

AbandonChange(j) ==
    /\ At(j, "approval") /\ bell[j] = "rung"
    /\ j \in stop \/ ~Approved(j)
    /\ Finish(j, "cancelled")
    /\ UNCHANGED <<up, history>>

\* Mutants of ChangeReturns: a change is retried under its old approval; one
\* confirmation covers the whole plan.
RetryUnderOldApproval(j) ==
    /\ At(j, "change")
    /\ Goto(j, Moved(task[j], "approval"))
    /\ Emit(j)
    /\ UNCHANGED <<wires, up, history>>
ChangesInARow(j) ==
    /\ At(j, "change") /\ task[j].index < Len(task[j].plan.changes)
    /\ \E o \in Outcome :
         Goto(j, [task[j] EXCEPT !.results = Append(@, o), !.index = @ + 1])
    /\ Emit(j)
    /\ UNCHANGED <<wires, up, history>>

\* The executor returns, fails or is abandoned at its deadline; whether the
\* cluster took the change is certain for a completed or refused one only.
\* The loop goes on with the next change whatever the outcome.
ChangeReturns(j) ==
    /\ At(j, "change")
    /\ \E o \in Outcome, took \in BOOLEAN :
         LET t == Booked(task[j], o, took) IN
         /\ (o = "completed" => took) /\ (o = "refused" => ~took)
         /\ \/ /\ t.index < Len(t.plan.changes)
               /\ AskApproval(j, t, t.index + 1)
            \/ /\ t.index = Len(t.plan.changes)
               /\ Goto(j, Moved(t, "verify")) /\ Emit(j)
               /\ UNCHANGED <<bell, ledger>>
    /\ UNCHANGED <<stop, cancelled, up, epoch, unused, consent, spent>>

\* failed, and _operator_blocking_execution_failure of a failed attempt.
Failed(t) ==
    \E i \in 1 .. Len(t.plan.changes) : t.results[i] # "completed"
ChannelBlocked(t) ==
    /\ Failed(t)
    /\ \E i \in DOMAIN t.results : t.results[i] \in {"refused", "timeout"}

Recovered(j, t) ==
    Goto(j, Summing(t, "recovered")) /\ Emit(j)

\* How the loop treats an attempt that is not a recovery.
Classify(j, t) ==
    \/ /\ ChannelBlocked(t)
       /\ Goto(j, Summing(t, "refused")) /\ Emit(j)
    \/ ~ChannelBlocked(t) /\ Conclude(j, t)

\* _verify_plan_recovery.  A recovered target does not excuse a failed change.
\* A hardening plan that did not verify submits its rollback_change at once,
\* marking it approved itself.
VerifyReturns(j) ==
    /\ At(j, "verify")
    /\ LET t == task[j] IN
       \/ ~Failed(t) /\ Recovered(j, t)
       \/ Failed(t) /\ Classify(j, t)
       \/ /\ t.plan.stage = "hardening"
          /\ Goto(j, Moved(t, "rollback")) /\ Emit(j)
       \/ /\ t.plan.stage # "hardening"
          /\ Goto(j, Moved(t, "replan")) /\ Emit(j)
    /\ UNCHANGED <<wires, up, history>>

RollbackReturns(j) ==
    /\ At(j, "rollback")
    /\ \E o \in Outcome :
         LET t == Booked(task[j], o, FALSE) IN
         \/ o = "completed" /\ Recovered(j, t)
         \/ Goto(j, Moved(t, "replan")) /\ Emit(j)
    /\ UNCHANGED <<wires, up, history>>

\* _probe_plan_recovery of an attempt without changes.
ProbeReturns(j) ==
    /\ At(j, "probe")
    /\ \/ Recovered(j, task[j])
       \/ Goto(j, Moved(task[j], "replan")) /\ Emit(j)
    /\ UNCHANGED <<wires, up, history>>

\* Post-failure evidence and _evidence_based_replan.
ReplanReturns(j) ==
    /\ At(j, "replan")
    /\ Classify(j, task[j])
    /\ UNCHANGED <<wires, up, history>>

\* Mutant of SummaryReturns: a blocked or exhausted job retries at once.
RetryAtOnce(j) ==
    /\ At(j, "summary")
    /\ BeginAttempt(j, Forgetting(task[j]))
    /\ UNCHANGED <<wires, up, history>>

\* The summary is written: the job completes, or it forgets the strategy the
\* channel blocked and waits, or it just waits.
SummaryReturns(j) ==
    /\ At(j, "summary")
    /\ LET t == task[j] IN
       \/ t.why = "recovered" /\ Finish(j, "completed")
       \/ /\ t.why = "refused"
          /\ Rest(j, Forgetting(t))
          /\ UNCHANGED wires
       \/ t.why = "exhausted" /\ Rest(j, t) /\ UNCHANGED wires
    /\ UNCHANGED <<up, history>>

\* The recheck interval passes: _continuous_diagnostic_plan.
RecheckDue(j) ==
    /\ At(j, "recheck") /\ task[j].cycle <= MaxCycle
    /\ BeginAttempt(j, Probing(task[j]))
    /\ UNCHANGED <<wires, up, history>>

\* except asyncio.CancelledError
CancelledError(j) ==
    /\ up /\ Live(j) /\ j \in cancelled
    /\ Finish(j, "cancelled")
    /\ UNCHANGED <<up, history>>

\* except Exception
TaskRaises(j) ==
    /\ \E pc \in {"diagnose", "probe", "verify", "rollback", "replan"} :
         At(j, pc)
    /\ Finish(j, "failed")
    /\ UNCHANGED <<up, history>>

-----------------------------------------------------------------------------
(* Crash and restart *)

Die ==
    /\ up' = FALSE
    /\ jobs' = [j \in Job |-> None] /\ order' = <<>>
    /\ task' = [j \in Job |-> NoTask]
    /\ stop' = {} /\ cancelled' = {} /\ bell' = [j \in Job |-> "none"]
    /\ epoch' = epoch + 1
    /\ UNCHANGED <<unused, ledger, consent, spent>>

Crash ==
    /\ up /\ epoch < MaxCrashes
    /\ Die
    /\ UNCHANGED disk

\* The attempts with changes that the coroutine may be about to begin.
Starting(j) ==
    LET t == task[j] IN
    {u \in IF At(j, "ready") THEN {t}
           ELSE IF \/ At(j, "diagnose") /\ Contradicted(t)
                   \/ At(j, "replan") /\ ~ChannelBlocked(t)
                THEN {Merged(t, p) : p \in Proposal}
           ELSE {} :
       u.plan.changes # <<>> /\ Fingerprint(u.plan) \notin u.tried}

\* A denied release gate writes status "blocked", returns, and only then
\* writes "running" again; the process may die between the two writes.
CrashInReleaseGate(j) ==
    /\ epoch < MaxCrashes /\ Recorded(j)
    /\ \E t \in Starting(j) :
         disk' = [jobs |-> [jobs EXCEPT
                              ![j] = WithStatus(Started(@, t), "blocked")],
                  order |-> order]
    /\ Die

\* _restore_ops_jobs at import, resume_persisted_ops_jobs at startup.
Restored(p) ==
    [p EXCEPT !.changes = [i \in DOMAIN p.changes |-> Redacted[p.changes[i]]]]

\* Mutant of Resumes: every job of the file is resumed.
ResumesAll(r) == r # None

\* Mutant of Resumes: a job that waits for approval is not resumed.
ResumesRunning(r) == r # None /\ r.status \in Active \ {"awaiting_approval"}

Resumes(r) == r # None /\ r.status \in Active

Reloaded(r) ==
    IF Resumes(r) THEN NewJob(Restored(r.plan), r.tried)
    ELSE IF r # None THEN [r EXCEPT !.plan = Restored(r.plan)]
    ELSE None

Restart ==
    /\ ~up /\ up' = TRUE
    /\ jobs' = [j \in Job |-> Reloaded(disk.jobs[j])]
    /\ order' = disk.order
    /\ task' = [j \in Job |-> IF Resumes(disk.jobs[j])
                              THEN NewTask("ready", jobs'[j].plan, jobs'[j].tried)
                              ELSE NoTask]
    /\ IF \E j \in Job : Resumes(disk.jobs[j])
       THEN Persist(jobs', order')
       ELSE UNCHANGED disk
    /\ UNCHANGED <<wires, history>>

-----------------------------------------------------------------------------

Init ==
    /\ jobs = [j \in Job |-> None] /\ order = <<>>
    /\ task = [j \in Job |-> NoTask]
    /\ stop = {} /\ cancelled = {} /\ bell = [j \in Job |-> "none"]
    /\ disk = [jobs |-> jobs, order |-> order]
    /\ up = TRUE /\ epoch = 0 /\ unused = Job
    /\ ledger = [a \in ApprovalId |-> None] /\ consent = {} /\ spent = {}

TaskStep(j) ==
    \/ Start(j) \/ EvidenceArrives(j) \/ DiagnosisEnds(j)
    \/ SubmitChange(j) \/ AbandonChange(j) \/ ChangeReturns(j)
    \/ VerifyReturns(j) \/ ProbeReturns(j) \/ ReplanReturns(j)
    \/ SummaryReturns(j) \/ RecheckDue(j)
    \/ CancelledError(j)

\* Steps nothing obliges to happen.  The rollback is awaited without the
\* deadline that the other calls of an attempt have.
Untimely(j) ==
    \/ RollbackReturns(j)
    \/ StartFails(j) \/ ApprovalExpires(j) \/ TaskRaises(j)

Request(j) ==
    \/ Enqueue(j) \/ ApproveStep(j) \/ RejectStep(j)
    \/ CancelJob(j) \/ PollJob(j) \/ DeleteRecord(j)

Next ==
    \/ \E j \in Job : \/ TaskStep(j) \/ Untimely(j) \/ Request(j)
                      \/ CrashInReleaseGate(j)
    \/ Crash \/ Restart

Spec == Init /\ [][Next]_vars

\* Where a coroutine awaits reads of the target with no deadline around them:
\* through a kubeconfig they have no timeout of their own either.
Unbounded == {"verify", "probe"}

\* The event loop schedules every task that can run, the other stages in
\* TaskStep have deadlines (run_with_heartbeat, wait_for), the recheck wait is
\* a timer, and a cancelled task is resumed wherever it waits.  Operators owe
\* nothing; a process that died may stay down.
FairSpec ==
    Spec /\ \A j \in Job : WF_vars(TaskStep(j) /\ (task[j].pc \in Unbounded => j \in cancelled))

-----------------------------------------------------------------------------
(* What the engine promises *)

\* The tables and the coroutines hold what their code can put there.
TypeOK ==
    /\ jobs \in [Job -> JobRecord \union {None}]
    /\ order \in Seq(Job)
    /\ task \in [Job -> TaskRecord]
    /\ stop \subseteq Job /\ cancelled \subseteq Job
    /\ bell \in [Job -> {"none", "silent", "rung"}]
    /\ disk \in [jobs : [Job -> JobRecord \union {None}], order : Seq(Job)]
    /\ up \in BOOLEAN /\ epoch \in Nat /\ unused \subseteq Job
    /\ ledger \in [ApprovalId -> Slip \union {None}]
    /\ consent \subseteq ApprovalId /\ spent \subseteq ApprovalId

\* A step that calls _execute_change for job j.
Submits(j) == task'[j].pc = "change" /\ task'[j] # task[j]

\* No change reaches the executor without an operator's confirmation of its own:
\* every call of _execute_change spends an approval that was confirmed and
\* that no earlier call spent, whatever replays, rejections, timeouts,
\* replanning and restarts came between.
OneShotApproval ==
    [][\A j \in Job : Submits(j) => task'[j].approval \in consent \ spent]_vars

\* What is executed is what was displayed: while the executor runs a change,
\* the confirmed request showed this job, this change at this index, and was
\* displayed by this process, not by one before a restart.
ConsentedSubmission ==
    \A j \in Job : task[j].pc = "change" =>
        LET t == task[j] IN
        /\ t.approval \in consent
        /\ ledger[t.approval] =
             [job |-> j, change |-> t.plan.changes[t.index],
              index |-> t.index, epoch |-> epoch]

\* Why approvals cannot be replayed: a receipt that says "confirmed", in memory
\* or in the job file, names an approval an operator confirmed; an approval a
\* coroutine waits on is issued, unspent and its own; a spent one was issued.
Honest(r) ==
    r # None /\ r.consumed # None /\ r.consumed.confirmed =>
        r.consumed.id \in consent

Awaits(j, a) == task[j].pc = "approval" /\ task[j].approval = a

ApprovalInv ==
    /\ \A j \in Job : Honest(jobs[j]) /\ Honest(disk.jobs[j])
    /\ \A j \in Job : task[j].pc = "approval" =>
           /\ task[j].approval \in ApprovalId \ spent
           /\ ledger[task[j].approval] # None
    /\ \A j, k \in Job : \A a \in ApprovalId :
           Awaits(j, a) /\ Awaits(k, a) => j = k
    /\ \A a \in spent : ledger[a] # None

\* What awaits a decision can be decided: a record in awaiting_approval shows
\* the change its coroutine is waiting on, under the id the coroutine will
\* compare, with an event to ring; a consumed one has woken the coroutine.
PendingIsLive ==
    \A j \in Job : Recorded(j) /\ jobs[j].status = "awaiting_approval" =>
        LET t == task[j] IN
        /\ t.pc = "approval" /\ bell[j] # "none"
        /\ jobs[j].pending =
             [id |-> t.approval, change |-> t.plan.changes[t.index],
              index |-> t.index, consumed |-> bell[j] = "rung"]
        /\ bell[j] = "rung" => j \in stop

\* A status tells the truth about its coroutine: in a running process no record
\* says the job goes on when OPS_JOB_TASKS has no task for it, and no record
\* says it ended while its coroutine can still act.
StatusTracksTask ==
    \A j \in Job : Recorded(j) /\ up =>
        /\ jobs[j].status \in Active => task[j].pc # "none"
        /\ Live(j) => jobs[j].status \in Active

\* Wherever the process dies, save between the two writes of a denied release
\* gate, the file (when its writes succeed) has an unfinished record of every
\* job whose coroutine runs, so that a restart takes the incident up again.
UnfinishedJobsSaved ==
    ~DiskMayFail /\ up =>
        \A j \in Job : Live(j) /\ Recorded(j) => Resumes(disk.jobs[j])

\* The protection threshold bounds coroutines, not just records: deletions,
\* polls, dead tasks and restarts never let more than OPS_MAX_CONCURRENT_JOBS
\* of them run (as long as no record is evicted).
ConcurrencyBound == Cardinality({j \in Job : Live(j)}) <= MaxConcurrent

\* A decision to stop holds until the coroutine is gone: from an accepted
\* cancel or rejection on, no step of this process submits a change of the
\* job or asks for another approval, and none withdraws the decision.
StopIsFinal ==
    [][\A j \in stop :
          /\ ~Submits(j)
          /\ task'[j].pc = "approval" => task'[j] = task[j]
          /\ j \in stop' \/ task'[j].pc = "none"]_vars

\* A final verdict is final, across crashes, restarts and failed writes: a job
\* the file shows as finished never runs again, and one that is neither in the
\* table nor in the file, deleted or evicted, never returns.
FinishedStaysFinished ==
    [][\A j \in Job :
          /\ disk.jobs[j] # None /\ disk.jobs[j].status \in Terminal =>
                /\ ~Live(j)'
                /\ disk'.jobs[j] # None =>
                      disk'.jobs[j].status = disk.jobs[j].status
          /\ j \notin unused /\ ~Recorded(j) /\ disk.jobs[j] = None =>
                ~Recorded(j)' /\ disk'.jobs[j] = None]_vars

\* A decision reaches its coroutine: after a confirmation, a rejection or a
\* cancel is accepted the coroutine leaves the approval it waited on.
DecisionsTakeEffect ==
    \A a \in ApprovalId, j \in Job :
        (/\ Awaits(j, a)
         /\ \/ j \in stop
            \/ /\ Recorded(j) /\ jobs[j].consumed # None
               /\ jobs[j].consumed.id = a)
            ~> ~Awaits(j, a)

\* An attempt always comes to rest: the coroutine ends, waits for an operator or
\* for the recheck timer, again and again, unless it stays at one rollback or
\* one read that is never answered; it never spins through strategies.
AttemptsEnd ==
    \A j \in Job :
        \/ []<>(task[j].pc \in {"none", "dead", "approval", "recheck"})
        \/ <>[](task[j].pc = "rollback") \/ <>[](task[j].pc \in Unbounded)
-----------------------------------------------------------------------------
(* The contract of ApprovalContract *)

\* The engine keeps the contract of its approvals.  A slip is usable while the
\* coroutine it was issued for waits on it and nobody stopped the job.
Waiting(a) ==
    \E j \in Job : Awaits(j, a) /\ j \notin stop

slip ==
    [a \in ApprovalId |->
        IF ledger[a] = None THEN "unissued"
        ELSE IF a \in spent THEN "spent"
        ELSE IF ~Waiting(a) THEN "void"
        ELSE IF a \in consent THEN "granted"
        ELSE "open"]

holder ==
    [a \in ApprovalId |-> IF ledger[a] = None THEN None ELSE ledger[a].job]

Contract == INSTANCE ApprovalContract WITH Nobody <- None

KeepsContract == Contract!Spec
=============================================================================
