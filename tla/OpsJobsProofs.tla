--------------------------- MODULE OpsJobsProofs ---------------------------
(***************************************************************************)
(* Theorems about OpsJobs for every set of jobs, changes, approvals and    *)
(* proposals and every value of the limits.                                *)
(*                                                                         *)
(* The coroutine takes few kinds of steps: it advances (it neither asks    *)
(* nor submits, and its record says "running" or what it said before),     *)
(* asks for an approval, submits, ends, or fails to start.  The lemmas     *)
(* about the helpers and the actions show which step is of which kind;     *)
(* NextShapes collects them, and every invariant is then proved once per   *)
(* kind and not once per action.                                           *)
(***************************************************************************)
EXTENDS OpsJobs, TLAPS

IInv == TypeOK /\ ApprovalInv

NoSubmission == \A j \in Job : ~Submits(j)

\* The coroutine neither waits for an approval nor executes; the record keeps
\* its receipt.
CalmGoto(j) ==
    \E t \in TaskRecord : t.pc \notin {"approval", "change"} /\ Goto(j, t)

CalmPut(j) ==
    \E r : /\ Recorded(j) => r \in JobRecord /\ r.consumed = jobs[j].consumed
           /\ Put(j, r)

\* The variables the coroutine's helpers leave alone.
Quiet == UNCHANGED <<up, epoch, unused, ledger, consent, spent>>

\* The coroutine can take a step of its own, and does not wait for an answer.
Runs(j) ==
    up /\ j \notin cancelled /\ task[j].pc \notin {"none", "dead", "approval"}

WorkGoto(j) ==
    \E t \in TaskRecord : /\ t.pc \notin {"none", "dead", "approval", "change"}
                          /\ Goto(j, t)

WorkPut(j) ==
    \E r : /\ Recorded(j) => /\ r \in JobRecord
                             /\ r.consumed = jobs[j].consumed
                             /\ r.status \in {"running", jobs[j].status}
           /\ Put(j, r)

(* The kinds of steps of a coroutine *)

Advances(j) ==
    Runs(j) /\ WorkGoto(j) /\ WorkPut(j) /\ Quiet /\ UNCHANGED wires

AsksNext(j) ==
    /\ Runs(j)
    /\ \E t \in TaskRecord : \E i \in 1 .. Len(t.plan.changes) :
         AskApproval(j, t, i)
    /\ UNCHANGED <<stop, cancelled, up, epoch, unused, consent, spent>>

Ends(j) ==
    /\ up /\ Live(j)
    /\ Goto(j, NoTask)
    /\ \E r : /\ Recorded(j) => /\ r \in JobRecord
                                /\ r.consumed = jobs[j].consumed
                                /\ r.status \in Terminal
              /\ Put(j, r)
    /\ stop' = stop \ {j} /\ cancelled' = cancelled \ {j}
    /\ bell' = [bell EXCEPT ![j] = "none"]
    /\ Quiet

-----------------------------------------------------------------------------
(* What the record constructors build *)

LEMMA FingerprintTyped ==
    ASSUME NEW p \in Strategy
    PROVE  Fingerprint(p) \in Fingerprints
  BY DEF Fingerprint, Fingerprints, Strategy, Range

LEMMA NewTaskTyped ==
    ASSUME NEW pc \in PC, NEW p \in Strategy, NEW tried \in SUBSET Fingerprints
    PROVE  NewTask(pc, p, tried) \in TaskRecord /\ NewTask(pc, p, tried).pc = pc
<1>1. Fingerprint(p) \in Fingerprints
  BY FingerprintTyped
<1>2. p.stage \in Stage
  BY DEF Strategy
<1> QED
  BY <1>1, <1>2 DEF NewTask, TaskRecord

LEMMA NoTaskTyped == NoTask \in TaskRecord /\ NoTask.pc = "none"
<1>1. Idle \in Strategy
  BY DEF Idle, Strategy, Stage
<1>2. "none" \in PC
  BY DEF PC
<1> QED
  BY <1>1, <1>2, NewTaskTyped DEF NoTask

LEMMA NewJobTyped ==
    ASSUME NEW p \in Strategy, NEW tried \in SUBSET Fingerprints
    PROVE  NewJob(p, tried) \in JobRecord /\ NewJob(p, tried).consumed = None
  BY DEF NewJob, JobRecord, Active

LEMMA RecordTyped ==
    ASSUME TypeOK, NEW j \in Job, Recorded(j)
    PROVE  jobs[j] \in JobRecord
  BY DEF TypeOK, Recorded

LEMMA TaskTyped ==
    ASSUME TypeOK, NEW j \in Job
    PROVE  task[j] \in TaskRecord
  BY DEF TypeOK

LEMMA ProbingTyped ==
    ASSUME NEW t \in TaskRecord
    PROVE  Probing(t) \in TaskRecord
<1> DEFINE q == t.plan
           n == t.cycle
           none == <<>>
           p == [q EXCEPT !.changes = none, !.probe = n]
<1>1. q \in Strategy /\ n \in Nat /\ none \in Seq(Change)
  BY DEF TaskRecord
<1>2. Probing(t) = [t EXCEPT !.plan = p]
  BY DEF Probing
<1> HIDE DEF q, n, none
<1>3. p \in Strategy
  BY <1>1 DEF Strategy
<1> HIDE DEF p
<1> QED
  BY <1>2, <1>3 DEF TaskRecord

LEMMA MergedTyped ==
    ASSUME NEW t \in TaskRecord, NEW p \in Strategy
    PROVE  Merged(t, p) \in TaskRecord
<1>1. t.origin \in Stage /\ p.stage \in Stage
  BY DEF TaskRecord, Strategy
<1> DEFINE q == [p EXCEPT !.stage = IF @ = "unset" THEN t.origin ELSE @]
<1>2. q \in Strategy
  BY <1>1 DEF Strategy
<1>3. Merged(t, p) = [t EXCEPT !.plan = q]
  BY DEF Merged
<1> HIDE DEF q
<1> QED
  BY <1>2, <1>3 DEF TaskRecord

LEMMA AttemptingTyped ==
    ASSUME NEW t \in TaskRecord
    PROVE  Attempting(t) \in TaskRecord /\ Attempting(t).pc = "evidence"
<1> DEFINE u == NewTask("evidence", t.plan, t.tried \union {Fingerprint(t.plan)})
<1>1. t.plan \in Strategy /\ t.tried \in SUBSET Fingerprints
  BY DEF TaskRecord
<1>2. "evidence" \in PC
  BY DEF PC
<1>3. t.tried \union {Fingerprint(t.plan)} \in SUBSET Fingerprints
  BY <1>1, FingerprintTyped
<1>4. u \in TaskRecord /\ u.pc = "evidence"
  BY <1>1, <1>2, <1>3, NewTaskTyped
<1>5. Attempting(t) = [u EXCEPT !.origin = t.origin, !.cycle = t.cycle]
  BY DEF Attempting
<1> HIDE DEF u
<1>6. t.origin \in Stage /\ t.cycle \in Nat
  BY DEF TaskRecord
<1> QED
  BY <1>4, <1>5, <1>6 DEF TaskRecord

LEMMA RestingTyped ==
    ASSUME NEW t \in TaskRecord
    PROVE  Resting(t) \in TaskRecord /\ Resting(t).pc = "recheck"
<1> DEFINE n == t.cycle + 1
<1>1. n \in Nat
  BY DEF TaskRecord
<1>2. Resting(t) = [t EXCEPT !.pc = "recheck", !.cycle = n]
  BY DEF Resting
<1> HIDE DEF n
<1> QED
  BY <1>1, <1>2 DEF TaskRecord, PC

LEMMA MovedTyped ==
    ASSUME NEW t \in TaskRecord, NEW pc \in PC
    PROVE  Moved(t, pc) \in TaskRecord /\ Moved(t, pc).pc = pc
  BY DEF Moved, TaskRecord

LEMMA SummingTyped ==
    ASSUME NEW t \in TaskRecord, NEW why \in {"recovered", "refused", "exhausted"}
    PROVE  Summing(t, why) \in TaskRecord /\ Summing(t, why).pc = "summary"
  BY DEF Summing, TaskRecord, PC

LEMMA BookedTyped ==
    ASSUME NEW t \in TaskRecord, NEW o \in Outcome, NEW took \in BOOLEAN
    PROVE  LET u == Booked(t, o, took) IN
           /\ u \in TaskRecord
           /\ u.plan = t.plan /\ u.index = t.index /\ u.pc = t.pc
<1> DEFINE results == Append(t.results, o)
           landed == IF took THEN t.landed \union {t.index} ELSE t.landed
<1>1. results \in Seq(Outcome) /\ landed \in SUBSET Nat
  BY DEF TaskRecord
<1>2. Booked(t, o, took) = [t EXCEPT !.results = results, !.landed = landed]
  BY DEF Booked
<1> HIDE DEF results, landed
<1> QED
  BY <1>1, <1>2 DEF TaskRecord

LEMMA ForgettingTyped ==
    ASSUME NEW t \in TaskRecord
    PROVE  Forgetting(t) \in TaskRecord
  BY DEF Forgetting, TaskRecord

LEMMA EvidenceTyped ==
    ASSUME NEW t \in TaskRecord, NEW s \in Seq(Change)
    PROVE  /\ Gated(t, s) \in TaskRecord /\ Gated(t, s).pc = "diagnose"
           /\ Replaced(t, s) \in TaskRecord /\ Replaced(t, s).pc = "diagnose"
<1>1. t.plan \in Strategy
  BY DEF TaskRecord
<1> DEFINE p == [t.plan EXCEPT !.changes = s]
<1>2. p \in Strategy
  BY <1>1 DEF Strategy
<1>3. /\ Gated(t, s) = [t EXCEPT !.pc = "diagnose", !.plan = p]
      /\ Replaced(t, s) = [t EXCEPT !.pc = "diagnose", !.plan = p,
                                    !.forced = TRUE]
  BY DEF Gated, Replaced, TaskRecord
<1> HIDE DEF p
<1> QED
  BY <1>2, <1>3 DEF TaskRecord, PC

LEMMA AsksTyped ==
    ASSUME NEW t \in TaskRecord, NEW i \in Nat, NEW a \in ApprovalId
    PROVE  LET u == Asks(t, i, a) IN
           u \in TaskRecord /\ u.pc = "approval" /\ u.approval = a
  BY DEF Asks, TaskRecord, PC

LEMMA EditsTyped ==
    ASSUME NEW r \in JobRecord
    PROVE  /\ \A status \in Active \union Terminal :
                LET q == WithStatus(r, status) IN
                /\ q \in JobRecord
                /\ q.consumed = r.consumed /\ q.status = status
           /\ LET q == TimedOut(r) IN
              /\ q \in JobRecord
              /\ q.consumed = r.consumed /\ q.status = "cancelled"
           /\ LET q == Submitted(r) IN
              /\ q \in JobRecord
              /\ q.consumed = r.consumed /\ q.status = "running"
<1>1. ASSUME NEW status \in Active \union Terminal
      PROVE  LET q == WithStatus(r, status) IN
             /\ q \in JobRecord
             /\ q.consumed = r.consumed /\ q.status = status
  BY DEF WithStatus, JobRecord
<1>2. LET q == TimedOut(r) IN
      /\ q \in JobRecord
      /\ q.consumed = r.consumed /\ q.status = "cancelled"
  BY DEF TimedOut, JobRecord, Terminal
<1>3. LET q == Submitted(r) IN
      /\ q \in JobRecord
      /\ q.consumed = r.consumed /\ q.status = "running"
  BY DEF Submitted, JobRecord, Active
<1> QED
  BY <1>1, <1>2, <1>3

LEMMA StartedTyped ==
    ASSUME NEW r \in JobRecord, NEW t \in TaskRecord
    PROVE  LET q == Started(r, t) IN
           /\ q \in JobRecord
           /\ q.consumed = r.consumed /\ q.status = "running"
<1> DEFINE p == t.plan
           tried == t.tried
<1>1. p \in Strategy /\ tried \in SUBSET Fingerprints
  BY DEF TaskRecord
<1>2. Started(r, t) = [r EXCEPT !.status = "running", !.plan = p, !.tried = tried]
  BY DEF Started
<1> HIDE DEF p, tried
<1> QED
  BY <1>1, <1>2 DEF JobRecord, Active

LEMMA AskingTyped ==
    ASSUME NEW r \in JobRecord, NEW c \in Change, NEW i \in Nat,
           NEW a \in ApprovalId
    PROVE  LET q == Asking(r, c, i, a) IN
           /\ q \in JobRecord
           /\ q.consumed = r.consumed /\ q.status = "awaiting_approval"
           /\ q.pending = [id |-> a, change |-> c, index |-> i,
                           consumed |-> FALSE]
<1> DEFINE q == [id |-> a, change |-> c, index |-> i, consumed |-> FALSE]
<1>1. q \in Pending
  BY DEF Pending
<1>2. Asking(r, c, i, a) = [r EXCEPT !.status = "awaiting_approval", !.pending = q]
  BY DEF Asking
<1> HIDE DEF q
<1>3. /\ Asking(r, c, i, a) \in JobRecord
      /\ Asking(r, c, i, a).consumed = r.consumed
      /\ Asking(r, c, i, a).status = "awaiting_approval"
      /\ Asking(r, c, i, a).pending = q
  BY <1>1, <1>2 DEF JobRecord, Active
<1> QED
  BY <1>3 DEF q

-----------------------------------------------------------------------------
(* Helpers of the coroutine that let it advance *)

LEMMA EmitWorks ==
    ASSUME TypeOK, NEW j \in Job, Emit(j)
    PROVE  WorkPut(j)
  BY RecordTyped DEF Emit, WorkPut

LEMMA RunningWorks ==
    ASSUME TypeOK, NEW j \in Job, Put(j, WithStatus(jobs[j], "running"))
    PROVE  WorkPut(j)
<1>1. "running" \in Active \union Terminal
  BY DEF Active
<1>2. Recorded(j) => LET q == WithStatus(jobs[j], "running") IN
                     /\ q \in JobRecord
                     /\ q.consumed = jobs[j].consumed /\ q.status = "running"
  BY <1>1, RecordTyped, EditsTyped
<1> QED
  BY <1>2 DEF WorkPut

LEMMA StartedWorks ==
    ASSUME TypeOK, NEW j \in Job, NEW t \in TaskRecord,
           Put(j, Started(jobs[j], t))
    PROVE  WorkPut(j)
  BY RecordTyped, StartedTyped DEF WorkPut

LEMMA MovedWorks ==
    ASSUME NEW j \in Job, NEW t \in TaskRecord,
           NEW pc \in PC \ {"none", "dead", "approval", "change"},
           Goto(j, Moved(t, pc))
    PROVE  WorkGoto(j)
  BY MovedTyped DEF WorkGoto

LEMMA SummingWorks ==
    ASSUME NEW j \in Job, NEW t \in TaskRecord,
           NEW why \in {"recovered", "refused", "exhausted"},
           Goto(j, Summing(t, why))
    PROVE  WorkGoto(j)
<1>1. Summing(t, why).pc \notin {"none", "dead", "approval", "change"}
  BY SummingTyped
<1> QED
  BY <1>1, SummingTyped DEF WorkGoto

LEMMA RestWorks ==
    ASSUME TypeOK, NEW j \in Job, NEW t \in TaskRecord, Rest(j, t)
    PROVE  WorkGoto(j) /\ WorkPut(j)
<1>1. WorkGoto(j)
  BY RestingTyped DEF Rest, WorkGoto
<1>2. WorkPut(j)
  BY RunningWorks DEF Rest
<1> QED
  BY <1>1, <1>2

LEMMA BeginAttemptWorks ==
    ASSUME TypeOK, NEW j \in Job, NEW t \in TaskRecord, BeginAttempt(j, t)
    PROVE  WorkGoto(j) /\ WorkPut(j)
<1>1. \/ Rest(j, t)
      \/ Goto(j, Attempting(t)) /\ Put(j, Started(jobs[j], t))
      \/ Goto(j, Resting(t)) /\ Put(j, Started(jobs[j], t))
  BY DEF BeginAttempt
<1>2. CASE Rest(j, t)
  BY <1>2, RestWorks
<1>3. CASE Goto(j, Attempting(t)) /\ Put(j, Started(jobs[j], t))
  BY <1>3, AttemptingTyped, StartedWorks DEF WorkGoto
<1>4. CASE Goto(j, Resting(t)) /\ Put(j, Started(jobs[j], t))
  BY <1>4, RestingTyped, StartedWorks DEF WorkGoto
<1> QED
  BY <1>1, <1>2, <1>3, <1>4

LEMMA ConcludeWorks ==
    ASSUME TypeOK, NEW j \in Job, NEW t \in TaskRecord, Conclude(j, t)
    PROVE  WorkGoto(j) /\ WorkPut(j)
<1>1. CASE \E p \in Proposal : BeginAttempt(j, Merged(t, p))
  <2>1. PICK p \in Proposal : BeginAttempt(j, Merged(t, p))
    BY <1>1
  <2>2. Merged(t, p) \in TaskRecord
    BY ProposalAssumption, MergedTyped
  <2> QED
    BY <2>1, <2>2, BeginAttemptWorks
<1>2. CASE Goto(j, Summing(t, "exhausted")) /\ Emit(j)
  BY <1>2, SummingWorks, EmitWorks
<1>3. CASE Rest(j, t)
  BY <1>3, RestWorks
<1> QED
  BY <1>1, <1>2, <1>3 DEF Conclude

LEMMA ClassifyWorks ==
    ASSUME TypeOK, NEW j \in Job, NEW t \in TaskRecord, Classify(j, t)
    PROVE  WorkGoto(j) /\ WorkPut(j)
<1>1. CASE Goto(j, Summing(t, "refused")) /\ Emit(j)
  BY <1>1, SummingWorks, EmitWorks
<1>2. CASE Conclude(j, t)
  BY <1>2, ConcludeWorks
<1> QED
  BY <1>1, <1>2 DEF Classify

LEMMA RecoveredWorks ==
    ASSUME TypeOK, NEW j \in Job, NEW t \in TaskRecord, Recovered(j, t)
    PROVE  WorkGoto(j) /\ WorkPut(j)
  BY SummingWorks, EmitWorks DEF Recovered

LEMMA FinishEnds ==
    ASSUME TypeOK, NEW j \in Job, NEW status \in Terminal, up, Live(j),
           Finish(j, status), Quiet
    PROVE  Ends(j)
<1>1. Recorded(j) => LET q == WithStatus(jobs[j], status) IN
                     /\ q \in JobRecord
                     /\ q.consumed = jobs[j].consumed /\ q.status = status
  BY RecordTyped, EditsTyped
<1> QED
  BY <1>1 DEF Finish, Ends

LEMMA WorkIsCalm ==
    ASSUME NEW j \in Job
    PROVE  (WorkGoto(j) => CalmGoto(j)) /\ (WorkPut(j) => CalmPut(j))
  BY DEF WorkGoto, WorkPut, CalmGoto, CalmPut

-----------------------------------------------------------------------------
(* What steps preserve *)

\* The wires keep their types.
WiresTyped ==
    /\ stop' \subseteq Job /\ cancelled' \subseteq Job
    /\ bell' \in [Job -> {"none", "silent", "rung"}]

LEMMA PutPreserves ==
    ASSUME IInv, NEW j \in Job, CalmPut(j) \/ UNCHANGED store
    PROVE  /\ jobs' \in [Job -> JobRecord \union {None}]
           /\ order' \in Seq(Job)
           /\ disk' \in [jobs : [Job -> JobRecord \union {None}], order : Seq(Job)]
           /\ \A k \in Job : Honest(jobs'[k]) /\ Honest(disk'.jobs[k])
<1>1. /\ jobs \in [Job -> JobRecord \union {None}]
      /\ order \in Seq(Job)
      /\ disk \in [jobs : [Job -> JobRecord \union {None}], order : Seq(Job)]
      /\ \A k \in Job : Honest(jobs[k]) /\ Honest(disk.jobs[k])
  BY DEF IInv, TypeOK, ApprovalInv
<1>2. CASE UNCHANGED store
  BY <1>1, <1>2 DEF store
<1>3. CASE CalmPut(j)
  <2>1. PICK r : /\ Recorded(j) => r \in JobRecord /\ r.consumed = jobs[j].consumed
                 /\ Put(j, r)
    BY <1>3 DEF CalmPut
  <2>2. order' = order
    BY <2>1 DEF Put
  <2>3. jobs' \in [Job -> JobRecord \union {None}]
    BY <1>1, <2>1 DEF Put
  <2>4. ASSUME NEW k \in Job PROVE Honest(jobs'[k])
    <3>1. CASE k = j /\ Recorded(j)
      <4>1. jobs'[k] = r
        BY <1>1, <2>1, <3>1 DEF Put
      <4>2. Honest(r)
        BY <1>1, <2>1, <3>1 DEF Honest, Recorded
      <4> QED
        BY <4>1, <4>2
    <3>2. CASE ~(k = j /\ Recorded(j))
      <4>1. jobs'[k] = jobs[k]
        BY <1>1, <2>1, <3>2 DEF Put
      <4> QED
        BY <1>1, <4>1
    <3> QED
      BY <3>1, <3>2
  <2>5. disk' = [jobs |-> jobs', order |-> order] \/ disk' = disk
    BY <2>1 DEF Put, Persist
  <2> QED
    BY <1>1, <2>2, <2>3, <2>4, <2>5
<1> QED
  BY <1>2, <1>3

LEMMA GotoPreserves ==
    ASSUME IInv, NEW j \in Job, CalmGoto(j) \/ UNCHANGED task
    PROVE  /\ task' \in [Job -> TaskRecord]
           /\ NoSubmission
           /\ \A k \in Job : task'[k].pc = "approval" => task'[k] = task[k]
<1>1. task \in [Job -> TaskRecord]
  BY DEF IInv, TypeOK
<1>2. CASE UNCHANGED task
  BY <1>1, <1>2 DEF NoSubmission, Submits
<1>3. CASE CalmGoto(j)
  <2>1. PICK t \in TaskRecord : /\ t.pc \notin {"approval", "change"}
                                /\ Goto(j, t)
    BY <1>3 DEF CalmGoto
  <2>2. task' = [task EXCEPT ![j] = t]
    BY <2>1 DEF Goto
  <2>3. \A k \in Job : task'[k] = task[k] \/ task'[k] = t
    BY <1>1, <2>2
  <2> QED
    BY <1>1, <2>1, <2>2, <2>3 DEF NoSubmission, Submits
<1> QED
  BY <1>2, <1>3

\* Nobody starts to wait: what is asked of the waiting coroutines persists.
LEMMA NobodyAsks ==
    ASSUME IInv, UNCHANGED <<ledger, spent>>,
           \A k \in Job : task'[k].pc = "approval" => task'[k] = task[k]
    PROVE  /\ \A k \in Job : task'[k].pc = "approval" =>
                /\ task'[k].approval \in ApprovalId \ spent'
                /\ ledger'[task'[k].approval] # None
           /\ \A k, l \in Job : \A a \in ApprovalId :
                Awaits(k, a)' /\ Awaits(l, a)' => k = l
           /\ \A a \in spent' : ledger'[a] # None
  BY DEF IInv, ApprovalInv, Awaits

LEMMA CalmStep ==
    ASSUME IInv, NEW j \in Job, Quiet, WiresTyped,
           CalmPut(j) \/ UNCHANGED store,
           CalmGoto(j) \/ UNCHANGED task
    PROVE  IInv' /\ NoSubmission
<1>1. /\ jobs' \in [Job -> JobRecord \union {None}]
      /\ order' \in Seq(Job)
      /\ disk' \in [jobs : [Job -> JobRecord \union {None}], order : Seq(Job)]
      /\ \A k \in Job : Honest(jobs'[k]) /\ Honest(disk'.jobs[k])
  BY PutPreserves
<1>2. /\ task' \in [Job -> TaskRecord]
      /\ NoSubmission
      /\ \A k \in Job : task'[k].pc = "approval" => task'[k] = task[k]
  BY GotoPreserves
<1>3. TypeOK'
  BY <1>1, <1>2 DEF IInv, TypeOK, Quiet, WiresTyped
<1>4. \A k \in Job : Honest(jobs[k])' /\ Honest(disk.jobs[k])'
  BY <1>1 DEF Honest, Quiet
<1>5. ApprovalInv'
  BY <1>2, <1>4, NobodyAsks DEF ApprovalInv, Quiet
<1> QED
  BY <1>2, <1>3, <1>5 DEF IInv

\* A file write puts one record at most, and the file follows the table.
LEMMA PutEffect ==
    ASSUME TypeOK, NEW j \in Job, NEW r, Put(j, r),
           Recorded(j) => r \in JobRecord
    PROVE  /\ jobs' \in [Job -> JobRecord \union {None}]
           /\ order' \in Seq(Job)
           /\ disk' \in [jobs : [Job -> JobRecord \union {None}], order : Seq(Job)]
           /\ \A k \in Job : \/ jobs'[k] = jobs[k]
                             \/ k = j /\ Recorded(j) /\ jobs'[k] = r
           /\ disk'.jobs = jobs' \/ disk'.jobs = disk.jobs
<1>1. /\ jobs \in [Job -> JobRecord \union {None}]
      /\ order \in Seq(Job)
      /\ disk \in [jobs : [Job -> JobRecord \union {None}], order : Seq(Job)]
  BY DEF TypeOK
<1>2. order' = order
  BY DEF Put
<1>3. /\ jobs' \in [Job -> JobRecord \union {None}]
      /\ \A k \in Job : \/ jobs'[k] = jobs[k]
                        \/ k = j /\ Recorded(j) /\ jobs'[k] = r
  BY <1>1 DEF Put
<1>4. disk' = [jobs |-> jobs', order |-> order] \/ disk' = disk
  BY DEF Put, Persist
<1> QED
  BY <1>1, <1>2, <1>3, <1>4

LEMMA ConsumedTyped ==
    ASSUME NEW r \in JobRecord, r.pending # None, NEW a \in ApprovalId,
           NEW confirm \in BOOLEAN
    PROVE  LET q == Consumed(r, a, confirm) IN
           /\ q \in JobRecord
           /\ q.consumed # None => /\ q.consumed.id = a
                                   /\ q.consumed.confirmed = confirm
<1>1. r.pending \in Pending
  BY DEF JobRecord
<1> DEFINE pending == [r.pending EXCEPT !.consumed = TRUE]
           receipt == [id |-> a, change |-> r.pending.change,
                       index |-> r.pending.index, confirmed |-> confirm]
           index == IF confirm THEN r.pending.index ELSE 0
           status == IF confirm THEN "running" ELSE r.status
<1>2. /\ pending \in Pending /\ receipt \in Receipt
      /\ receipt.id = a /\ receipt.confirmed = confirm
  BY <1>1 DEF Pending, Receipt
<1>3. index \in Nat /\ status \in Active \union Terminal
  BY <1>1 DEF Pending, Active, JobRecord
<1>4. Consumed(r, a, confirm) = [r EXCEPT !.pending = pending,
                                         !.consumed = receipt,
                                         !.approvedIndex = index,
                                         !.status = status]
  BY DEF Consumed
<1> HIDE DEF pending, receipt, index, status
<1> QED
  BY <1>2, <1>3, <1>4 DEF JobRecord

\* The step that asks for an approval: the id is fresh, so it is nobody else's.
LEMMA AskStep ==
    ASSUME IInv, NEW j \in Job, NEW t \in TaskRecord,
           NEW i \in 1 .. Len(t.plan.changes), AskApproval(j, t, i),
           UNCHANGED <<stop, cancelled, up, epoch, unused, consent, spent>>
    PROVE  IInv' /\ NoSubmission
<1> DEFINE c == t.plan.changes[i]
<1>1. c \in Change /\ i \in Nat /\ epoch \in Nat
  BY DEF TaskRecord, Strategy, IInv, TypeOK
<1>2. PICK a \in ApprovalId :
        /\ ledger[a] = None
        /\ ledger' = [ledger EXCEPT ![a] = [job |-> j, change |-> c, index |-> i,
                                            epoch |-> epoch]]
        /\ bell' = [bell EXCEPT ![j] = "silent"]
        /\ Goto(j, Asks(t, i, a))
        /\ Put(j, Asking(jobs[j], c, i, a))
  BY DEF AskApproval
<1> HIDE DEF c
<1> DEFINE u == Asks(t, i, a)
           slipOf == [job |-> j, change |-> c, index |-> i, epoch |-> epoch]
<1>3. u \in TaskRecord /\ u.pc = "approval" /\ u.approval = a
  BY <1>1, AsksTyped
<1>4. slipOf \in Slip /\ slipOf # None
  BY <1>1, NoneAssumption DEF Slip
<1>5. CalmPut(j)
  BY <1>1, <1>2, AskingTyped, RecordTyped DEF CalmPut, IInv
<1>6. /\ jobs' \in [Job -> JobRecord \union {None}]
      /\ order' \in Seq(Job)
      /\ disk' \in [jobs : [Job -> JobRecord \union {None}], order : Seq(Job)]
      /\ \A k \in Job : Honest(jobs'[k]) /\ Honest(disk'.jobs[k])
  BY <1>5, PutPreserves
<1> HIDE DEF u
<1>7. /\ task \in [Job -> TaskRecord]
      /\ task' = [task EXCEPT ![j] = u]
  BY <1>2 DEF Goto, IInv, TypeOK, u
<1>8. /\ ledger \in [ApprovalId -> Slip \union {None}]
      /\ ledger' = [ledger EXCEPT ![a] = slipOf]
      /\ ledger' \in [ApprovalId -> Slip \union {None}]
  BY <1>2, <1>4 DEF IInv, TypeOK
<1> HIDE DEF slipOf
<1>9. TypeOK'
  BY <1>2, <1>3, <1>6, <1>7, <1>8 DEF IInv, TypeOK
<1>10. NoSubmission
  BY <1>3, <1>7 DEF NoSubmission, Submits
<1>11. a \notin spent
  BY <1>2 DEF IInv, ApprovalInv
<1>12. \A k \in Job : task'[k].pc = "approval" =>
          \/ k = j /\ task'[k].approval = a
          \/ k # j /\ task'[k] = task[k] /\ task[k].approval # a
  BY <1>2, <1>3, <1>7 DEF IInv, ApprovalInv
<1>13. \A b \in ApprovalId : ledger[b] # None \/ b = a => ledger'[b] # None
  BY <1>4, <1>8
<1>14. \A k \in Job : task'[k].pc = "approval" =>
          /\ task'[k].approval \in ApprovalId \ spent'
          /\ ledger'[task'[k].approval] # None
  BY <1>11, <1>12, <1>13 DEF IInv, ApprovalInv
<1>15. \A k, l \in Job : \A b \in ApprovalId :
          Awaits(k, b)' /\ Awaits(l, b)' => k = l
  BY <1>12 DEF Awaits, IInv, ApprovalInv
<1>16. \A b \in spent' : ledger'[b] # None
  BY <1>13 DEF IInv, ApprovalInv, TypeOK
<1>17. \A k \in Job : Honest(jobs[k])' /\ Honest(disk.jobs[k])'
  BY <1>6 DEF Honest
<1> QED
  BY <1>9, <1>10, <1>14, <1>15, <1>16, <1>17 DEF IInv, ApprovalInv

-----------------------------------------------------------------------------
(* Which step of the coroutine is of which kind *)

LEMMA StartAdvances ==
    ASSUME TypeOK, NEW j \in Job, Start(j)
    PROVE  Advances(j)
<1>1. WorkGoto(j) /\ WorkPut(j)
  BY TaskTyped, BeginAttemptWorks DEF Start
<1> QED
  BY <1>1 DEF Start, At, Advances, Runs, Quiet, history

LEMMA EvidenceAdvances ==
    ASSUME TypeOK, NEW j \in Job, EvidenceArrives(j)
    PROVE  Advances(j)
<1> DEFINE t == task[j]
<1>1. t \in TaskRecord /\ t.plan.changes \in Seq(Change)
  BY TaskTyped DEF TaskRecord, Strategy
<1>2. ASSUME \E kept \in Subsequences(t.plan.changes) : Goto(j, Gated(t, kept))
      PROVE  WorkGoto(j)
  <2>1. PICK kept \in Subsequences(t.plan.changes) : Goto(j, Gated(t, kept))
    BY <1>2
  <2>2. PICK n \in 0 .. Len(t.plan.changes) : kept \in [1 .. n -> Range(t.plan.changes)]
    BY DEF Subsequences
  <2>3. Range(t.plan.changes) \subseteq Change
    BY <1>1 DEF Range
  <2>4. n \in Nat
    BY <1>1
  <2>5. kept \in Seq(Change)
    BY <2>2, <2>3, <2>4
  <2> QED
    BY <1>1, <2>1, <2>5, EvidenceTyped DEF WorkGoto
<1>3. ASSUME \E p \in Proposal : Goto(j, Replaced(t, p.changes))
      PROVE  WorkGoto(j)
  <2>1. PICK p \in Proposal : Goto(j, Replaced(t, p.changes))
    BY <1>3
  <2>2. p.changes \in Seq(Change)
    BY ProposalAssumption DEF Strategy
  <2> QED
    BY <1>1, <2>1, <2>2, EvidenceTyped DEF WorkGoto
<1>4. WorkGoto(j)
  BY <1>2, <1>3 DEF EvidenceArrives
<1>5. WorkPut(j)
  BY EmitWorks DEF EvidenceArrives
<1> QED
  BY <1>4, <1>5 DEF EvidenceArrives, At, Advances, Runs, Quiet, history

LEMMA DiagnosisKind ==
    ASSUME TypeOK, NEW j \in Job, DiagnosisEnds(j)
    PROVE  Advances(j) \/ AsksNext(j)
<1> DEFINE t == task[j]
<1>1. t \in TaskRecord /\ t.plan.changes \in Seq(Change)
  BY TaskTyped DEF TaskRecord, Strategy
<1>2. Runs(j) /\ UNCHANGED <<stop, cancelled, up, epoch, unused, consent, spent>>
  BY DEF DiagnosisEnds, At, Runs
<1>3. CASE Conclude(j, t) /\ UNCHANGED <<bell, ledger>>
  BY <1>1, <1>2, <1>3, ConcludeWorks DEF Advances, Quiet, wires
<1>4. CASE t.plan.changes # <<>> /\ AskApproval(j, t, 1)
  <2>1. 1 \in 1 .. Len(t.plan.changes)
    BY <1>1, <1>4
  <2> QED
    BY <1>1, <1>2, <1>4, <2>1 DEF AsksNext
<1>5. CASE Goto(j, Moved(t, "probe")) /\ Emit(j) /\ UNCHANGED <<bell, ledger>>
  <2>1. "probe" \in PC \ {"none", "dead", "approval", "change"}
    BY DEF PC
  <2>2. WorkGoto(j) /\ WorkPut(j)
    BY <1>1, <1>5, <2>1, MovedWorks, EmitWorks
  <2> QED
    BY <1>2, <1>5, <2>2 DEF Advances, Quiet, wires
<1> QED
  BY <1>3, <1>4, <1>5 DEF DiagnosisEnds

LEMMA ChangeKind ==
    ASSUME TypeOK, NEW j \in Job, ChangeReturns(j)
    PROVE  Advances(j) \/ AsksNext(j)
<1>1. task[j] \in TaskRecord
  BY TaskTyped
<1>2. PICK o \in Outcome, took \in BOOLEAN :
        LET t == Booked(task[j], o, took) IN
        \/ /\ t.index < Len(t.plan.changes)
           /\ AskApproval(j, t, t.index + 1)
        \/ /\ Goto(j, Moved(t, "verify")) /\ Emit(j)
           /\ UNCHANGED <<bell, ledger>>
  BY DEF ChangeReturns
<1> DEFINE t == Booked(task[j], o, took)
<1>3. t \in TaskRecord
  BY <1>1, BookedTyped
<1>4. Runs(j) /\ UNCHANGED <<stop, cancelled, up, epoch, unused, consent, spent>>
  BY DEF ChangeReturns, At, Runs
<1> HIDE DEF t
<1>5. CASE t.index < Len(t.plan.changes) /\ AskApproval(j, t, t.index + 1)
  <2>1. t.index \in Nat /\ Len(t.plan.changes) \in Nat
    BY <1>3 DEF TaskRecord, Strategy
  <2>2. t.index + 1 \in 1 .. Len(t.plan.changes)
    BY <1>5, <2>1
  <2> QED
    BY <1>3, <1>4, <1>5, <2>2 DEF AsksNext
<1>6. CASE Goto(j, Moved(t, "verify")) /\ Emit(j) /\ UNCHANGED <<bell, ledger>>
  <2>1. "verify" \in PC \ {"none", "dead", "approval", "change"}
    BY DEF PC
  <2>2. WorkGoto(j) /\ WorkPut(j)
    BY <1>3, <1>6, <2>1, MovedWorks, EmitWorks
  <2> QED
    BY <1>4, <1>6, <2>2 DEF Advances, Quiet, wires
<1> QED
  BY <1>2, <1>5, <1>6 DEF t

LEMMA VerifyAdvances ==
    ASSUME TypeOK, NEW j \in Job, VerifyReturns(j)
    PROVE  Advances(j)
<1> DEFINE t == task[j]
<1>1. t \in TaskRecord
  BY TaskTyped
<1>2. {"rollback", "replan"} \subseteq PC \ {"none", "dead", "approval", "change"}
  BY DEF PC
<1>3. ASSUME \/ Goto(j, Moved(t, "rollback")) /\ Emit(j)
             \/ Goto(j, Moved(t, "replan")) /\ Emit(j)
      PROVE  WorkGoto(j) /\ WorkPut(j)
  BY <1>1, <1>2, <1>3, MovedWorks, EmitWorks
<1>4. WorkGoto(j) /\ WorkPut(j)
  BY <1>1, <1>3, RecoveredWorks, ClassifyWorks DEF VerifyReturns
<1> QED
  BY <1>4 DEF VerifyReturns, At, Advances, Runs, Quiet, history

LEMMA RollbackAdvances ==
    ASSUME TypeOK, NEW j \in Job, RollbackReturns(j)
    PROVE  Advances(j)
<1>1. task[j] \in TaskRecord
  BY TaskTyped
<1>2. "replan" \in PC \ {"none", "dead", "approval", "change"}
  BY DEF PC
<1>3. PICK o \in Outcome :
        \/ Recovered(j, Booked(task[j], o, FALSE))
        \/ Goto(j, Moved(Booked(task[j], o, FALSE), "replan")) /\ Emit(j)
  BY DEF RollbackReturns
<1>4. Booked(task[j], o, FALSE) \in TaskRecord
  BY <1>1, BookedTyped
<1>5. WorkGoto(j) /\ WorkPut(j)
  BY <1>2, <1>3, <1>4, RecoveredWorks, MovedWorks, EmitWorks
<1> QED
  BY <1>5 DEF RollbackReturns, At, Advances, Runs, Quiet, history

LEMMA ProbeAdvances ==
    ASSUME TypeOK, NEW j \in Job, ProbeReturns(j)
    PROVE  Advances(j)
<1>1. task[j] \in TaskRecord
  BY TaskTyped
<1>2. "replan" \in PC \ {"none", "dead", "approval", "change"}
  BY DEF PC
<1>3. WorkGoto(j) /\ WorkPut(j)
  BY <1>1, <1>2, RecoveredWorks, MovedWorks, EmitWorks DEF ProbeReturns
<1> QED
  BY <1>3 DEF ProbeReturns, At, Advances, Runs, Quiet, history

LEMMA ReplanAdvances ==
    ASSUME TypeOK, NEW j \in Job, ReplanReturns(j)
    PROVE  Advances(j)
<1>1. WorkGoto(j) /\ WorkPut(j)
  BY TaskTyped, ClassifyWorks DEF ReplanReturns
<1> QED
  BY <1>1 DEF ReplanReturns, At, Advances, Runs, Quiet, history

LEMMA SummaryKind ==
    ASSUME TypeOK, NEW j \in Job, SummaryReturns(j)
    PROVE  Advances(j) \/ Ends(j)
<1> DEFINE t == task[j]
<1>1. t \in TaskRecord /\ Forgetting(t) \in TaskRecord
  BY TaskTyped, ForgettingTyped
<1>2. Quiet /\ Runs(j) /\ up /\ Live(j)
  BY DEF SummaryReturns, At, Quiet, history, Runs, Live
<1>3. CASE Finish(j, "completed")
  <2>1. "completed" \in Terminal
    BY DEF Terminal
  <2> QED
    BY <1>2, <1>3, <2>1, FinishEnds
<1>4. CASE (Rest(j, Forgetting(t)) \/ Rest(j, t)) /\ UNCHANGED wires
  BY <1>1, <1>2, <1>4, RestWorks DEF Advances
<1> QED
  BY <1>3, <1>4 DEF SummaryReturns

LEMMA RecheckAdvances ==
    ASSUME TypeOK, NEW j \in Job, RecheckDue(j)
    PROVE  Advances(j)
<1>1. WorkGoto(j) /\ WorkPut(j)
  BY TaskTyped, ProbingTyped, BeginAttemptWorks DEF RecheckDue
<1> QED
  BY <1>1 DEF RecheckDue, At, Advances, Runs, Quiet, history

\* The ways a coroutine ends early.
LEMMA EarlyEnds ==
    ASSUME TypeOK, NEW j \in Job,
           \/ AbandonChange(j) \/ CancelledError(j) \/ TaskRaises(j)
           \/ ApprovalExpires(j)
    PROVE  Ends(j)
<1>1. {"cancelled", "failed"} \subseteq Terminal
  BY DEF Terminal
<1>2. Quiet
  BY DEF AbandonChange, CancelledError, TaskRaises, ApprovalExpires,
         Quiet, history
<1>3. up /\ Live(j)
  BY DEF AbandonChange, CancelledError, TaskRaises, ApprovalExpires, At, Live
<1>4. CASE Finish(j, "cancelled") \/ Finish(j, "failed")
  BY <1>1, <1>2, <1>3, <1>4, FinishEnds
<1>5. CASE ApprovalExpires(j)
  <2>1. Recorded(j) => LET q == TimedOut(jobs[j]) IN
                       /\ q \in JobRecord
                       /\ q.consumed = jobs[j].consumed /\ q.status = "cancelled"
    BY RecordTyped, EditsTyped
  <2>2. /\ Put(j, TimedOut(jobs[j])) /\ Goto(j, NoTask)
        /\ stop' = stop \ {j} /\ bell' = [bell EXCEPT ![j] = "none"]
    BY <1>5 DEF ApprovalExpires
  <2>3. cancelled' = cancelled \ {j}
    BY <1>5 DEF ApprovalExpires, At
  <2> QED
    BY <1>1, <1>2, <1>3, <2>1, <2>2, <2>3 DEF Ends
<1> QED
  BY <1>4, <1>5 DEF AbandonChange, CancelledError, TaskRaises

\* Every step is of one of these kinds.
Shape(j) ==
    \/ Advances(j) \/ AsksNext(j) \/ SubmitChange(j) \/ Ends(j) \/ StartFails(j)
    \/ Enqueue(j) \/ ApproveStep(j) \/ RejectStep(j)
    \/ CancelJob(j) \/ PollJob(j) \/ DeleteRecord(j)
    \/ CrashInReleaseGate(j)

LEMMA NextShapes ==
    ASSUME TypeOK, Next
    PROVE  (\E j \in Job : Shape(j)) \/ Crash \/ Restart
<1>1. ASSUME NEW j \in Job, TaskStep(j)
      PROVE  Shape(j)
  <2>1. CASE Start(j) \/ EvidenceArrives(j) \/ DiagnosisEnds(j) \/ ChangeReturns(j)
    BY <2>1, StartAdvances, EvidenceAdvances, DiagnosisKind, ChangeKind DEF Shape
  <2>2. CASE VerifyReturns(j) \/ ProbeReturns(j) \/ ReplanReturns(j)
    BY <2>2, VerifyAdvances, ProbeAdvances, ReplanAdvances DEF Shape
  <2>3. CASE SummaryReturns(j) \/ RecheckDue(j)
    BY <2>3, SummaryKind, RecheckAdvances DEF Shape
  <2>4. CASE AbandonChange(j) \/ CancelledError(j) \/ SubmitChange(j)
    BY <2>4, EarlyEnds DEF Shape
  <2> QED
    BY <1>1, <2>1, <2>2, <2>3, <2>4 DEF TaskStep
<1>2. ASSUME NEW j \in Job, Untimely(j)
      PROVE  Shape(j)
  BY <1>2, RollbackAdvances, EarlyEnds DEF Untimely, Shape
<1>3. ASSUME NEW j \in Job, Request(j) \/ CrashInReleaseGate(j)
      PROVE  Shape(j)
  BY <1>3 DEF Request, Shape
<1> QED
  BY <1>1, <1>2, <1>3 DEF Next

-----------------------------------------------------------------------------
(* The coroutine keeps the invariant *)

LEMMA AdvanceStep ==
    ASSUME IInv, NEW j \in Job, Advances(j)
    PROVE  IInv' /\ NoSubmission
<1>1. WiresTyped
  BY DEF IInv, TypeOK, Advances, wires, WiresTyped
<1> QED
  BY <1>1, WorkIsCalm, CalmStep DEF Advances

LEMMA EndStep ==
    ASSUME IInv, NEW j \in Job, Ends(j) \/ StartFails(j)
    PROVE  IInv' /\ NoSubmission
<1>1. TypeOK /\ task[j] \in TaskRecord
  BY TaskTyped DEF IInv
<1>2. CASE Ends(j)
  <2>1. CalmPut(j) /\ CalmGoto(j)
    BY <1>2, NoTaskTyped DEF Ends, CalmPut, CalmGoto
  <2>2. WiresTyped
    BY <1>1, <1>2 DEF TypeOK, Ends, WiresTyped
  <2> QED
    BY <1>2, <2>1, <2>2, CalmStep DEF Ends
<1>3. CASE StartFails(j)
  <2>1. "dead" \in PC \ {"approval", "change"}
    BY DEF PC
  <2>2. CalmGoto(j)
    BY <1>1, <1>3, <2>1, MovedTyped DEF StartFails, CalmGoto
  <2>3. UNCHANGED store /\ WiresTyped /\ Quiet
    BY <1>1, <1>3 DEF TypeOK, StartFails, wires, WiresTyped, Quiet, history
  <2> QED
    BY <2>2, <2>3, CalmStep
<1> QED
  BY <1>2, <1>3

\* The one step that calls the executor.
LEMMA SubmitStep ==
    ASSUME IInv, NEW j \in Job, SubmitChange(j)
    PROVE  /\ IInv'
           /\ \A k \in Job : Submits(k) => task'[k].approval \in consent \ spent
<1> DEFINE t == task[j]
           a == t.approval
           u == Moved(t, "change")
<1>1. /\ TypeOK /\ task \in [Job -> TaskRecord] /\ t \in TaskRecord
      /\ t.pc = "approval"
  BY TaskTyped DEF IInv, TypeOK, SubmitChange, At
<1>2. a \in ApprovalId \ spent /\ ledger[a] # None
  BY <1>1 DEF IInv, ApprovalInv
<1>3. a \in consent
  <2>1. Honest(jobs[j])
    BY DEF IInv, ApprovalInv
  <2>2. /\ jobs[j] # None /\ jobs[j].consumed # None
        /\ jobs[j].consumed.confirmed /\ jobs[j].consumed.id = a
    BY DEF SubmitChange, Approved, Recorded
  <2> QED
    BY <2>1, <2>2 DEF Honest
<1>4. "change" \in PC
  BY DEF PC
<1>5. u \in TaskRecord /\ u.pc = "change" /\ u.approval = a
  BY <1>1, <1>4, MovedTyped DEF Moved, TaskRecord
<1>6. task' = [task EXCEPT ![j] = u]
  BY DEF SubmitChange, Goto
<1>7. CalmPut(j)
  BY <1>1, RecordTyped, EditsTyped DEF SubmitChange, CalmPut
<1>8. /\ jobs' \in [Job -> JobRecord \union {None}]
      /\ order' \in Seq(Job)
      /\ disk' \in [jobs : [Job -> JobRecord \union {None}], order : Seq(Job)]
      /\ \A k \in Job : Honest(jobs'[k]) /\ Honest(disk'.jobs[k])
  BY <1>7, PutPreserves
<1>9. /\ UNCHANGED <<stop, cancelled, up, epoch, unused, ledger, consent>>
      /\ spent' = spent \union {a}
      /\ bell' = [bell EXCEPT ![j] = "none"]
  BY DEF SubmitChange
<1> HIDE DEF u, a
<1>10. TypeOK'
  BY <1>1, <1>2, <1>5, <1>6, <1>8, <1>9 DEF TypeOK
<1>11. \A k \in Job : task'[k].pc = "approval" =>
          /\ task'[k] = task[k] /\ k # j
          /\ task[k].approval # a
  BY <1>1, <1>5, <1>6 DEF IInv, ApprovalInv, Awaits, a
<1>12. \A k \in Job : Honest(jobs[k])' /\ Honest(disk.jobs[k])'
  BY <1>8, <1>9 DEF Honest
<1>13. ApprovalInv'
  BY <1>2, <1>9, <1>11, <1>12 DEF IInv, ApprovalInv, Awaits
<1>14. \A k \in Job : Submits(k) => task'[k].approval \in consent \ spent
  BY <1>1, <1>2, <1>3, <1>5, <1>6 DEF Submits, IInv, ApprovalInv, TypeOK
<1> QED
  BY <1>10, <1>13, <1>14 DEF IInv

-----------------------------------------------------------------------------
(* The handlers *)

LEMMA EnqueueStep ==
    ASSUME IInv, NEW j \in Job, Enqueue(j)
    PROVE  IInv' /\ NoSubmission
<1> DEFINE kept == IF Len(order) < StoreLimit
                   THEN order
                   ELSE SubSeq(order, Len(order) - StoreLimit + 2, Len(order))
<1>1. PICK p \in Proposal :
        /\ jobs' = [k \in Job |-> CASE k = j -> NewJob(p, {})
                                    [] k # j /\ k \in Range(kept) -> jobs[k]
                                    [] OTHER -> None]
        /\ Goto(j, NewTask("ready", p, {}))
  BY DEF Enqueue
<1>2. /\ order' = Append(kept, j) /\ Persist(jobs', order')
      /\ unused' = unused \ {j}
      /\ UNCHANGED <<wires, up, epoch, ledger, consent, spent>>
  BY DEF Enqueue
<1>3. /\ TypeOK /\ order \in Seq(Job)
      /\ disk \in [jobs : [Job -> JobRecord \union {None}], order : Seq(Job)]
  BY DEF IInv, TypeOK
<1>4. kept \in Seq(Job)
  BY <1>3, LimitAssumption
<1> HIDE DEF kept
<1>5. p \in Strategy /\ {} \in SUBSET Fingerprints /\ "ready" \in PC
  BY ProposalAssumption DEF PC
<1>6. NewJob(p, {}) \in JobRecord /\ NewJob(p, {}).consumed = None
  BY <1>5, NewJobTyped
<1>7. CalmGoto(j)
  BY <1>1, <1>5, NewTaskTyped DEF CalmGoto
<1>8. /\ task' \in [Job -> TaskRecord]
      /\ NoSubmission
      /\ \A k \in Job : task'[k].pc = "approval" => task'[k] = task[k]
  BY <1>7, GotoPreserves
<1>9. \A k \in Job : jobs'[k] \in {NewJob(p, {}), jobs[k], None}
  BY <1>1
<1>10. jobs' \in [Job -> JobRecord \union {None}]
  <2>1. \A k \in Job : jobs[k] \in JobRecord \union {None}
    BY <1>3 DEF TypeOK
  <2>2. \A k \in Job : jobs'[k] \in JobRecord \union {None}
    BY <1>6, <1>9, <2>1
  <2>3. jobs' = [k \in Job |-> jobs'[k]]
    BY <1>1
  <2> QED
    BY <2>2, <2>3
<1>11. disk' = [jobs |-> jobs', order |-> order'] \/ disk' = disk
  BY <1>2 DEF Persist
<1>12. order' \in Seq(Job)
  BY <1>2, <1>4
<1>13. \A k \in Job : Honest(jobs'[k])
  BY <1>6, <1>9 DEF IInv, ApprovalInv, Honest
<1>14. \A k \in Job : Honest(jobs[k])' /\ Honest(disk.jobs[k])'
  BY <1>2, <1>11, <1>13 DEF IInv, ApprovalInv, Honest
<1>15. TypeOK'
  <2>1. disk' \in [jobs : [Job -> JobRecord \union {None}], order : Seq(Job)]
    BY <1>3, <1>10, <1>11, <1>12
  <2>2. unused' \subseteq Job /\ UNCHANGED <<stop, cancelled, bell>>
    BY <1>2, <1>3 DEF TypeOK, wires
  <2> QED
    BY <1>2, <1>3, <1>8, <1>10, <1>12, <2>1, <2>2 DEF TypeOK
<1>16. ApprovalInv'
  BY <1>2, <1>8, <1>14, NobodyAsks DEF ApprovalInv
<1> QED
  BY <1>8, <1>15, <1>16 DEF IInv

\* A decision: the pending request becomes a receipt, which is honest because
\* a confirmation is recorded as the operator's consent in the same step.
LEMMA DecisionStep ==
    ASSUME IInv, NEW j \in Job, NEW a \in ApprovalId, NEW confirm \in BOOLEAN,
           Decidable(j, a), Put(j, Consumed(jobs[j], a, confirm)),
           stop' \subseteq Job, bell' \in [Job -> {"none", "silent", "rung"}],
           consent' = IF confirm THEN consent \union {a} ELSE consent,
           UNCHANGED <<task, cancelled, up, epoch, unused, ledger, spent>>
    PROVE  IInv' /\ NoSubmission
<1> DEFINE r == Consumed(jobs[j], a, confirm)
<1>1. TypeOK /\ jobs[j] \in JobRecord /\ jobs[j].pending # None
  BY RecordTyped DEF IInv, Decidable
<1>2. /\ r \in JobRecord
      /\ r.consumed # None => r.consumed.id = a /\ r.consumed.confirmed = confirm
  BY <1>1, ConsumedTyped
<1>3. Put(j, r)
  OBVIOUS
<1> HIDE DEF r
<1>4. /\ jobs' \in [Job -> JobRecord \union {None}]
      /\ order' \in Seq(Job)
      /\ disk' \in [jobs : [Job -> JobRecord \union {None}], order : Seq(Job)]
      /\ \A k \in Job : \/ jobs'[k] = jobs[k]
                        \/ k = j /\ Recorded(j) /\ jobs'[k] = r
      /\ disk'.jobs = jobs' \/ disk'.jobs = disk.jobs
  BY <1>1, <1>2, <1>3, PutEffect
<1>5. \A q : Honest(q) => (q # None /\ q.consumed # None /\ q.consumed.confirmed
                              => q.consumed.id \in consent')
  BY DEF Honest
<1>6. \A k \in Job : /\ jobs'[k] # None /\ jobs'[k].consumed # None
                        /\ jobs'[k].consumed.confirmed
                          => jobs'[k].consumed.id \in consent'
  BY <1>2, <1>4, <1>5 DEF IInv, ApprovalInv
<1>7. \A k \in Job : Honest(jobs[k])' /\ Honest(disk.jobs[k])'
  BY <1>4, <1>5, <1>6 DEF IInv, ApprovalInv, Honest
<1>8. TypeOK'
  BY <1>1, <1>4 DEF TypeOK
<1>9. ApprovalInv'
  BY <1>7, NobodyAsks DEF ApprovalInv
<1>10. NoSubmission
  BY DEF NoSubmission, Submits
<1> QED
  BY <1>8, <1>9, <1>10 DEF IInv

LEMMA ApproveStepPreserves ==
    ASSUME IInv, NEW j \in Job, ApproveStep(j)
    PROVE  IInv' /\ NoSubmission
<1>1. PICK a \in ApprovalId :
        /\ Decidable(j, a)
        /\ Put(j, Consumed(jobs[j], a, TRUE))
        /\ bell' = [bell EXCEPT ![j] = "rung"]
        /\ consent' = consent \union {a}
        /\ UNCHANGED <<task, stop, cancelled, up, epoch, unused, ledger, spent>>
  BY DEF ApproveStep
<1>2. stop' \subseteq Job /\ bell' \in [Job -> {"none", "silent", "rung"}]
  BY <1>1 DEF IInv, TypeOK
<1> QED
  BY <1>1, <1>2, DecisionStep

LEMMA RejectStepPreserves ==
    ASSUME IInv, NEW j \in Job, RejectStep(j)
    PROVE  IInv' /\ NoSubmission
<1>1. PICK a \in ApprovalId :
        /\ Decidable(j, a)
        /\ Put(j, Consumed(jobs[j], a, FALSE))
        /\ stop' = stop \union {j}
        /\ bell' = [bell EXCEPT ![j] = "rung"]
        /\ UNCHANGED <<task, cancelled, up, history>>
  BY DEF RejectStep
<1>2. stop' \subseteq Job /\ bell' \in [Job -> {"none", "silent", "rung"}]
  BY <1>1 DEF IInv, TypeOK
<1>3. UNCHANGED <<task, cancelled, up, epoch, unused, ledger, spent, consent>>
  BY <1>1 DEF history
<1> QED
  BY <1>1, <1>2, <1>3, DecisionStep

LEMMA CancelPollStep ==
    ASSUME IInv, NEW j \in Job, CancelJob(j) \/ PollJob(j)
    PROVE  IInv' /\ NoSubmission
<1>1. TypeOK
  BY DEF IInv
<1>2. {"cancelling", "failed"} \subseteq Active \union Terminal
  BY DEF Active, Terminal
<1>3. CalmPut(j)
  <2>1. PICK status \in {"cancelling", "failed"} :
          Put(j, WithStatus(jobs[j], status))
    BY DEF CancelJob, PollJob
  <2>2. Recorded(j) => LET q == WithStatus(jobs[j], status) IN
                       q \in JobRecord /\ q.consumed = jobs[j].consumed
    BY <1>1, <1>2, RecordTyped, EditsTyped
  <2> QED
    BY <2>1, <2>2 DEF CalmPut
<1>4. Quiet /\ WiresTyped /\ UNCHANGED task
  BY <1>1 DEF CancelJob, PollJob, Quiet, WiresTyped, TypeOK, wires, history
<1> QED
  BY <1>3, <1>4, CalmStep

LEMMA DeleteStep ==
    ASSUME IInv, NEW j \in Job, DeleteRecord(j)
    PROVE  IInv' /\ NoSubmission
<1>1. /\ TypeOK /\ order \in Seq(Job) /\ jobs \in [Job -> JobRecord \union {None}]
      /\ disk \in [jobs : [Job -> JobRecord \union {None}], order : Seq(Job)]
  BY DEF IInv, TypeOK
<1>2. PICK i \in DOMAIN order :
        order' = SubSeq(order, 1, i - 1) \o SubSeq(order, i + 1, Len(order))
  BY DEF DeleteRecord
<1>3. /\ jobs' = [jobs EXCEPT ![j] = None] /\ Persist(jobs', order')
      /\ UNCHANGED <<task, wires, up, history>>
  BY DEF DeleteRecord
<1>4. order' \in Seq(Job)
  BY <1>1, <1>2
<1>5. jobs' \in [Job -> JobRecord \union {None}]
  BY <1>1, <1>3
<1>6. disk' = [jobs |-> jobs', order |-> order'] \/ disk' = disk
  BY <1>3 DEF Persist
<1>7. \A k \in Job : Honest(jobs[k])' /\ Honest(disk.jobs[k])'
  BY <1>1, <1>3, <1>6 DEF IInv, ApprovalInv, Honest, history
<1>8. TypeOK'
  BY <1>1, <1>3, <1>4, <1>5, <1>6 DEF TypeOK, wires, history
<1>9. ApprovalInv'
  BY <1>3, <1>7, NobodyAsks DEF ApprovalInv, history
<1>10. NoSubmission
  BY <1>3 DEF NoSubmission, Submits
<1> QED
  BY <1>8, <1>9, <1>10 DEF IInv
-----------------------------------------------------------------------------
(* Crash and restart *)

\* A dead process: no coroutine, no record, and a file that was honest.
LEMMA DeathPreserves ==
    ASSUME IInv, Die,
           disk' \in [jobs : [Job -> JobRecord \union {None}], order : Seq(Job)],
           \A k \in Job : Honest(disk'.jobs[k])
    PROVE  IInv' /\ NoSubmission
<1>1. /\ jobs' = [k \in Job |-> None] /\ order' = <<>>
      /\ task' = [k \in Job |-> NoTask]
      /\ stop' = {} /\ cancelled' = {} /\ bell' = [k \in Job |-> "none"]
      /\ up' = FALSE /\ epoch' = epoch + 1
      /\ UNCHANGED <<unused, ledger, consent, spent>>
  BY DEF Die
<1>2. \A k \in Job : task'[k] = NoTask /\ task'[k].pc = "none"
  BY <1>1, NoTaskTyped
<1>3. TypeOK'
  <2>1. /\ epoch \in Nat /\ unused \subseteq Job
        /\ ledger \in [ApprovalId -> Slip \union {None}]
        /\ consent \subseteq ApprovalId /\ spent \subseteq ApprovalId
    BY DEF IInv, TypeOK
  <2>2. jobs' \in [Job -> JobRecord \union {None}]
    BY <1>1
  <2>3. task' \in [Job -> TaskRecord]
    BY <1>1, NoTaskTyped
  <2>4. order' \in Seq(Job) /\ up' \in BOOLEAN /\ epoch' \in Nat
    <3>1. order' \in Seq(Job)
      BY <1>1
    <3>2. up' \in BOOLEAN
      BY <1>1, Zenon
    <3>3. epoch' \in Nat
      BY <1>1, <2>1
    <3> QED
      BY <3>1, <3>2, <3>3
  <2>5. /\ bell' \in [Job -> {"none", "silent", "rung"}]
        /\ stop' \subseteq Job /\ cancelled' \subseteq Job
    BY <1>1
  <2>6. UNCHANGED <<unused, ledger, consent, spent>>
    BY <1>1
  <2> QED
    BY <2>1, <2>2, <2>3, <2>4, <2>5, <2>6 DEF TypeOK
<1>4. \A k \in Job : Honest(jobs[k])' /\ Honest(disk.jobs[k])'
  BY <1>1 DEF Honest
<1>5. ApprovalInv'
  BY <1>1, <1>2, <1>4, NobodyAsks DEF ApprovalInv
<1>6. NoSubmission
  BY <1>2 DEF NoSubmission, Submits
<1> QED
  BY <1>3, <1>5, <1>6 DEF IInv

LEMMA CrashStep ==
    ASSUME IInv, Crash
    PROVE  IInv' /\ NoSubmission
<1>1. Die /\ disk' = disk
  BY DEF Crash
<1>2. /\ disk' \in [jobs : [Job -> JobRecord \union {None}], order : Seq(Job)]
      /\ \A k \in Job : Honest(disk'.jobs[k])
  BY <1>1 DEF IInv, TypeOK, ApprovalInv
<1> QED
  BY <1>1, <1>2, DeathPreserves

LEMMA GateCrashStep ==
    ASSUME IInv, NEW j \in Job, CrashInReleaseGate(j)
    PROVE  IInv' /\ NoSubmission
<1>1. PICK t \in Starting(j) :
        /\ disk' = [jobs |-> [jobs EXCEPT
                                ![j] = WithStatus(Started(@, t), "blocked")],
                    order |-> order]
        /\ Recorded(j) /\ Die
  BY DEF CrashInReleaseGate
<1>2. TypeOK /\ task[j] \in TaskRecord /\ jobs[j] \in JobRecord
  BY <1>1, RecordTyped, TaskTyped DEF IInv
<1>3. t \in TaskRecord
  <2>1. \A p \in Proposal : Merged(task[j], p) \in TaskRecord
    BY <1>2, MergedTyped, ProposalAssumption
  <2> QED
    BY <1>2, <2>1 DEF Starting
<1> DEFINE r == WithStatus(Started(jobs[j], t), "blocked")
<1>4. r \in JobRecord /\ r.consumed = jobs[j].consumed
  <2>1. /\ Started(jobs[j], t) \in JobRecord
        /\ Started(jobs[j], t).consumed = jobs[j].consumed
    BY <1>2, <1>3, StartedTyped
  <2> QED
    BY <2>1 DEF WithStatus, JobRecord, Terminal
<1>5. disk' = [jobs |-> [jobs EXCEPT ![j] = r], order |-> order]
  BY <1>1
<1> HIDE DEF r
<1>6. disk' \in [jobs : [Job -> JobRecord \union {None}], order : Seq(Job)]
  BY <1>2, <1>4, <1>5 DEF TypeOK
<1>7. \A k \in Job : Honest(disk'.jobs[k])
  <2>1. Honest(r) /\ \A k \in Job : Honest(jobs[k])
    BY <1>1, <1>4 DEF IInv, ApprovalInv, Honest, Recorded
  <2>2. \A k \in Job : disk'.jobs[k] = jobs[k] \/ disk'.jobs[k] = r
    BY <1>2, <1>5 DEF TypeOK
  <2> QED
    BY <2>1, <2>2
<1> QED
  BY <1>1, <1>6, <1>7, DeathPreserves

LEMMA RestoredTyped ==
    ASSUME NEW p \in Strategy
    PROVE  Restored(p) \in Strategy
<1> DEFINE s == [i \in DOMAIN p.changes |-> Redacted[p.changes[i]]]
<1>1. p.changes \in Seq(Change)
  BY DEF Strategy
<1>2. s \in Seq(Change)
  BY <1>1, RedactedAssumption
<1>3. Restored(p) = [p EXCEPT !.changes = s]
  BY DEF Restored
<1> HIDE DEF s
<1> QED
  BY <1>2, <1>3 DEF Strategy

\* A resumed record starts without a receipt; a finished one keeps its own.
LEMMA ReloadedTyped ==
    ASSUME NEW r \in JobRecord \union {None}
    PROVE  /\ Reloaded(r) \in JobRecord \union {None}
           /\ Honest(r) => Honest(Reloaded(r))
           /\ Resumes(r) => Reloaded(r) \in JobRecord
<1>1. CASE Resumes(r)
  <2>1. r \in JobRecord
    BY <1>1 DEF Resumes
  <2>2. Restored(r.plan) \in Strategy /\ r.tried \in SUBSET Fingerprints
    BY <2>1, RestoredTyped DEF JobRecord
  <2>3. /\ NewJob(Restored(r.plan), r.tried) \in JobRecord
        /\ NewJob(Restored(r.plan), r.tried).consumed = None
    BY <2>2, NewJobTyped
  <2>4. Reloaded(r) = NewJob(Restored(r.plan), r.tried)
    BY <1>1 DEF Reloaded
  <2> QED
    BY <2>3, <2>4 DEF Honest
<1>2. CASE ~Resumes(r) /\ r # None
  <2> DEFINE p == Restored(r.plan)
  <2>1. p \in Strategy
    BY <1>2, RestoredTyped DEF JobRecord
  <2>2. Reloaded(r) = [r EXCEPT !.plan = p]
    BY <1>2 DEF Reloaded
  <2> HIDE DEF p
  <2>3. Reloaded(r) \in JobRecord /\ Reloaded(r).consumed = r.consumed
    BY <1>2, <2>1, <2>2 DEF JobRecord
  <2> QED
    BY <1>2, <2>3 DEF Honest
<1>3. CASE r = None
  BY <1>3 DEF Reloaded, Resumes, Honest
<1> QED
  BY <1>1, <1>2, <1>3

LEMMA RestartStep ==
    ASSUME IInv, Restart
    PROVE  IInv' /\ NoSubmission
<1>1. /\ up' = TRUE
      /\ jobs' = [j \in Job |-> Reloaded(disk.jobs[j])]
      /\ order' = disk.order
      /\ task' = [j \in Job |-> IF Resumes(disk.jobs[j])
                                THEN NewTask("ready", jobs'[j].plan, jobs'[j].tried)
                                ELSE NoTask]
      /\ UNCHANGED <<stop, cancelled, bell>>
      /\ UNCHANGED <<epoch, unused, ledger, consent, spent>>
  BY DEF Restart, wires, history
<1>2. disk' = [jobs |-> jobs', order |-> order'] \/ disk' = disk
  BY DEF Restart, Persist
<1>3. /\ disk \in [jobs : [Job -> JobRecord \union {None}], order : Seq(Job)]
      /\ \A j \in Job : disk.jobs[j] \in JobRecord \union {None}
  BY DEF IInv, TypeOK
<1>4. jobs' \in [Job -> JobRecord \union {None}]
  BY <1>1, <1>3, ReloadedTyped
<1>5. \A j \in Job : task'[j] \in TaskRecord /\ task'[j].pc \in {"ready", "none"}
  <2> SUFFICES ASSUME NEW j \in Job
               PROVE  task'[j] \in TaskRecord /\ task'[j].pc \in {"ready", "none"}
    OBVIOUS
  <2>1. CASE Resumes(disk.jobs[j])
    <3>1. jobs'[j] \in JobRecord
      BY <1>1, <1>3, <2>1, ReloadedTyped
    <3>2. jobs'[j].plan \in Strategy /\ jobs'[j].tried \in SUBSET Fingerprints
      BY <3>1 DEF JobRecord
    <3>3. "ready" \in PC
      BY DEF PC
    <3>4. task'[j] = NewTask("ready", jobs'[j].plan, jobs'[j].tried)
      BY <1>1, <2>1
    <3> QED
      BY <3>2, <3>3, <3>4, NewTaskTyped
  <2>2. CASE ~Resumes(disk.jobs[j])
    BY <1>1, <2>2, NoTaskTyped
  <2> QED
    BY <2>1, <2>2
<1>6. task' \in [Job -> TaskRecord]
  BY <1>1, <1>5
<1>7. disk' \in [jobs : [Job -> JobRecord \union {None}], order : Seq(Job)]
  BY <1>1, <1>2, <1>3, <1>4
<1>8. TypeOK'
  BY <1>1, <1>3, <1>4, <1>6, <1>7 DEF IInv, TypeOK
<1>9. \A j \in Job : Honest(jobs'[j]) /\ Honest(disk.jobs[j])
  BY <1>1, <1>3, ReloadedTyped DEF IInv, ApprovalInv
<1>10. \A j \in Job : Honest(jobs[j])' /\ Honest(disk.jobs[j])'
  BY <1>1, <1>2, <1>9 DEF Honest
<1>11. ApprovalInv'
  BY <1>1, <1>5, <1>10, NobodyAsks DEF ApprovalInv
<1>12. NoSubmission
  BY <1>5 DEF NoSubmission, Submits
<1> QED
  BY <1>8, <1>11, <1>12 DEF IInv

-----------------------------------------------------------------------------
(* The invariant and the theorems *)

LEMMA InitialInvariant == Init => IInv
<1> SUFFICES ASSUME Init PROVE IInv
  OBVIOUS
<1>1. task \in [Job -> TaskRecord] /\ \A j \in Job : task[j].pc = "none"
  BY NoTaskTyped DEF Init
<1>2. \A j \in Job : jobs[j] = None /\ disk.jobs[j] = None
  BY DEF Init
<1>3. /\ jobs \in [Job -> JobRecord \union {None}]
      /\ order \in Seq(Job)
      /\ disk = [jobs |-> jobs, order |-> order]
  BY DEF Init
<1>4. ledger \in [ApprovalId -> Slip \union {None}]
  BY DEF Init
<1>5. bell \in [Job -> {"none", "silent", "rung"}]
  BY DEF Init
<1>6. TypeOK
  BY <1>1, <1>3, <1>4, <1>5 DEF Init, TypeOK
<1>7. ApprovalInv
  BY <1>1, <1>2 DEF Init, ApprovalInv, Honest, Awaits
<1> QED
  BY <1>6, <1>7 DEF IInv

\* Every step keeps the invariant and submits nothing that lacks a consent of
LEMMA EveryStep ==
    ASSUME IInv, [Next]_vars
    PROVE  /\ IInv'
           /\ \A k \in Job : Submits(k) => task'[k].approval \in consent \ spent
<1>1. CASE UNCHANGED vars
  BY <1>1 DEF vars, IInv, TypeOK, ApprovalInv, Honest, Awaits, Submits
<1>2. CASE Crash \/ Restart
  BY <1>2, CrashStep, RestartStep DEF NoSubmission
<1>3. ASSUME NEW j \in Job, Shape(j)
      PROVE  /\ IInv'
             /\ \A k \in Job : Submits(k) => task'[k].approval \in consent \ spent
  <2>1. CASE SubmitChange(j)
    BY <2>1, SubmitStep
  <2>2. CASE AsksNext(j)
    BY <2>2, AskStep DEF AsksNext, NoSubmission
  <2>3. CASE Advances(j) \/ Ends(j) \/ StartFails(j)
    BY <2>3, AdvanceStep, EndStep DEF NoSubmission
  <2>4. CASE \/ Enqueue(j) \/ ApproveStep(j) \/ RejectStep(j)
             \/ CancelJob(j) \/ PollJob(j) \/ DeleteRecord(j)
    BY <2>4, EnqueueStep, ApproveStepPreserves, RejectStepPreserves,
       CancelPollStep, DeleteStep DEF NoSubmission
  <2>5. CASE CrashInReleaseGate(j)
    BY <2>5, GateCrashStep DEF NoSubmission
  <2> QED
    BY <1>3, <2>1, <2>2, <2>3, <2>4, <2>5 DEF Shape
<1>4. Next => (\E j \in Job : Shape(j)) \/ Crash \/ Restart
  BY NextShapes DEF IInv
<1> QED
  BY <1>1, <1>2, <1>3, <1>4

\* Type correctness: the tables, the coroutines and the job file hold what
\* their code can put there, whatever the limits, the proposals and the crashes.
THEOREM TypeCorrect == Spec => []TypeOK
<1>1. Init => IInv
  BY InitialInvariant
<1>2. IInv /\ [Next]_vars => IInv'
  BY EveryStep
<1>3. IInv => TypeOK
  BY DEF IInv
<1> QED
  BY <1>1, <1>2, <1>3, PTL DEF Spec

\* A receipt that says "confirmed" names an approval an operator confirmed, in
\* memory, in the job file and after a restart; what a coroutine waits on is
\* issued, unspent and its own.
THEOREM ApprovalsAreHonest == Spec => []ApprovalInv
<1>1. Init => IInv
  BY InitialInvariant
<1>2. IInv /\ [Next]_vars => IInv'
  BY EveryStep
<1>3. IInv => ApprovalInv
  BY DEF IInv
<1> QED
  BY <1>1, <1>2, <1>3, PTL DEF Spec

\* Every call of the executor spends a confirmation of its own: none is made
\* without one and none is made twice under one, for any number of jobs,
\* operators, replays, timeouts, replanning rounds, crashes and restarts.
THEOREM OneApprovalPerSubmission == Spec => OneShotApproval
<1> DEFINE Paid == \A j \in Job : Submits(j) => task'[j].approval \in consent \ spent
<1>1. Init => IInv
  BY InitialInvariant
<1>2. IInv /\ [Next]_vars => IInv' /\ [Paid]_vars
  BY EveryStep
<1> QED
  BY <1>1, <1>2, PTL DEF Spec, OneShotApproval
=============================================================================
