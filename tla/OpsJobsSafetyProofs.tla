------------------------ MODULE OpsJobsSafetyProofs ------------------------
(***************************************************************************)
(* What OpsJobsProofs leaves open about the job engine, for every value of *)
(* the constants: statuses, the job file, decisions to stop, submissions   *)
(* and the contract of the approvals.                                      *)
(*                                                                         *)
(* The inductive invariant is a statement about each job by itself,        *)
(* JobInv(j), and one about the issued slips.  Nearly every step is local: *)
(* it touches one job.  LocalFrame shows that a local step keeps JobInv of *)
(* every other job, and one lemma per kind of step that it keeps JobInv of *)
(* its own.                                                                *)
(***************************************************************************)
EXTENDS OpsJobsProofs, FiniteSetTheorems

(* The parts of the invariant, each about one job *)

\* StatusTracksTask and PendingIsLive.
StatusOk(j) ==
    Recorded(j) /\ up =>
        /\ jobs[j].status \in Active => task[j].pc # "none"
        /\ Live(j) => jobs[j].status \in Active

PendingOk(j) ==
    Recorded(j) /\ jobs[j].status = "awaiting_approval" =>
        LET t == task[j] IN
        /\ t.pc = "approval" /\ bell[j] # "none"
        /\ jobs[j].pending =
             [id |-> t.approval, change |-> t.plan.changes[t.index],
              index |-> t.index, consumed |-> bell[j] = "rung"]
        /\ bell[j] = "rung" => j \in stop

\* A job someone stopped waits for its end, or its task is dead, or is about to
\* receive the cancellation.
StopOk(j) ==
    j \in stop => \/ task[j].pc \in {"approval", "dead"}
                  \/ j \in cancelled /\ Live(j)

\* An approval that a coroutine waits on or acts under shows what it will do.
SlipOk(j) ==
    task[j].pc \in {"approval", "change"} =>
        LET t == task[j] IN
        /\ ledger[t.approval] =
             [job |-> j, change |-> t.plan.changes[t.index],
              index |-> t.index, epoch |-> epoch]
        /\ t.pc = "change" => t.approval \in consent

\* A dead process has nothing; an identifier not drawn yet names nothing.
DownOk(j) ==
    ~up => j \notin stop /\ jobs[j] = None /\ task[j].pc = "none"
FreshOk(j) ==
    j \in unused =>
        /\ j \notin stop /\ task[j].pc = "none"
        /\ jobs[j] = None /\ disk.jobs[j] = None

\* What the file calls finished is finished; a file whose writes succeed says
\* of each job what the table says.
FinalOk(j) ==
    disk.jobs[j] # None /\ disk.jobs[j].status \in Terminal =>
        /\ ~Live(j)
        /\ Recorded(j) => jobs[j].status = disk.jobs[j].status
SavedOk(j) ==
    ~DiskMayFail /\ up /\ Recorded(j) =>
        disk.jobs[j] # None /\ jobs[j].status = disk.jobs[j].status

JobInv(j) ==
    /\ StatusOk(j) /\ PendingOk(j) /\ StopOk(j) /\ SlipOk(j)
    /\ DownOk(j) /\ FreshOk(j) /\ FinalOk(j) /\ SavedOk(j)

ConsentIssued == \A a \in consent : ledger[a] # None

SafetyInv == IInv /\ ConsentIssued /\ \A j \in Job : JobInv(j)

-----------------------------------------------------------------------------
(* Local steps *)

FileFollows ==
    \/ disk'.jobs = jobs'
    \/ disk'.jobs = disk.jobs /\ (DiskMayFail \/ jobs' = jobs)

\* The step touches nothing of job k, save that its record may be evicted.
Apart(k) ==
    /\ task'[k] = task[k] /\ bell'[k] = bell[k]
    /\ jobs'[k] = jobs[k] \/ jobs'[k] = None
    /\ k \in stop' <=> k \in stop
    /\ k \in cancelled' <=> k \in cancelled

\* Issued slips and given consents stay.
HistoryGrows ==
    /\ UNCHANGED epoch
    /\ \A a \in ApprovalId : ledger[a] # None => ledger'[a] = ledger[a]
    /\ consent \subseteq consent'

\* The job was not over: it is new, its coroutine runs, or its record says that
\* it does; or the step removes its record.
Unfinished(j) ==
    \/ j \in unused
    \/ Live(j) \/ (Recorded(j) /\ jobs[j].status \in Active)
    \/ jobs'[j] = None /\ task'[j] = task[j]

Local(j) ==
    /\ up /\ UNCHANGED up
    /\ unused' \subseteq unused /\ j \notin unused'
    /\ \A k \in Job \ {j} : Apart(k)
    /\ FileFollows /\ HistoryGrows /\ Unfinished(j)
    /\ j \in unused \/ Recorded(j) \/ jobs'[j] = None

LEMMA PutFrame ==
    ASSUME TypeOK, NEW j \in Job, NEW r, Put(j, r)
    PROVE  /\ \A k \in Job \ {j} : jobs'[k] = jobs[k]
           /\ Recorded(j) => jobs'[j] = r
           /\ ~Recorded(j) => jobs'[j] = None
           /\ FileFollows
<1>1. /\ jobs \in [Job -> JobRecord \union {None}]
      /\ disk \in [jobs : [Job -> JobRecord \union {None}], order : Seq(Job)]
  BY DEF TypeOK
<1>2. CASE Recorded(j)
  <2>1. jobs' = [jobs EXCEPT ![j] = r]
    BY <1>2 DEF Put
  <2>2. \/ disk' = [jobs |-> jobs', order |-> order]
        \/ DiskMayFail /\ disk' = disk
    BY <1>2 DEF Put, Persist
  <2>3. FileFollows
    BY <2>2 DEF FileFollows
  <2> QED
    BY <1>1, <1>2, <2>1, <2>3
<1>3. CASE ~Recorded(j)
  BY <1>3 DEF Put, FileFollows, Recorded
<1> QED
  BY <1>2, <1>3

LEMMA GotoFrame ==
    ASSUME TypeOK, NEW j \in Job, NEW t, Goto(j, t)
    PROVE  task'[j] = t /\ \A k \in Job \ {j} : task'[k] = task[k]
  BY DEF TypeOK, Goto

\* Slips are kept by a step that leaves the ledger alone.
LEMMA SameHistory ==
    ASSUME UNCHANGED <<epoch, ledger, consent>>
    PROVE  HistoryGrows
  BY DEF HistoryGrows

\* What has a record or a coroutine was drawn.
LEMMA NotFresh ==
    ASSUME SafetyInv, NEW j \in Job, Live(j) \/ Recorded(j)
    PROVE  j \notin unused
  BY DEF SafetyInv, JobInv, FreshOk, Live, Recorded

\* A local step keeps the invariant of every other job.
LEMMA LocalFrame ==
    ASSUME SafetyInv, NEW j \in Job, Local(j), NEW k \in Job \ {j}
    PROVE  JobInv(k)'
<1>1. /\ JobInv(k) /\ Apart(k) /\ up /\ up' = up /\ unused' \subseteq unused
      /\ FileFollows /\ HistoryGrows
  BY DEF SafetyInv, Local
<1>2. StatusOk(k)' /\ PendingOk(k)' /\ StopOk(k)'
  BY <1>1 DEF JobInv, Apart, StatusOk, PendingOk, StopOk, Recorded, Live
<1>3. SlipOk(k)'
  <2>1. task[k].pc = "approval" => task[k].approval \in ApprovalId
    BY DEF SafetyInv, IInv, ApprovalInv
  <2>2. task[k].pc = "change" => task[k].approval \in ApprovalId
    BY <1>1 DEF JobInv, SlipOk, SafetyInv, IInv, TypeOK
  <2>3. task[k].pc \in {"approval", "change"} => ledger[task[k].approval] # None
    BY <1>1, NoneAssumption, <2>1, <2>2
       DEF JobInv, SlipOk, SafetyInv, IInv, ApprovalInv, ConsentIssued
  <2> QED
    BY <1>1, <2>1, <2>2, <2>3 DEF JobInv, SlipOk, Apart, HistoryGrows
<1>4. DownOk(k)' /\ SavedOk(k)'
  BY <1>1 DEF JobInv, DownOk, SavedOk, Apart, FileFollows, Recorded
<1>5. FreshOk(k)'
  BY <1>1 DEF JobInv, FreshOk, Apart, FileFollows
<1>6. FinalOk(k)'
  <2>1. CASE disk'.jobs = jobs'
    BY <1>1, <1>2, <2>1 DEF FinalOk, StatusOk, Recorded, Active, Terminal
  <2>2. CASE disk'.jobs = disk.jobs
    BY <1>1, <2>2 DEF JobInv, FinalOk, Apart, Recorded, Live
  <2> QED
    BY <1>1, <2>1, <2>2 DEF FileFollows
<1> QED
  BY <1>2, <1>3, <1>4, <1>5, <1>6 DEF JobInv

\* Of its own job a local step keeps what does not depend on its kind.
LEMMA LocalOwn ==
    ASSUME SafetyInv, NEW j \in Job, Local(j), StatusOk(j)'
    PROVE  DownOk(j)' /\ FreshOk(j)' /\ FinalOk(j)' /\ SavedOk(j)'
<1>1. /\ JobInv(j) /\ up /\ up' = up /\ j \notin unused'
      /\ FileFollows /\ Unfinished(j)
  BY DEF SafetyInv, Local
<1>2. DownOk(j)' /\ SavedOk(j)'
  BY <1>1 DEF JobInv, DownOk, SavedOk, FileFollows, Recorded
<1>3. FreshOk(j)'
  BY <1>1 DEF FreshOk
<1>4. FinalOk(j)'
  <2>1. CASE disk'.jobs = jobs'
    BY <1>1, <2>1 DEF FinalOk, StatusOk, Recorded, Active, Terminal
  <2>2. CASE disk'.jobs = disk.jobs
    BY <1>1, <2>2
       DEF JobInv, FinalOk, FreshOk, Unfinished, Recorded, Live,
           Active, Terminal
  <2> QED
    BY <1>1, <2>1, <2>2 DEF FileFollows
<1> QED
  BY <1>2, <1>3, <1>4

\* StopIsFinal, for one job.
StopHolds(k) ==
    k \in stop =>
        /\ ~Submits(k)
        /\ task'[k].pc = "approval" => task'[k] = task[k]
        /\ k \in stop' \/ task'[k].pc = "none"

Keeps(j) ==
    /\ Local(j) /\ StopHolds(j)
    /\ StatusOk(j)' /\ PendingOk(j)' /\ StopOk(j)' /\ SlipOk(j)'

LEMMA KeepsEveryJob ==
    ASSUME SafetyInv, NEW j \in Job, Keeps(j)
    PROVE  \A k \in Job : JobInv(k)' /\ StopHolds(k)
<1>1. JobInv(j)' /\ StopHolds(j)
  BY LocalOwn DEF Keeps, JobInv
<1>2. ASSUME NEW k \in Job \ {j} PROVE JobInv(k)' /\ StopHolds(k)
  BY LocalFrame DEF Keeps, Local, Apart, StopHolds, Submits
<1> QED
  BY <1>1, <1>2

-----------------------------------------------------------------------------
(* The steps of a coroutine *)

LEMMA AdvanceKeeps ==
    ASSUME SafetyInv, NEW j \in Job, Advances(j)
    PROVE  Keeps(j)
<1>1. TypeOK /\ JobInv(j)
  BY DEF SafetyInv, IInv
<1>2. /\ up /\ j \notin cancelled /\ task[j].pc \notin {"none", "dead", "approval"}
      /\ UNCHANGED <<up, epoch, unused, ledger, consent, stop, cancelled, bell>>
  BY DEF Advances, Runs, Quiet, wires
<1>3. PICK t \in TaskRecord : /\ t.pc \notin {"none", "dead", "approval", "change"}
                              /\ Goto(j, t)
  BY DEF Advances, WorkGoto
<1>4. PICK r : /\ Recorded(j) => r.status \in {"running", jobs[j].status}
               /\ Put(j, r)
  BY DEF Advances, WorkPut
<1>5. task'[j] = t /\ \A k \in Job \ {j} : task'[k] = task[k]
  BY <1>1, <1>3, GotoFrame
<1>6. /\ \A k \in Job \ {j} : jobs'[k] = jobs[k]
      /\ Recorded(j) => jobs'[j] = r
      /\ ~Recorded(j) => jobs'[j] = None
      /\ FileFollows
  BY <1>1, <1>4, PutFrame
<1>7. Live(j) /\ j \notin stop
  BY <1>1, <1>2 DEF JobInv, StopOk, Live
<1>8. Local(j)
  BY <1>2, <1>5, <1>6, <1>7, SameHistory, NotFresh DEF Local, Apart, Unfinished
<1>9. StatusOk(j)'
  BY <1>1, <1>2, <1>3, <1>4, <1>5, <1>6, <1>7
     DEF JobInv, StatusOk, Recorded, Live, Active
<1>10. PendingOk(j)'
  BY <1>1, <1>2, <1>4, <1>6 DEF JobInv, PendingOk, Recorded
<1>11. StopOk(j)' /\ SlipOk(j)' /\ StopHolds(j)
  BY <1>2, <1>3, <1>5, <1>7 DEF StopOk, SlipOk, StopHolds
<1> QED
  BY <1>8, <1>9, <1>10, <1>11 DEF Keeps

LEMMA AskKeeps ==
    ASSUME SafetyInv, NEW j \in Job, AsksNext(j)
    PROVE  Keeps(j)
<1>1. TypeOK /\ JobInv(j)
  BY DEF SafetyInv, IInv
<1>2. /\ up /\ j \notin cancelled /\ task[j].pc \notin {"none", "dead", "approval"}
      /\ UNCHANGED <<stop, cancelled, up, epoch, unused, consent, spent>>
  BY DEF AsksNext, Runs
<1>3. PICK t \in TaskRecord : \E i \in 1 .. Len(t.plan.changes) : AskApproval(j, t, i)
  BY DEF AsksNext
<1>4. PICK i \in 1 .. Len(t.plan.changes) : AskApproval(j, t, i)
  BY <1>3
<1> DEFINE c == t.plan.changes[i]
<1>5. PICK a \in ApprovalId :
        /\ ledger[a] = None
        /\ ledger' = [ledger EXCEPT ![a] = [job |-> j, change |-> c, index |-> i,
                                            epoch |-> epoch]]
        /\ bell' = [bell EXCEPT ![j] = "silent"]
        /\ Goto(j, Asks(t, i, a))
        /\ Put(j, Asking(jobs[j], c, i, a))
  BY <1>4 DEF AskApproval
<1>6. /\ \A k \in Job \ {j} : jobs'[k] = jobs[k]
      /\ Recorded(j) => jobs'[j] = Asking(jobs[j], c, i, a)
      /\ ~Recorded(j) => jobs'[j] = None
      /\ FileFollows
  BY <1>1, <1>5, PutFrame
<1>7. task'[j] = Asks(t, i, a) /\ \A k \in Job \ {j} : task'[k] = task[k]
  BY <1>1, <1>5, GotoFrame
<1>8. Asks(t, i, a) = [t EXCEPT !.pc = "approval", !.index = i, !.approval = a]
  BY DEF Asks
<1>9. /\ task'[j].pc = "approval" /\ task'[j].approval = a
      /\ task'[j].index = i /\ task'[j].plan = t.plan
  BY <1>7, <1>8 DEF TaskRecord
<1>10. c \in Change /\ i \in Nat
  BY DEF TaskRecord, Strategy
<1>11. Recorded(j) => /\ jobs'[j].status = "awaiting_approval"
                      /\ jobs'[j].pending = [id |-> a, change |-> c, index |-> i,
                                             consumed |-> FALSE]
  <2> HIDE DEF c
  <2>1. ASSUME Recorded(j)
        PROVE  LET q == Asking(jobs[j], c, i, a) IN
               /\ q.status = "awaiting_approval"
               /\ q.pending = [id |-> a, change |-> c, index |-> i,
                               consumed |-> FALSE]
    <3>1. jobs[j] \in JobRecord
      BY <1>1, <2>1, RecordTyped
    <3> QED
      BY <1>10, <3>1, AskingTyped
  <2> QED
    BY <1>6, <2>1
<1>12. Live(j) /\ j \notin stop
  BY <1>1, <1>2 DEF JobInv, StopOk, Live
<1>13. /\ ledger'[a] = [job |-> j, change |-> c, index |-> i, epoch |-> epoch]
       /\ bell'[j] = "silent" /\ \A k \in Job \ {j} : bell'[k] = bell[k]
  BY <1>1, <1>5 DEF TypeOK
<1>14. HistoryGrows
  BY <1>1, <1>2, <1>5 DEF HistoryGrows, TypeOK
<1>15. Local(j)
  BY <1>2, <1>6, <1>7, <1>12, <1>13, <1>14, NotFresh DEF Local, Apart, Unfinished
<1>16. StatusOk(j)'
  BY <1>6, <1>9, <1>11 DEF StatusOk, Recorded, Live, Active
<1>17. PendingOk(j)'
  BY <1>6, <1>9, <1>11, <1>13 DEF PendingOk, Recorded
<1>18. StopOk(j)' /\ SlipOk(j)' /\ StopHolds(j)
  BY <1>2, <1>9, <1>12, <1>13 DEF StopOk, SlipOk, StopHolds
<1> QED
  BY <1>15, <1>16, <1>17, <1>18 DEF Keeps

\* A confirmed receipt names a consent, so what is submitted was consented to.
LEMMA SubmitKeeps ==
    ASSUME SafetyInv, NEW j \in Job, SubmitChange(j)
    PROVE  Keeps(j)
<1> DEFINE t == task[j]
<1>1. TypeOK /\ JobInv(j) /\ t \in TaskRecord
  BY TaskTyped DEF SafetyInv, IInv
<1>2. /\ up /\ t.pc = "approval" /\ j \notin stop /\ Approved(j)
      /\ Goto(j, Moved(t, "change")) /\ Put(j, Submitted(jobs[j]))
      /\ bell' = [bell EXCEPT ![j] = "none"]
      /\ UNCHANGED <<stop, cancelled, up, epoch, unused, ledger, consent>>
  BY DEF SubmitChange, At
<1>3. Recorded(j) /\ t.approval \in consent
  BY <1>2 DEF Approved, Recorded, SafetyInv, IInv, ApprovalInv, Honest
<1>4. "change" \in PC
  BY DEF PC
<1>5. task'[j] = Moved(t, "change") /\ \A k \in Job \ {j} : task'[k] = task[k]
  BY <1>1, <1>2, GotoFrame
<1>6. /\ task'[j].pc = "change" /\ task'[j].approval = t.approval
      /\ task'[j].index = t.index /\ task'[j].plan = t.plan
  BY <1>1, <1>5 DEF Moved, TaskRecord
<1>7. /\ \A k \in Job \ {j} : jobs'[k] = jobs[k]
      /\ jobs'[j] = Submitted(jobs[j]) /\ FileFollows
  BY <1>1, <1>2, <1>3, PutFrame
<1>8. jobs'[j].status = "running"
  BY <1>1, <1>3, <1>7, RecordTyped, EditsTyped
<1>9. \A k \in Job \ {j} : bell'[k] = bell[k]
  BY <1>1, <1>2 DEF TypeOK
<1>10. Live(j)
  BY <1>2 DEF Live
<1>11. Local(j)
  BY <1>2, <1>3, <1>5, <1>7, <1>9, <1>10, SameHistory, NotFresh
     DEF Local, Apart, Unfinished
<1>12. StatusOk(j)' /\ PendingOk(j)'
  BY <1>6, <1>8 DEF StatusOk, PendingOk, Active, Live
<1>13. SlipOk(j)'
  BY <1>1, <1>2, <1>3, <1>6 DEF JobInv, SlipOk
<1>14. StopOk(j)' /\ StopHolds(j)
  BY <1>2 DEF StopOk, StopHolds
<1> QED
  BY <1>11, <1>12, <1>13, <1>14 DEF Keeps

LEMMA EndKeeps ==
    ASSUME SafetyInv, NEW j \in Job, Ends(j)
    PROVE  Keeps(j)
<1>1. TypeOK /\ JobInv(j)
  BY DEF SafetyInv, IInv
<1>2. /\ up /\ Live(j) /\ Goto(j, NoTask)
      /\ stop' = stop \ {j} /\ cancelled' = cancelled \ {j}
      /\ bell' = [bell EXCEPT ![j] = "none"]
      /\ UNCHANGED <<up, epoch, unused, ledger, consent>>
  BY DEF Ends, Quiet
<1>3. PICK r : (Recorded(j) => r.status \in Terminal) /\ Put(j, r)
  BY DEF Ends
<1>4. /\ task'[j].pc = "none" /\ \A k \in Job \ {j} : task'[k] = task[k]
  BY <1>1, <1>2, GotoFrame, NoTaskTyped
<1>5. /\ \A k \in Job \ {j} : jobs'[k] = jobs[k]
      /\ Recorded(j) => jobs'[j] = r
      /\ ~Recorded(j) => jobs'[j] = None
      /\ FileFollows
  BY <1>1, <1>3, PutFrame
<1>6. \A k \in Job \ {j} : bell'[k] = bell[k]
  BY <1>1, <1>2 DEF TypeOK
<1>7. Local(j)
  BY <1>2, <1>4, <1>5, <1>6, SameHistory, NotFresh DEF Local, Apart, Unfinished
<1>8. StatusOk(j)' /\ PendingOk(j)'
  BY <1>3, <1>4, <1>5
     DEF StatusOk, PendingOk, Recorded, Live, Active, Terminal
<1>9. StopOk(j)' /\ SlipOk(j)' /\ StopHolds(j)
  BY <1>2, <1>4 DEF StopOk, SlipOk, StopHolds, Submits
<1> QED
  BY <1>7, <1>8, <1>9 DEF Keeps

LEMMA StartFailsKeeps ==
    ASSUME SafetyInv, NEW j \in Job, StartFails(j)
    PROVE  Keeps(j)
<1>1. TypeOK /\ JobInv(j) /\ task[j] \in TaskRecord
  BY TaskTyped DEF SafetyInv, IInv
<1>2. /\ up /\ task[j].pc = "ready" /\ j \notin cancelled
      /\ Goto(j, Moved(task[j], "dead"))
      /\ UNCHANGED <<jobs, order, disk, stop, cancelled, bell>>
      /\ UNCHANGED <<up, epoch, unused, ledger, consent>>
  BY DEF StartFails, At, store, wires, history
<1>3. "dead" \in PC
  BY DEF PC
<1>4. /\ task'[j].pc = "dead" /\ \A k \in Job \ {j} : task'[k] = task[k]
  BY <1>1, <1>2, <1>3, GotoFrame, MovedTyped
<1>5. Live(j) /\ j \notin stop /\ FileFollows
  BY <1>1, <1>2 DEF Live, JobInv, StopOk, FileFollows
<1>6. Local(j)
  BY <1>2, <1>4, <1>5, SameHistory, NotFresh
     DEF Local, Apart, Unfinished, Recorded
<1>7. StatusOk(j)' /\ PendingOk(j)'
  BY <1>1, <1>2, <1>4 DEF JobInv, StatusOk, PendingOk, Recorded, Live
<1>8. StopOk(j)' /\ SlipOk(j)' /\ StopHolds(j)
  BY <1>2, <1>4, <1>5 DEF StopOk, SlipOk, StopHolds
<1> QED
  BY <1>6, <1>7, <1>8 DEF Keeps

-----------------------------------------------------------------------------
(* The handlers *)

LEMMA EnqueueKeeps ==
    ASSUME SafetyInv, NEW j \in Job, Enqueue(j)
    PROVE  Keeps(j)
<1> DEFINE kept == IF Len(order) < StoreLimit
                   THEN order
                   ELSE SubSeq(order, Len(order) - StoreLimit + 2, Len(order))
<1>1. TypeOK /\ JobInv(j)
  BY DEF SafetyInv, IInv
<1>2. PICK p \in Proposal :
        /\ jobs' = [k \in Job |-> CASE k = j -> NewJob(p, {})
                                    [] k # j /\ k \in Range(kept) -> jobs[k]
                                    [] OTHER -> None]
        /\ Goto(j, NewTask("ready", p, {}))
  BY DEF Enqueue
<1>3. /\ up /\ j \in unused /\ unused' = unused \ {j} /\ Persist(jobs', order')
      /\ UNCHANGED <<stop, cancelled, bell, up, epoch, ledger, consent>>
  BY DEF Enqueue, wires
<1> HIDE DEF kept
<1>4. /\ jobs'[j] = NewJob(p, {})
      /\ \A k \in Job \ {j} : jobs'[k] = jobs[k] \/ jobs'[k] = None
  BY <1>2
<1>5. FileFollows
  BY <1>3 DEF Persist, FileFollows
<1>6. task'[j] = NewTask("ready", p, {}) /\ \A k \in Job \ {j} : task'[k] = task[k]
  BY <1>1, <1>2, GotoFrame
<1>7. /\ jobs'[j].status = "queued" /\ task'[j].pc = "ready"
      /\ j \notin stop
  BY <1>1, <1>3, <1>4, <1>6 DEF NewJob, NewTask, JobInv, FreshOk
<1>8. Local(j)
  BY <1>3, <1>4, <1>5, <1>6, SameHistory DEF Local, Apart, Unfinished
<1>9. StatusOk(j)' /\ PendingOk(j)' /\ StopOk(j)' /\ SlipOk(j)' /\ StopHolds(j)
  BY <1>3, <1>7 DEF StatusOk, PendingOk, StopOk, SlipOk, StopHolds, Active
<1> QED
  BY <1>8, <1>9 DEF Keeps

LEMMA MarkedConsumed ==
    ASSUME NEW a, NEW c, NEW i, NEW b
    PROVE  [[id |-> a, change |-> c, index |-> i, consumed |-> b]
               EXCEPT !.consumed = TRUE]
             = [id |-> a, change |-> c, index |-> i, consumed |-> TRUE]
<1>1. PICK d : d = TRUE
  OBVIOUS
<1>2. [[id |-> a, change |-> c, index |-> i, consumed |-> b] EXCEPT !.consumed = d]
        = [id |-> a, change |-> c, index |-> i, consumed |-> d]
  OBVIOUS
<1> QED
  BY <1>1, <1>2, Zenon

\* Both decisions leave a record that says what happened to the request.
LEMMA DecisionKeeps ==
    ASSUME SafetyInv, NEW j \in Job, NEW a \in ApprovalId, NEW confirm \in BOOLEAN,
           Decidable(j, a), Put(j, Consumed(jobs[j], a, confirm)),
           bell' = [bell EXCEPT ![j] = "rung"],
           stop' = IF confirm THEN stop ELSE stop \union {j},
           consent \subseteq consent',
           UNCHANGED <<task, cancelled, up, epoch, unused, ledger>>
    PROVE  Keeps(j)
<1>1. TypeOK /\ JobInv(j) /\ jobs[j] \in JobRecord
  BY RecordTyped DEF SafetyInv, IInv, Decidable
<1>2. /\ up /\ Recorded(j) /\ jobs[j].status = "awaiting_approval"
      /\ task[j].pc = "approval"
  BY <1>1 DEF Decidable, JobInv, PendingOk
<1>3. /\ \A k \in Job \ {j} : jobs'[k] = jobs[k]
      /\ jobs'[j] = Consumed(jobs[j], a, confirm) /\ FileFollows
  BY <1>1, <1>2, PutFrame
<1>4. bell'[j] = "rung" /\ \A k \in Job \ {j} : bell'[k] = bell[k]
  BY <1>1 DEF TypeOK
<1>5. Live(j)
  BY <1>2 DEF Live
<1>6. Local(j)
  BY <1>2, <1>3, <1>4, <1>5, NotFresh DEF Local, Apart, Unfinished, HistoryGrows
<1> DEFINE pending == [jobs[j].pending EXCEPT !.consumed = TRUE]
           receipt == [id |-> a, change |-> jobs[j].pending.change,
                       index |-> jobs[j].pending.index, confirmed |-> confirm]
           index == IF confirm THEN jobs[j].pending.index ELSE 0
           status == IF confirm THEN "running" ELSE "awaiting_approval"
<1>7. jobs'[j] = [jobs[j] EXCEPT !.pending = pending, !.consumed = receipt,
                                 !.approvedIndex = index, !.status = status]
  BY <1>2, <1>3 DEF Consumed
<1> HIDE DEF receipt, index
<1>8. jobs'[j].status = status /\ jobs'[j].pending = pending
  <2> HIDE DEF pending, status
  <2> QED
    BY <1>1, <1>7 DEF JobRecord
<1>9. StatusOk(j)'
  BY <1>2, <1>8 DEF StatusOk, Live, Active
<1>10. PendingOk(j)'
  <2> DEFINE t == task[j]
             shown == [id |-> t.approval, change |-> t.plan.changes[t.index],
                       index |-> t.index, consumed |-> TRUE]
  <2>1. ASSUME ~confirm
        PROVE  jobs'[j].pending = shown
    <3>1. jobs[j].pending =
            [id |-> t.approval, change |-> t.plan.changes[t.index],
             index |-> t.index, consumed |-> bell[j] = "rung"]
      BY <1>1, <1>2 DEF JobInv, PendingOk
    <3> QED
      BY <1>8, <3>1, MarkedConsumed
  <2>2. ~confirm => j \in stop'
    OBVIOUS
  <2>3. (bell'[j] = "rung") = TRUE
    BY <1>4
  <2> HIDE DEF shown
  <2>4. confirm => jobs'[j].status # "awaiting_approval"
    BY <1>8
  <2>5. SUFFICES ASSUME ~confirm
                 PROVE  PendingOk(j)'
    BY <2>4 DEF PendingOk
  <2>6. jobs'[j].pending =
          [id |-> t.approval, change |-> t.plan.changes[t.index],
           index |-> t.index, consumed |-> bell'[j] = "rung"]
    BY <2>1, <2>3, <2>5 DEF shown
  <2> QED
    BY <1>2, <1>4, <2>2, <2>5, <2>6 DEF PendingOk
<1>11. StopOk(j)' /\ StopHolds(j)
  BY <1>2 DEF StopOk, StopHolds, Submits
<1>12. SlipOk(j)'
  BY <1>1 DEF JobInv, SlipOk
<1> QED
  BY <1>6, <1>9, <1>10, <1>11, <1>12 DEF Keeps

LEMMA ApproveKeeps ==
    ASSUME SafetyInv, NEW j \in Job, ApproveStep(j)
    PROVE  Keeps(j)
<1>1. PICK a \in ApprovalId :
        /\ Decidable(j, a)
        /\ Put(j, Consumed(jobs[j], a, TRUE))
        /\ bell' = [bell EXCEPT ![j] = "rung"]
        /\ consent' = consent \union {a}
        /\ UNCHANGED <<task, stop, cancelled, up, epoch, unused, ledger, spent>>
  BY DEF ApproveStep
<1> QED
  BY <1>1, DecisionKeeps

LEMMA RejectKeeps ==
    ASSUME SafetyInv, NEW j \in Job, RejectStep(j)
    PROVE  Keeps(j)
<1>1. PICK a \in ApprovalId :
        /\ Decidable(j, a)
        /\ Put(j, Consumed(jobs[j], a, FALSE))
        /\ stop' = stop \union {j}
        /\ bell' = [bell EXCEPT ![j] = "rung"]
        /\ UNCHANGED <<task, cancelled, up, epoch, unused, ledger, consent>>
  BY DEF RejectStep, history
<1> QED
  BY <1>1, DecisionKeeps

\* A cancel marks the record and the coroutine; a poll closes a record whose
\* coroutine is dead.
LEMMA CancelPollKeeps ==
    ASSUME SafetyInv, NEW j \in Job, CancelJob(j) \/ PollJob(j)
    PROVE  Keeps(j)
<1>1. TypeOK /\ JobInv(j) /\ jobs[j] \in JobRecord
  BY RecordTyped DEF SafetyInv, IInv, CancelJob, PollJob
<1>2. /\ up /\ Recorded(j) /\ jobs[j].status \in Active
      /\ UNCHANGED <<task, bell, up, epoch, unused, ledger, consent>>
      /\ \A k \in Job \ {j} : /\ k \in stop' <=> k \in stop
                              /\ k \in cancelled' <=> k \in cancelled
  BY DEF CancelJob, PollJob, wires, history
<1>3. PICK status \in {"cancelling", "failed"} :
        /\ Put(j, WithStatus(jobs[j], status))
        /\ status = "failed" => task[j].pc = "dead" /\ UNCHANGED <<stop, cancelled>>
        /\ status = "cancelling" => /\ stop' = stop \union {j}
                                    /\ Live(j) => cancelled' = cancelled \union {j}
  BY DEF CancelJob, PollJob, wires
<1>4. /\ \A k \in Job \ {j} : jobs'[k] = jobs[k]
      /\ jobs'[j] = WithStatus(jobs[j], status) /\ FileFollows
  BY <1>1, <1>2, <1>3, PutFrame
<1>5. status \in Active \union Terminal
  BY DEF Active, Terminal
<1>6. jobs'[j].status = status
  BY <1>1, <1>4, <1>5, EditsTyped
<1>7. task[j].pc # "none"
  BY <1>1, <1>2 DEF JobInv, StatusOk
<1>8. Local(j)
  BY <1>2, <1>4, SameHistory, NotFresh DEF Local, Apart, Unfinished
<1>9. StatusOk(j)' /\ PendingOk(j)'
  BY <1>2, <1>3, <1>6, <1>7 DEF StatusOk, PendingOk, Live, Active
<1>10. StopOk(j)' /\ StopHolds(j)
  BY <1>1, <1>2, <1>3, <1>7 DEF JobInv, StopOk, StopHolds, Submits, Live
<1>11. SlipOk(j)'
  BY <1>1, <1>2 DEF JobInv, SlipOk
<1> QED
  BY <1>8, <1>9, <1>10, <1>11 DEF Keeps

LEMMA DeleteKeeps ==
    ASSUME SafetyInv, NEW j \in Job, DeleteRecord(j)
    PROVE  Keeps(j)
<1>1. TypeOK /\ JobInv(j)
  BY DEF SafetyInv, IInv
<1>0. Persist(jobs', order')
  BY DEF DeleteRecord
<1>2. /\ up /\ Recorded(j) /\ jobs' = [jobs EXCEPT ![j] = None]
      /\ UNCHANGED <<task, stop, cancelled, bell, up, epoch, unused, ledger, consent>>
  BY DEF DeleteRecord, wires, history
<1>3. jobs'[j] = None /\ \A k \in Job \ {j} : jobs'[k] = jobs[k]
  BY <1>1, <1>2 DEF TypeOK
<1>4. FileFollows
  BY <1>0 DEF Persist, FileFollows
<1>5. Local(j)
  BY <1>2, <1>3, <1>4, SameHistory, NotFresh DEF Local, Apart, Unfinished
<1>6. StatusOk(j)' /\ PendingOk(j)'
  BY <1>3 DEF StatusOk, PendingOk, Recorded
<1>7. StopOk(j)' /\ SlipOk(j)' /\ StopHolds(j)
  BY <1>1, <1>2 DEF JobInv, StopOk, SlipOk, StopHolds, Submits, Live
<1> QED
  BY <1>5, <1>6, <1>7 DEF Keeps

-----------------------------------------------------------------------------
(* Crash and restart *)

LEMMA DeathKeeps ==
    ASSUME SafetyInv, Die, \A k \in unused : disk'.jobs[k] = None
    PROVE  \A k \in Job : JobInv(k)' /\ StopHolds(k)
<1>1. /\ up' = FALSE /\ stop' = {} /\ unused' = unused
      /\ \A k \in Job : jobs'[k] = None /\ task'[k] = NoTask
  BY DEF Die
<1>2. \A k \in Job : task'[k].pc = "none"
  BY <1>1, NoTaskTyped
<1> SUFFICES ASSUME NEW k \in Job PROVE JobInv(k)' /\ StopHolds(k)
  OBVIOUS
<1>3. StatusOk(k)' /\ PendingOk(k)' /\ StopOk(k)' /\ SlipOk(k)'
  BY <1>1, <1>2 DEF StatusOk, PendingOk, StopOk, SlipOk, Recorded
<1>4. DownOk(k)' /\ FreshOk(k)' /\ FinalOk(k)' /\ SavedOk(k)'
  BY <1>1, <1>2 DEF DownOk, FreshOk, FinalOk, SavedOk, Recorded, Live
<1>5. StopHolds(k)
  BY <1>2 DEF StopHolds, Submits
<1> QED
  BY <1>3, <1>4, <1>5 DEF JobInv

LEMMA CrashKeeps ==
    ASSUME SafetyInv, Crash \/ \E j \in Job : CrashInReleaseGate(j)
    PROVE  Die /\ \A k \in unused : disk'.jobs[k] = None
<1>1. \A k \in unused : jobs[k] = None /\ disk.jobs[k] = None
  BY DEF SafetyInv, IInv, TypeOK, JobInv, FreshOk
<1>2. CASE Crash
  BY <1>1, <1>2 DEF Crash
<1>3. CASE \E j \in Job : CrashInReleaseGate(j)
  <2>1. PICK j \in Job : CrashInReleaseGate(j)
    BY <1>3
  <2>2. Die /\ j \notin unused
    BY <1>1, <2>1 DEF CrashInReleaseGate, Recorded
  <2>3. PICK t : disk' = [jobs |-> [jobs EXCEPT
                              ![j] = WithStatus(Started(@, t), "blocked")],
                          order |-> order]
    BY <2>1 DEF CrashInReleaseGate
  <2> DEFINE r == WithStatus(Started(jobs[j], t), "blocked")
  <2>4. disk'.jobs = [jobs EXCEPT ![j] = r]
    BY <2>3
  <2> HIDE DEF r
  <2>5. \A k \in unused : disk'.jobs[k] = jobs[k]
    BY <2>2, <2>4 DEF SafetyInv, IInv, TypeOK
  <2> QED
    BY <1>1, <2>2, <2>5
<1> QED
  BY <1>2, <1>3

LEMMA ReloadedStatus ==
    ASSUME NEW r \in JobRecord \union {None}
    PROVE  /\ r = None => Reloaded(r) = None
           /\ Resumes(r) => Reloaded(r).status = "queued"
           /\ r # None /\ ~Resumes(r) => Reloaded(r).status = r.status
<1>1. CASE Resumes(r)
  BY <1>1 DEF Reloaded, Resumes, NewJob
<1>2. CASE r # None /\ ~Resumes(r)
  <2> DEFINE p == Restored(r.plan)
  <2>1. Reloaded(r) = [r EXCEPT !.plan = p]
    BY <1>2 DEF Reloaded
  <2> HIDE DEF p
  <2> QED
    BY <1>2, <2>1 DEF JobRecord
<1>3. CASE r = None
  BY <1>3 DEF Reloaded, Resumes
<1> QED
  BY <1>1, <1>2, <1>3

\* What one job is after a restart.
LEMMA RestartEffect ==
    ASSUME SafetyInv, Restart, NEW j \in Job
    PROVE  /\ stop' = {} /\ up' = TRUE /\ unused' = unused
           /\ disk.jobs[j] = None => jobs'[j] = None
           /\ Resumes(disk.jobs[j]) =>
                jobs'[j].status = "queued" /\ task'[j].pc = "ready"
           /\ ~Resumes(disk.jobs[j]) =>
                /\ task'[j].pc = "none"
                /\ disk.jobs[j] # None => jobs'[j].status = disk.jobs[j].status
           /\ \/ disk'.jobs = jobs'
              \/ /\ disk'.jobs = disk.jobs
                 /\ DiskMayFail \/ ~Resumes(disk.jobs[j])
<1>1. disk.jobs[j] \in JobRecord \union {None}
  BY DEF SafetyInv, IInv, TypeOK
<1>2. /\ jobs'[j] = Reloaded(disk.jobs[j])
      /\ task'[j] = IF Resumes(disk.jobs[j])
                    THEN NewTask("ready", jobs'[j].plan, jobs'[j].tried)
                    ELSE NoTask
  BY DEF Restart
<1>3. task'[j].pc = IF Resumes(disk.jobs[j]) THEN "ready" ELSE "none"
  BY <1>2, NoTaskTyped DEF NewTask
<1>4. stop' = {} /\ up' = TRUE /\ unused' = unused
  <2>1. ~up /\ up' = TRUE /\ stop' = stop /\ unused' = unused
    BY DEF Restart, wires, history
  <2>2. stop = {}
    BY <2>1 DEF SafetyInv, IInv, TypeOK, JobInv, DownOk
  <2> QED
    BY <2>1, <2>2
<1>5. \/ Persist(jobs', order')
      \/ ~Resumes(disk.jobs[j]) /\ disk' = disk
  BY DEF Restart
<1>6. \/ disk'.jobs = jobs'
      \/ disk'.jobs = disk.jobs /\ (DiskMayFail \/ ~Resumes(disk.jobs[j]))
  BY <1>5 DEF Persist
<1>7. /\ disk.jobs[j] = None => jobs'[j] = None
      /\ Resumes(disk.jobs[j]) => jobs'[j].status = "queued"
      /\ disk.jobs[j] # None /\ ~Resumes(disk.jobs[j]) =>
           jobs'[j].status = disk.jobs[j].status
  BY <1>1, <1>2, ReloadedStatus
<1> QED
  BY <1>3, <1>4, <1>6, <1>7

LEMMA RestartKeeps ==
    ASSUME SafetyInv, Restart
    PROVE  \A k \in Job : JobInv(k)' /\ StopHolds(k)
<1> SUFFICES ASSUME NEW k \in Job PROVE JobInv(k)' /\ StopHolds(k)
  OBVIOUS
<1>1. /\ stop' = {} /\ up' = TRUE /\ unused' = unused
      /\ disk.jobs[k] = None => jobs'[k] = None
      /\ Resumes(disk.jobs[k]) =>
           jobs'[k].status = "queued" /\ task'[k].pc = "ready"
      /\ ~Resumes(disk.jobs[k]) =>
           /\ task'[k].pc = "none"
           /\ disk.jobs[k] # None => jobs'[k].status = disk.jobs[k].status
      /\ \/ disk'.jobs = jobs'
         \/ disk'.jobs = disk.jobs /\ (DiskMayFail \/ ~Resumes(disk.jobs[k]))
  BY RestartEffect
<1>2. stop = {} /\ JobInv(k)
  <2>1. ~up
    BY DEF Restart
  <2> QED
    BY <2>1 DEF SafetyInv, IInv, TypeOK, JobInv, DownOk
<1>3. StatusOk(k)'
  BY <1>1 DEF StatusOk, Recorded, Live, Resumes, Active
<1>4. PendingOk(k)' /\ StopOk(k)' /\ SlipOk(k)' /\ DownOk(k)'
  BY <1>1 DEF PendingOk, StopOk, SlipOk, DownOk, Recorded, Resumes, Active
<1>5. FreshOk(k)'
  BY <1>1, <1>2 DEF JobInv, FreshOk, Resumes
<1>6. FinalOk(k)'
  <2>1. CASE disk'.jobs = jobs'
    BY <1>1, <1>3, <2>1 DEF FinalOk, StatusOk, Recorded, Active, Terminal
  <2>2. CASE disk'.jobs = disk.jobs
    BY <1>1, <2>2 DEF FinalOk, Recorded, Live, Resumes, Active, Terminal
  <2> QED
    BY <1>1, <2>1, <2>2
<1>7. SavedOk(k)'
  BY <1>1 DEF SavedOk, Recorded
<1>8. StopHolds(k)
  BY <1>2 DEF StopHolds
<1> QED
  BY <1>3, <1>4, <1>5, <1>6, <1>7, <1>8 DEF JobInv

-----------------------------------------------------------------------------
(* The invariant and what a step may do *)

LEMMA InitSafety == Init => SafetyInv
<1> SUFFICES ASSUME Init PROVE SafetyInv
  OBVIOUS
<1>1. /\ up /\ stop = {} /\ consent = {} /\ disk.jobs = jobs
      /\ \A j \in Job : jobs[j] = None /\ task[j] = NoTask
  BY DEF Init
<1>2. \A j \in Job : task[j].pc = "none"
  BY <1>1, NoTaskTyped
<1>3. ASSUME NEW j \in Job PROVE JobInv(j)
  BY <1>1, <1>2
     DEF JobInv, StatusOk, PendingOk, StopOk, SlipOk, DownOk, FreshOk, FinalOk,
         SavedOk, Recorded, Live
<1> QED
  BY <1>1, <1>3, InitialInvariant DEF SafetyInv, ConsentIssued

\* The steps of one job are local, save the crash.
LEMMA ShapeKeeps ==
    ASSUME SafetyInv, NEW j \in Job, Shape(j), ~CrashInReleaseGate(j)
    PROVE  Keeps(j)
<1>1. CASE Advances(j) \/ AsksNext(j) \/ SubmitChange(j) \/ Ends(j) \/ StartFails(j)
  BY <1>1, AdvanceKeeps, AskKeeps, SubmitKeeps, EndKeeps, StartFailsKeeps
<1>2. CASE Enqueue(j) \/ ApproveStep(j) \/ RejectStep(j)
  BY <1>2, EnqueueKeeps, ApproveKeeps, RejectKeeps
<1>3. CASE CancelJob(j) \/ PollJob(j) \/ DeleteRecord(j)
  BY <1>3, CancelPollKeeps, DeleteKeeps
<1> QED
  BY <1>1, <1>2, <1>3 DEF Shape

\* What the rest of the proofs needs of a step: it is local, a death, a restart
\* or no step at all.
LEMMA StepCases ==
    ASSUME SafetyInv, [Next]_vars
    PROVE  \/ \E j \in Job : Shape(j) /\ Keeps(j)
           \/ Die /\ \A k \in unused : disk'.jobs[k] = None
           \/ Restart
           \/ UNCHANGED vars
<1>1. CASE Next
  BY <1>1, NextShapes, ShapeKeeps, CrashKeeps DEF SafetyInv, IInv
<1> QED
  BY <1>1

LEMMA JobInvKept ==
    ASSUME SafetyInv, [Next]_vars
    PROVE  \A k \in Job : JobInv(k)' /\ StopHolds(k)
<1>1. CASE UNCHANGED vars
  <2> SUFFICES ASSUME NEW k \in Job PROVE JobInv(k)' /\ StopHolds(k)
    OBVIOUS
  <2>1. JobInv(k)
    BY DEF SafetyInv
  <2>2. StatusOk(k)' /\ PendingOk(k)' /\ StopOk(k)' /\ SlipOk(k)'
    BY <1>1, <2>1
       DEF vars, JobInv, StatusOk, PendingOk, StopOk, SlipOk, Recorded, Live
  <2>3. DownOk(k)' /\ FreshOk(k)' /\ FinalOk(k)' /\ SavedOk(k)'
    BY <1>1, <2>1
       DEF vars, JobInv, DownOk, FreshOk, FinalOk, SavedOk, Recorded, Live
  <2> QED
    BY <1>1, <2>2, <2>3 DEF vars, JobInv, StopHolds, Submits
<1> QED
  BY <1>1, StepCases, KeepsEveryJob, DeathKeeps, RestartKeeps

LEMMA ConsentKept ==
    ASSUME SafetyInv, [Next]_vars
    PROVE  ConsentIssued'
<1>1. \A a \in consent : a \in ApprovalId /\ ledger[a] # None
  BY DEF SafetyInv, ConsentIssued, IInv, TypeOK
<1>2. CASE UNCHANGED <<ledger, consent>>
  BY <1>1, <1>2 DEF ConsentIssued
<1>3. CASE \E j \in Job : Shape(j) /\ Keeps(j)
  <2>1. PICK j \in Job : Shape(j) /\ Keeps(j)
    BY <1>3
  <2>2. \A a \in ApprovalId : ledger[a] # None => ledger'[a] = ledger[a]
    BY <2>1 DEF Keeps, Local, HistoryGrows
  <2>3. CASE consent' = consent
    BY <1>1, <2>2, <2>3 DEF ConsentIssued
  <2>4. CASE ApproveStep(j)
    <3>1. PICK a \in ApprovalId : Decidable(j, a) /\ consent' = consent \union {a}
      BY <2>4 DEF ApproveStep
    <3>2. ledger[a] # None
      BY <3>1 DEF Decidable
    <3> QED
      BY <1>1, <2>2, <3>1, <3>2 DEF ConsentIssued
  <2>5. consent' = consent \/ ApproveStep(j) \/ CrashInReleaseGate(j)
    BY <2>1
       DEF Shape, Advances, AsksNext, SubmitChange, Ends, StartFails, Enqueue,
           RejectStep, CancelJob, PollJob, DeleteRecord, Quiet, history
  <2>6. CrashInReleaseGate(j) => consent' = consent
    BY DEF CrashInReleaseGate, Die
  <2> QED
    BY <2>3, <2>4, <2>5, <2>6
<1>4. CASE Die \/ Restart \/ UNCHANGED vars
  BY <1>2, <1>4 DEF Die, Restart, vars, history
<1> QED
  BY <1>3, <1>4, StepCases

LEMMA SafetyKept ==
    ASSUME SafetyInv, [Next]_vars
    PROVE  SafetyInv'
  BY EveryStep, JobInvKept, ConsentKept DEF SafetyInv

LEMMA SafetyInductive == Spec => []SafetyInv
<1>1. Init => SafetyInv
  BY InitSafety
<1>2. SafetyInv /\ [Next]_vars => SafetyInv'
  BY SafetyKept
<1> QED
  BY <1>1, <1>2, PTL DEF Spec

-----------------------------------------------------------------------------
(* Theorems *)

\* A status tells the truth about its coroutine, for any number of jobs and
\* operators, any eviction, deletion, death of a task, crash and restart.
THEOREM StatusesTrackTasks == Spec => []StatusTracksTask
<1>1. SafetyInv => StatusTracksTask
  BY DEF SafetyInv, JobInv, StatusOk, StatusTracksTask
<1> QED
  BY <1>1, SafetyInductive, PTL

\* A record that awaits an approval can be decided: its coroutine waits on the
\* very request it shows, with an event to ring.
THEOREM PendingsAreLive == Spec => []PendingIsLive
<1>1. SafetyInv => PendingIsLive
  BY DEF SafetyInv, JobInv, PendingOk, PendingIsLive
<1> QED
  BY <1>1, SafetyInductive, PTL

\* What the executor runs is what the confirmed request displayed, for this job
\* and by this process.
THEOREM SubmissionsAreConsented == Spec => []ConsentedSubmission
<1>1. SafetyInv => ConsentedSubmission
  BY DEF SafetyInv, JobInv, SlipOk, ConsentedSubmission
<1> QED
  BY <1>1, SafetyInductive, PTL

\* When writes succeed, the file has an unfinished record of every recorded job
\* whose coroutine runs, at every instant.
THEOREM UnfinishedAreSaved == Spec => []UnfinishedJobsSaved
<1>1. SafetyInv => UnfinishedJobsSaved
  BY DEF SafetyInv, JobInv, StatusOk, SavedOk, UnfinishedJobsSaved, Resumes
<1> QED
  BY <1>1, SafetyInductive, PTL

\* From an accepted cancel or rejection on, no step submits a change of the job
\* or asks for another approval, and none withdraws the decision.
THEOREM StopsAreFinal == Spec => StopIsFinal
<1> DEFINE Stopped ==
      \A j \in stop : /\ ~Submits(j)
                      /\ task'[j].pc = "approval" => task'[j] = task[j]
                      /\ j \in stop' \/ task'[j].pc = "none"
<1>1. SafetyInv => stop \subseteq Job
  BY DEF SafetyInv, IInv, TypeOK
<1>2. SafetyInv /\ [Next]_vars => [Stopped]_vars
  BY <1>1, JobInvKept DEF StopHolds
<1> QED
  BY <1>2, SafetyInductive, PTL DEF Spec, StopIsFinal

-----------------------------------------------------------------------------
(* Verdicts *)

\* FinishedStaysFinished, for one job.
VerdictHolds(k) ==
    /\ disk.jobs[k] # None /\ disk.jobs[k].status \in Terminal =>
         /\ ~Live(k)'
         /\ disk'.jobs[k] # None => disk'.jobs[k].status = disk.jobs[k].status
    /\ k \notin unused /\ ~Recorded(k) /\ disk.jobs[k] = None =>
         ~Recorded(k)' /\ disk'.jobs[k] = None

LEMMA LocalVerdict ==
    ASSUME SafetyInv, NEW j \in Job, Keeps(j), NEW k \in Job
    PROVE  VerdictHolds(k)
<1>1. JobInv(k) /\ Local(j) /\ FileFollows
  BY DEF SafetyInv, Keeps, Local
<1>2. CASE k # j
  <2>1. Apart(k)
    BY <1>1, <1>2 DEF Local
  <2> QED
    BY <1>1, <2>1
       DEF JobInv, FinalOk, VerdictHolds, Apart, FileFollows, Recorded, Live
<1>3. CASE k = j
  <2>1. Unfinished(j) /\ (j \in unused \/ Recorded(j) \/ jobs'[j] = None)
    BY <1>1 DEF Local
  <2>2. ASSUME disk.jobs[j] # None, disk.jobs[j].status \in Terminal
        PROVE  jobs'[j] = None /\ ~Live(j)'
    BY <1>1, <1>3, <2>1, <2>2
       DEF JobInv, FinalOk, FreshOk, Unfinished, Recorded, Live, Active, Terminal
  <2>3. ASSUME j \notin unused, ~Recorded(j), disk.jobs[j] = None
        PROVE  ~Recorded(j)' /\ disk'.jobs[j] = None
    BY <1>1, <2>1, <2>3 DEF FileFollows, Recorded
  <2> QED
    BY <1>1, <1>3, <2>2, <2>3 DEF VerdictHolds, FileFollows
<1> QED
  BY <1>2, <1>3

\* Even the crash between the two writes of a denied release gate: the job whose
\* record it leaves as "blocked" had a coroutine, so it was not finished.
LEMMA DeathVerdict ==
    ASSUME SafetyInv, Crash \/ \E j \in Job : CrashInReleaseGate(j), NEW k \in Job
    PROVE  VerdictHolds(k)
<1>1. JobInv(k)
  BY DEF SafetyInv
<1>2. ~Live(k)' /\ ~Recorded(k)'
  <2>1. Die
    BY DEF Crash, CrashInReleaseGate
  <2>2. jobs'[k] = None /\ task'[k] = NoTask
    BY <2>1 DEF Die
  <2> QED
    BY <2>2, NoTaskTyped DEF Live, Recorded
<1>3. CASE Crash
  BY <1>2, <1>3 DEF Crash, VerdictHolds
<1>4. CASE \E j \in Job : CrashInReleaseGate(j)
  <2>1. PICK j \in Job : CrashInReleaseGate(j)
    BY <1>4
  <2>2. Recorded(j) /\ Starting(j) # {}
    BY <2>1 DEF CrashInReleaseGate
  <2>3. Live(j)
    BY <2>2 DEF Starting, At, Live
  <2>4. PICK t : disk' = [jobs |-> [jobs EXCEPT
                              ![j] = WithStatus(Started(@, t), "blocked")],
                          order |-> order]
    BY <2>1 DEF CrashInReleaseGate
  <2> DEFINE r == WithStatus(Started(jobs[j], t), "blocked")
  <2>5. disk'.jobs = [jobs EXCEPT ![j] = r]
    BY <2>4
  <2> HIDE DEF r
  <2>6. k # j => disk'.jobs[k] = jobs[k]
    BY <2>5 DEF SafetyInv, IInv, TypeOK
  <2>7. CASE k # j
    BY <1>1, <1>2, <2>6, <2>7 DEF JobInv, FinalOk, VerdictHolds, Recorded
  <2>8. CASE k = j
    BY <1>1, <1>2, <2>2, <2>3, <2>8 DEF JobInv, FinalOk, VerdictHolds
  <2> QED
    BY <2>7, <2>8
<1> QED
  BY <1>3, <1>4

LEMMA RestartVerdict ==
    ASSUME SafetyInv, Restart, NEW k \in Job
    PROVE  VerdictHolds(k)
  BY RestartEffect
     DEF VerdictHolds, Resumes, Recorded, Live, Active, Terminal

LEMMA EveryVerdict ==
    ASSUME SafetyInv, [Next]_vars, NEW k \in Job
    PROVE  VerdictHolds(k)
<1>1. CASE \E j \in Job : Shape(j) /\ ~CrashInReleaseGate(j)
  BY <1>1, ShapeKeeps, LocalVerdict
<1>2. CASE Crash \/ \E j \in Job : CrashInReleaseGate(j)
  BY <1>2, DeathVerdict
<1>3. CASE Restart
  BY <1>3, RestartVerdict
<1>4. CASE UNCHANGED vars
  BY <1>4 DEF SafetyInv, JobInv, FinalOk, VerdictHolds, vars, Recorded, Live
<1> QED
  BY <1>1, <1>2, <1>3, <1>4, NextShapes DEF SafetyInv, IInv

\* A job the file shows as finished never runs again and keeps its verdict, and
\* one that is neither in the table nor in the file never returns: for every
\* loss of writes, crash and restart.
THEOREM VerdictsAreFinal == Spec => FinishedStaysFinished
<1> DEFINE Verdicts ==
      \A j \in Job :
        /\ disk.jobs[j] # None /\ disk.jobs[j].status \in Terminal =>
             /\ ~Live(j)'
             /\ disk'.jobs[j] # None =>
                  disk'.jobs[j].status = disk.jobs[j].status
        /\ j \notin unused /\ ~Recorded(j) /\ disk.jobs[j] = None =>
             ~Recorded(j)' /\ disk'.jobs[j] = None
<1>1. SafetyInv /\ [Next]_vars => [Verdicts]_vars
  BY EveryVerdict DEF VerdictHolds
<1> QED
  BY <1>1, SafetyInductive, PTL DEF Spec, FinishedStaysFinished

-----------------------------------------------------------------------------
(* The protection threshold *)

\* The jobs a restart would resume.
Resumable == {j \in Job : Resumes(disk.jobs[j])}

Within(S) == IsFiniteSet(S) /\ Cardinality(S) <= MaxConcurrent

\* The file is as bounded as the table, for a restart puts the file in its place.
Bounded == Within(Busy) /\ Within(Resumable)

LEMMA SmallerWithin ==
    ASSUME NEW S, NEW T, Within(S), T \subseteq S
    PROVE  Within(T)
<1>1. /\ IsFiniteSet(T) /\ Cardinality(T) <= Cardinality(S)
      /\ Cardinality(T) \in Nat /\ Cardinality(S) \in Nat
  BY FS_Subset, FS_CardinalityType DEF Within
<1> QED
  BY <1>1, LimitAssumption DEF Within

\* Only a request adds a job to the busy ones, and it found one place free.
LEMMA BusyKept ==
    ASSUME SafetyInv, Bounded, NEW j \in Job, Shape(j), Keeps(j)
    PROVE  Within(Busy')
<1>1. Local(j) /\ JobInv(j) /\ TypeOK /\ up
  BY DEF SafetyInv, IInv, Keeps, Local
<1>2. ASSUME NEW k \in Busy', k # j PROVE k \in Busy
  <2>1. jobs'[k] = jobs[k] \/ jobs'[k] = None
    BY <1>1, <1>2 DEF Local, Apart, Busy
  <2> QED
    BY <1>2, <2>1 DEF Busy, Recorded
<1>3. CASE j \in unused
  <2>1. Enqueue(j)
    <3>1. /\ task[j].pc = "none" /\ ~Recorded(j) /\ ~Live(j)
      BY <1>1, <1>3 DEF JobInv, FreshOk, Recorded, Live
    <3>2. ~Advances(j) /\ ~AsksNext(j) /\ ~SubmitChange(j) /\ ~StartFails(j)
      BY <3>1 DEF Advances, AsksNext, Runs, SubmitChange, StartFails, At
    <3>3. ~Ends(j)
      BY <3>1 DEF Ends
    <3>4. /\ ~ApproveStep(j) /\ ~RejectStep(j) /\ ~CancelJob(j) /\ ~PollJob(j)
          /\ ~DeleteRecord(j) /\ ~CrashInReleaseGate(j)
      BY <3>1 DEF ApproveStep, RejectStep, Decidable, CancelJob, PollJob,
                  DeleteRecord, CrashInReleaseGate
    <3> QED
      BY <3>2, <3>3, <3>4 DEF Shape
  <2>2. IsFiniteSet(Busy) /\ Cardinality(Busy) < MaxConcurrent
    BY <2>1 DEF Enqueue, Bounded, Within
  <2>3. /\ IsFiniteSet(Busy \union {j})
        /\ Cardinality(Busy \union {j}) \in {Cardinality(Busy), Cardinality(Busy) + 1}
        /\ Cardinality(Busy) \in Nat
    BY <2>2, FS_AddElement, FS_CardinalityType
  <2>4. Within(Busy \union {j})
    BY <2>2, <2>3, LimitAssumption DEF Within
  <2> QED
    BY <1>2, <2>4, SmallerWithin
<1>4. CASE j \notin unused
  <2>1. ASSUME j \in Busy' PROVE j \in Busy
    BY <1>1, <1>4, <2>1
       DEF Local, Unfinished, JobInv, StatusOk, Busy, Recorded, Live
  <2>2. Busy' \subseteq Busy
    BY <1>2, <2>1
  <2> QED
    BY <2>2, SmallerWithin DEF Bounded
<1> QED
  BY <1>3, <1>4

LEMMA BoundedKept ==
    ASSUME SafetyInv, Bounded, [Next]_vars
    PROVE  Bounded'
<1>1. Within(Busy) /\ Within(Resumable) /\ MaxConcurrent' = MaxConcurrent
  BY DEF Bounded
<1>2. CASE \E j \in Job : Shape(j) /\ Keeps(j)
  <2>1. Within(Busy') /\ FileFollows
    BY <1>2, BusyKept DEF Keeps, Local
  <2>2. disk'.jobs = jobs' => Resumable' = Busy'
    BY DEF Resumable, Resumes, Busy, Recorded
  <2>3. disk'.jobs = disk.jobs => Resumable' = Resumable
    BY DEF Resumable, Resumes
  <2> QED
    BY <1>1, <2>1, <2>2, <2>3 DEF FileFollows, Bounded, Within
<1>3. CASE Crash \/ \E j \in Job : CrashInReleaseGate(j)
  <2>1. Busy' \subseteq Busy
    BY <1>3 DEF Crash, CrashInReleaseGate, Die, Busy, Recorded
  <2>2. CASE Crash
    <3>1. Resumable' = Resumable
      BY <2>2 DEF Crash, Resumable, Resumes
    <3> QED
      BY <1>1, <2>1, <3>1, SmallerWithin DEF Bounded, Within
  <2>3. CASE \E j \in Job : CrashInReleaseGate(j)
    <3>0. PICK j \in Job : CrashInReleaseGate(j)
      BY <2>3
    <3>1. PICK t \in Starting(j) :
            /\ Recorded(j)
            /\ disk' = [jobs |-> [jobs EXCEPT
                                   ![j] = WithStatus(Started(@, t), "blocked")],
                        order |-> order]
      BY <3>0 DEF CrashInReleaseGate
    <3> DEFINE r == WithStatus(Started(jobs[j], t), "blocked")
    <3>2. disk'.jobs = [jobs EXCEPT ![j] = r]
      BY <3>1
    <3>3. r.status = "blocked"
      BY <3>1 DEF SafetyInv, IInv, TypeOK, Recorded, JobRecord, WithStatus, Started
    <3> HIDE DEF r
    <3>4. disk'.jobs[j] = r /\ \A k \in Job \ {j} : disk'.jobs[k] = jobs[k]
      BY <3>2 DEF SafetyInv, IInv, TypeOK
    <3>5. Resumable' \subseteq Busy
      BY <3>3, <3>4 DEF Resumable, Resumes, Busy, Recorded, Active
    <3> QED
      BY <1>1, <2>1, <3>5, SmallerWithin DEF Bounded, Within
  <2> QED
    BY <1>3, <2>2, <2>3
<1>4. CASE Restart
  <2>1. Busy' \subseteq Resumable
    BY <1>4, RestartEffect DEF Resumable, Busy, Recorded, Resumes, Active
  <2>2. Resumable' \subseteq Resumable
    BY <1>4, <2>1, RestartEffect
       DEF Resumable, Busy, Recorded, Resumes, Active
  <2> QED
    BY <1>1, <2>1, <2>2, SmallerWithin DEF Bounded, Within
<1>5. CASE UNCHANGED vars
  <2>1. Busy' = Busy /\ Resumable' = Resumable
    BY <1>5 DEF vars, Busy, Recorded, Resumable, Resumes
  <2> QED
    BY <1>1, <2>1 DEF Bounded, Within
<1> QED
  BY <1>2, <1>3, <1>4, <1>5, NextShapes, ShapeKeeps DEF SafetyInv, IInv

LEMMA BoundedInductive == Spec => []Bounded
<1>1. Init => Bounded
  <2> SUFFICES ASSUME Init PROVE Bounded
    OBVIOUS
  <2>1. Busy = {} /\ Resumable = {}
    BY DEF Init, Busy, Recorded, Resumable, Resumes
  <2> QED
    BY <2>1, FS_EmptySet, LimitAssumption DEF Bounded, Within
<1>2. SafetyInv /\ Bounded /\ [Next]_vars => Bounded'
  BY BoundedKept
<1> QED
  BY <1>1, <1>2, SafetyInductive, PTL DEF Spec

\* No matter what is evicted, the recorded jobs whose coroutine runs are bounded.
RecordedConcurrency ==
    Cardinality({j \in Job : Live(j) /\ Recorded(j)}) <= MaxConcurrent

\* Evictions, deletions, crashes and lost writes included, the jobs that are in the
\* table and run never exceed the protection threshold of _enqueue_ops_job.
THEOREM RecordedBounded == Spec => []RecordedConcurrency
<1>1. SafetyInv /\ Bounded => RecordedConcurrency
  <2> SUFFICES ASSUME SafetyInv, Bounded PROVE RecordedConcurrency
    OBVIOUS
  <2>1. {j \in Job : Live(j) /\ Recorded(j)} \subseteq Busy
    BY DEF SafetyInv, JobInv, StatusOk, DownOk, Busy, Live
  <2> QED
    BY <2>1, SmallerWithin DEF Bounded, Within, RecordedConcurrency
<1> QED
  BY <1>1, SafetyInductive, BoundedInductive, PTL

\* No record leaves the table while its coroutine goes on.
KeepsLive == \A j \in Job : Live(j)' /\ Recorded(j) => Recorded(j)'
LiveRecorded == \A j \in Job : Live(j) => Recorded(j)

LEMMA ResumedIsRecord ==
    ASSUME NEW r \in JobRecord, Resumes(r)
    PROVE  Reloaded(r) # None
<1>1. Reloaded(r) \in JobRecord
  BY ReloadedTyped
<1> QED
  BY <1>1, RecordAssumption

LEMMA LiveRecordedKept ==
    ASSUME SafetyInv, LiveRecorded, [Next]_vars, [KeepsLive]_vars
    PROVE  LiveRecorded'
<1>1. CASE UNCHANGED vars
  BY <1>1 DEF LiveRecorded, vars, Live, Recorded
<1> SUFFICES ASSUME ~UNCHANGED vars, NEW k \in Job, Live(k)' PROVE Recorded(k)'
  BY <1>1 DEF LiveRecorded
<1>2. KeepsLive
  OBVIOUS
<1>3. CASE \E j \in Job : Shape(j) /\ Keeps(j)
  <2>1. PICK j \in Job : Shape(j) /\ Keeps(j)
    BY <1>3
  <2>2. CASE k # j \/ Live(k)
    BY <1>2, <2>1, <2>2 DEF Keeps, Local, Apart, LiveRecorded, KeepsLive, Live
  <2>3. CASE k = j /\ ~Live(j)
    <3>1. Enqueue(j)
      BY <2>1, <2>3, NoTaskTyped
         DEF Shape, Advances, AsksNext, Ends, Runs, SubmitChange, StartFails, At,
             ApproveStep, RejectStep, CancelJob, PollJob, DeleteRecord, Live,
             CrashInReleaseGate, Keeps, Local, Die
    <3>2. PICK p \in Proposal : jobs'[j] = NewJob(p, {})
      BY <3>1 DEF Enqueue
    <3>3. p \in Strategy /\ {} \in SUBSET Fingerprints
      BY ProposalAssumption
    <3> QED
      BY <2>3, <3>2, <3>3, NewJobTyped, RecordAssumption DEF Recorded
  <2> QED
    BY <2>2, <2>3
<1>4. CASE Die
  <2>1. task'[k] = NoTask
    BY <1>4 DEF Die
  <2> QED
    BY <2>1, NoTaskTyped DEF Live
<1>5. CASE Restart
  <2>1. Resumes(disk.jobs[k])
    BY <1>5, RestartEffect DEF Live
  <2>2. jobs'[k] = Reloaded(disk.jobs[k]) /\ disk.jobs[k] \in JobRecord
    BY <1>5, <2>1 DEF Restart, Resumes, SafetyInv, IInv, TypeOK
  <2> QED
    BY <2>1, <2>2, ResumedIsRecord DEF Recorded
<1> QED
  BY <1>3, <1>4, <1>5, StepCases

\* As long as no record is evicted while its coroutine runs, the threshold bounds
\* the coroutines: whatever is deleted, polled, lost in a write or restarted.
THEOREM CoroutinesBounded ==
    Spec /\ [][KeepsLive]_vars => []ConcurrencyBound
<1>1. Init => LiveRecorded
  <2> SUFFICES ASSUME Init, NEW j \in Job PROVE ~Live(j)
    BY DEF LiveRecorded
  <2>1. task[j] = NoTask
    BY DEF Init
  <2> QED
    BY <2>1, NoTaskTyped DEF Live
<1>2. SafetyInv /\ LiveRecorded /\ [Next]_vars /\ [KeepsLive]_vars => LiveRecorded'
  BY LiveRecordedKept
<1>3. RecordedConcurrency /\ LiveRecorded => ConcurrencyBound
  <2> SUFFICES ASSUME RecordedConcurrency, LiveRecorded PROVE ConcurrencyBound
    OBVIOUS
  <2>1. {j \in Job : Live(j)} = {j \in Job : Live(j) /\ Recorded(j)}
    BY DEF LiveRecorded
  <2> QED
    BY <2>1 DEF RecordedConcurrency, ConcurrencyBound
<1> QED
  BY <1>1, <1>2, <1>3, SafetyInductive, RecordedBounded, PTL DEF Spec

-----------------------------------------------------------------------------
(* The contract of the approvals *)

\* The state of a slip, one at a time.
LEMMA SlipAt ==
    ASSUME NEW a \in ApprovalId
    PROVE  /\ slip[a] = IF ledger[a] = None THEN "unissued"
                        ELSE IF a \in spent THEN "spent"
                        ELSE IF ~Waiting(a) THEN "void"
                        ELSE IF a \in consent THEN "granted"
                        ELSE "open"
           /\ slip'[a] = IF ledger'[a] = None THEN "unissued"
                         ELSE IF a \in spent' THEN "spent"
                         ELSE IF ~Waiting(a)' THEN "void"
                         ELSE IF a \in consent' THEN "granted"
                         ELSE "open"
  BY DEF slip

\* Nobody starts to wait, asks, consents or spends.
Still ==
    /\ UNCHANGED <<ledger, consent, spent>>
    /\ \A k \in Job : task'[k].pc = "approval" => task'[k] = task[k]

\* Such a step voids the slips whose wait it ends or whose job it stops.
LEMMA StillVoids ==
    ASSUME SafetyInv, [Next]_vars, Still
    PROVE  \E S \in SUBSET ApprovalId : Contract!Void(S)
<1> DEFINE S == {a \in ApprovalId : /\ slip[a] \in {"open", "granted"}
                                    /\ ~Waiting(a)'}
<1>1. ASSUME NEW a, Waiting(a)' PROVE Waiting(a)
  <2>1. PICK k \in Job : Awaits(k, a)' /\ k \notin stop'
    BY <1>1 DEF Waiting
  <2>2. task'[k] = task[k] /\ task'[k].pc = "approval" /\ StopHolds(k)
    BY <2>1, JobInvKept DEF Awaits, Still
  <2>3. Awaits(k, a) /\ k \notin stop
    BY <2>1, <2>2 DEF Awaits, StopHolds
  <2> QED
    BY <2>3 DEF Waiting
<1>2. ASSUME NEW a \in ApprovalId
      PROVE  slip'[a] = IF a \in S THEN "void" ELSE slip[a]
  <2>1. ledger' = ledger /\ consent' = consent /\ spent' = spent
    BY DEF Still
  <2> QED
    BY <1>1, <2>1, SlipAt
<1>3. slip' = [a \in ApprovalId |-> IF a \in S THEN "void" ELSE slip[a]]
  <2>1. slip' = [a \in ApprovalId |-> slip'[a]]
    BY DEF slip
  <2> HIDE DEF S
  <2> QED
    BY <1>2, <2>1
<1>4. holder' = holder
  BY DEF holder, Still
<1>5. S \in SUBSET ApprovalId /\ \A a \in S : slip[a] \in {"open", "granted"}
  OBVIOUS
<1> HIDE DEF S
<1>6. Contract!Void(S)
  BY <1>3, <1>4, <1>5 DEF Contract!Void, Contract!Usable
<1> QED
  BY <1>5, <1>6

\* A request issues a fresh slip, and the job has no other usable one: it did
\* not wait for one, and its slips are the ones it waits on.
LEMMA AskIssues ==
    ASSUME SafetyInv, NEW j \in Job, AsksNext(j)
    PROVE  \E a \in ApprovalId : Contract!Issue(a, j)
<1>1. /\ TypeOK /\ ApprovalInv /\ ConsentIssued /\ Runs(j)
      /\ UNCHANGED <<stop, consent, spent>>
  BY DEF SafetyInv, IInv, AsksNext
<1>2. PICK t \in TaskRecord : \E i \in 1 .. Len(t.plan.changes) : AskApproval(j, t, i)
  BY DEF AsksNext
<1>3. PICK i \in 1 .. Len(t.plan.changes) : AskApproval(j, t, i)
  BY <1>2
<1> DEFINE paper == [job |-> j, change |-> t.plan.changes[i], index |-> i,
                     epoch |-> epoch]
<1>4. PICK a \in ApprovalId : /\ ledger[a] = None
                              /\ ledger' = [ledger EXCEPT ![a] = paper]
                              /\ Goto(j, Asks(t, i, a))
  BY <1>3 DEF AskApproval
<1>5. i \in Nat /\ t.plan.changes[i] \in Change /\ epoch \in Nat
  BY <1>1 DEF TaskRecord, Strategy, TypeOK
<1>6. paper \in Slip /\ paper # None /\ paper.job = j
  BY <1>5, NoneAssumption DEF Slip
<1> HIDE DEF paper
<1>7. ledger'[a] = paper /\ \A b \in ApprovalId \ {a} : ledger'[b] = ledger[b]
  BY <1>1, <1>4 DEF TypeOK
<1>8. /\ task'[j].pc = "approval" /\ task'[j].approval = a
      /\ \A k \in Job \ {j} : task'[k] = task[k]
  BY <1>1, <1>4, <1>5, GotoFrame, AsksTyped
<1>9. j \notin stop /\ task[j].pc # "approval"
  BY <1>1 DEF Runs, SafetyInv, JobInv, StopOk
<1>10. a \notin spent /\ a \notin consent
  BY <1>1, <1>4 DEF ApprovalInv, ConsentIssued
<1>11. \A b \in ApprovalId \ {a} : Waiting(b)' <=> Waiting(b)
  <2>1. \A b \in ApprovalId \ {a} : \A k \in Job : Awaits(k, b)' <=> Awaits(k, b)
    BY <1>8, <1>9 DEF Awaits
  <2> QED
    BY <1>1, <2>1 DEF Waiting
<1>12. Waiting(a)'
  BY <1>1, <1>8, <1>9 DEF Waiting, Awaits
<1>13. slip[a] = "unissued" /\ slip'[a] = "open"
  BY <1>1, <1>4, <1>6, <1>7, <1>10, <1>12, SlipAt
<1>14. \A b \in ApprovalId \ {a} : slip'[b] = slip[b]
  BY <1>1, <1>7, <1>11, SlipAt
<1>15. slip' = [slip EXCEPT ![a] = "open"]
  <2>1. /\ slip' = [b \in ApprovalId |-> slip'[b]]
        /\ slip = [b \in ApprovalId |-> slip[b]]
    BY DEF slip
  <2> QED
    BY <1>13, <1>14, <2>1
<1>16. holder' = [holder EXCEPT ![a] = j]
  BY <1>6, <1>7 DEF holder
<1>17. ASSUME NEW b \in ApprovalId, holder[b] = j, slip[b] \in {"open", "granted"}
       PROVE  FALSE
  <2>1. ledger[b] # None /\ Waiting(b)
    BY <1>17, SlipAt
  <2>2. PICK k \in Job : Awaits(k, b)
    BY <2>1 DEF Waiting
  <2>3. ledger[b].job = k
    <3>1. SlipOk(k) /\ task[k].pc = "approval" /\ task[k].approval = b
      BY <2>2 DEF SafetyInv, JobInv, Awaits
    <3>2. ledger[task[k].approval].job = k
      BY <3>1 DEF SlipOk
    <3> QED
      BY <3>1, <3>2
  <2>4. ledger[b].job = j
    BY <1>17, <2>1 DEF holder
  <2> QED
    BY <1>9, <2>2, <2>3, <2>4 DEF Awaits
<1>18. Contract!Issue(a, j)
  BY <1>13, <1>15, <1>16, <1>17 DEF Contract!Issue, Contract!Usable
<1> QED
  BY <1>18

\* A submission spends the granted slip its coroutine waited on.
LEMMA SubmitSpends ==
    ASSUME SafetyInv, NEW j \in Job, SubmitChange(j)
    PROVE  \E a \in ApprovalId : Contract!Spend(a)
<1> DEFINE t == task[j]
           a == t.approval
<1>1. TypeOK /\ ApprovalInv /\ t \in TaskRecord
  BY TaskTyped DEF SafetyInv, IInv
<1>2. /\ t.pc = "approval" /\ j \notin stop /\ Approved(j)
      /\ Goto(j, Moved(t, "change"))
      /\ spent' = spent \union {a}
      /\ UNCHANGED <<stop, ledger, consent>>
  BY DEF SubmitChange, At
<1>3. a \in ApprovalId /\ a \notin spent /\ ledger[a] # None
  BY <1>1, <1>2 DEF ApprovalInv
<1>4. a \in consent
  BY <1>1, <1>2 DEF Approved, Recorded, ApprovalInv, Honest
<1>5. "change" \in PC
  BY DEF PC
<1>6. task'[j].pc = "change" /\ \A k \in Job \ {j} : task'[k] = task[k]
  BY <1>1, <1>2, <1>5, GotoFrame, MovedTyped
<1>7. Waiting(a)
  BY <1>2 DEF Waiting, Awaits
<1>8. \A b \in ApprovalId \ {a} : Waiting(b)' <=> Waiting(b)
  <2>1. \A b \in ApprovalId \ {a} : \A k \in Job : Awaits(k, b)' <=> Awaits(k, b)
    BY <1>2, <1>6 DEF Awaits
  <2> QED
    BY <1>2, <2>1 DEF Waiting
<1> HIDE DEF a, t
<1>9. slip[a] = "granted" /\ slip'[a] = "spent"
  BY <1>2, <1>3, <1>4, <1>7, SlipAt
<1>10. \A b \in ApprovalId \ {a} : slip'[b] = slip[b]
  BY <1>2, <1>8, SlipAt
<1>11. slip' = [slip EXCEPT ![a] = "spent"]
  <2>1. /\ slip' = [b \in ApprovalId |-> slip'[b]]
        /\ slip = [b \in ApprovalId |-> slip[b]]
    BY DEF slip
  <2> QED
    BY <1>9, <1>10, <2>1
<1>12. holder' = holder
  BY <1>2 DEF holder
<1>13. Contract!Spend(a)
  BY <1>9, <1>11, <1>12 DEF Contract!Spend
<1> QED
  BY <1>3, <1>13

\* A confirmation grants an open slip and changes no other.
LEMMA ApproveGrants ==
    ASSUME SafetyInv, NEW j \in Job, ApproveStep(j)
    PROVE  \/ \E a \in ApprovalId : Contract!Grant(a)
           \/ UNCHANGED <<slip, holder>>
<1>1. PICK a \in ApprovalId :
        /\ Decidable(j, a) /\ consent' = consent \union {a}
        /\ UNCHANGED <<task, stop, ledger, spent>>
  BY DEF ApproveStep
<1>2. \A b \in ApprovalId : Waiting(b)' <=> Waiting(b)
  BY <1>1 DEF Waiting, Awaits
<1>3. \A b \in ApprovalId \ {a} : slip'[b] = slip[b]
  BY <1>1, <1>2, SlipAt
<1>4. slip'[a] = IF slip[a] = "open" THEN "granted" ELSE slip[a]
  BY <1>1, <1>2, SlipAt
<1>5. /\ slip' = [b \in ApprovalId |-> slip'[b]]
      /\ slip = [b \in ApprovalId |-> slip[b]]
  BY DEF slip
<1>6. holder' = holder
  BY <1>1 DEF holder
<1>7. CASE slip[a] = "open"
  <2>1. slip' = [slip EXCEPT ![a] = "granted"]
    BY <1>3, <1>4, <1>5, <1>7
  <2> QED
    BY <1>6, <1>7, <2>1 DEF Contract!Grant
<1>8. CASE slip[a] # "open"
  <2>1. slip' = slip
    BY <1>3, <1>4, <1>5, <1>8
  <2> QED
    BY <1>6, <2>1
<1> QED
  BY <1>7, <1>8

LEMMA ShapeStill ==
    ASSUME SafetyInv, NEW j \in Job, Shape(j),
           ~AsksNext(j), ~SubmitChange(j), ~ApproveStep(j)
    PROVE  Still
<1>1. IInv
  BY DEF SafetyInv
<1>2. CASE Advances(j) \/ Ends(j) \/ StartFails(j) \/ Enqueue(j)
  <2>1. CalmGoto(j)
    <3>1. CASE Advances(j)
      BY <3>1, WorkIsCalm DEF Advances
    <3>2. CASE Ends(j)
      BY <3>2, NoTaskTyped DEF Ends, CalmGoto
    <3>3. CASE StartFails(j)
      <4>1. "dead" \in PC
        BY DEF PC
      <4> QED
        BY <1>1, <3>3, <4>1, TaskTyped, MovedTyped DEF IInv, StartFails, CalmGoto
    <3>4. CASE Enqueue(j)
      <4>1. PICK p \in Proposal : Goto(j, NewTask("ready", p, {}))
        BY <3>4 DEF Enqueue
      <4>2. p \in Strategy /\ {} \in SUBSET Fingerprints /\ "ready" \in PC
        BY ProposalAssumption DEF PC
      <4> QED
        BY <4>1, <4>2, NewTaskTyped DEF CalmGoto
    <3> QED
      BY <1>2, <3>1, <3>2, <3>3, <3>4
  <2>2. \A k \in Job : task'[k].pc = "approval" => task'[k] = task[k]
    BY <1>1, <2>1, GotoPreserves
  <2> QED
    BY <1>2, <2>2 DEF Still, Advances, Ends, StartFails, Enqueue, Quiet, history
<1>3. CASE RejectStep(j) \/ CancelJob(j) \/ PollJob(j) \/ DeleteRecord(j)
  BY <1>3 DEF Still, RejectStep, CancelJob, PollJob, DeleteRecord, history
<1>4. CASE CrashInReleaseGate(j)
  <2>1. Die
    BY <1>4 DEF CrashInReleaseGate
  <2>2. \A k \in Job : task'[k].pc = "none"
    BY <2>1, NoTaskTyped DEF Die
  <2> QED
    BY <2>1, <2>2 DEF Die, Still
<1> QED
  BY <1>2, <1>3, <1>4 DEF Shape

LEMMA EveryStepKeepsContract ==
    ASSUME SafetyInv, [Next]_vars
    PROVE  Contract!Next \/ UNCHANGED <<slip, holder>>
<1>1. Still => Contract!Next
  BY StillVoids DEF Contract!Next
<1>2. CASE \E j \in Job : Shape(j)
  BY <1>1, <1>2, AskIssues, SubmitSpends, ApproveGrants, ShapeStill
     DEF Contract!Next
<1>3. CASE Crash
  <2>1. Die
    BY <1>3 DEF Crash
  <2>2. \A k \in Job : task'[k].pc = "none"
    BY <2>1, NoTaskTyped DEF Die
  <2>3. Still
    BY <2>1, <2>2 DEF Die, Still
  <2> QED
    BY <1>1, <2>3
<1>4. CASE Restart
  <2>1. \A k \in Job : task'[k].pc # "approval"
    BY <1>4, RestartEffect
  <2>2. Still
    BY <1>4, <2>1 DEF Restart, Still, history
  <2> QED
    BY <1>1, <2>2
<1>5. CASE UNCHANGED vars
  <2>1. Still
    BY <1>5 DEF vars, Still
  <2> QED
    BY <1>1, <2>1
<1> QED
  BY <1>2, <1>3, <1>4, <1>5, NextShapes DEF SafetyInv, IInv

\* The engine keeps the contract of its approvals: under the mapping of slip and
\* holder every step issues, grants, spends or voids as ApprovalContract allows.
THEOREM ContractKept == Spec => KeepsContract
<1>1. Init => Contract!Init
  BY DEF Init, Contract!Init, slip, holder
<1>2. SafetyInv /\ [Next]_vars => [Contract!Next]_(Contract!vars)
  BY EveryStepKeepsContract DEF Contract!vars
<1> QED
  BY <1>1, <1>2, SafetyInductive, PTL DEF Spec, KeepsContract, Contract!Spec
=============================================================================
