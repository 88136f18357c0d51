------------------------------ MODULE Releases ------------------------------
(***************************************************************************)
(* Release governance: the handlers of backend/app/api/reliability.py that *)
(* create, approve and execute a release, the ReliabilityStore they keep   *)
(* releases and the SLO objective in, and what the job engine asks of it.  *)
(*                                                                         *)
(* Every handler does its reading and writing between two awaits           *)
(* (create_release awaits the image scan before it reads the store, and    *)
(* _enqueue_ops_job never suspends), so a handler is one action.  A crash  *)
(* can fall between the job it submits and the release it marks.           *)
(*                                                                         *)
(* The job engine is seen from here as the stages of a job that matter to  *)
(* the error budget; OpsJobs is its own model.                             *)
(***************************************************************************)
EXTENDS Naturals, Sequences, FiniteSets, Functions

CONSTANTS
    Release,      \* identifiers of releases (uuid4: never reused)
    Job,          \* identifiers of jobs (uuid4: never reused)
    Candidate,    \* the store's files in the order it tries them
    StoreLimit,   \* releases kept (500)
    MaxApprovals, \* bound: approvals explored per release
    MaxCrashes,   \* bound: crashes explored
    None          \* Python's None

File == Range(Candidate)
Primary == Candidate[1]

(***************************************************************************)
(* A release: its channel, whether the error budget was exhausted when it  *)
(* was created, whether the gate or the image scan objected, its status.   *)
(***************************************************************************)
ReleaseRecord ==
    [emergency : BOOLEAN, frozen : BOOLEAN, risky : BOOLEAN,
     status : {"blocked", "awaiting_approval", "approved", "executing"}]

\* What a store file holds, and memory: the budget of the service's objective
\* and the releases, with the order they were appended in.
Store ==
    [exhausted : BOOLEAN,
     releases : [Release -> ReleaseRecord \union {None}],
     order : Seq(Release)]

\* A job of a release: change_class and how far its attempt has come.
JobView ==
    [release : Release, terms : ReleaseRecord,
     stage : {"ready", "waiting", "changing", "resting", "ended"}]

ASSUME CandidateAssumption == Candidate \in Seq(STRING) /\ Candidate # <<>>
ASSUME NoneAssumption ==
    None \notin ReleaseRecord /\ None \notin Store /\ None \notin JobView
ASSUME LimitAssumption ==
    StoreLimit \in Nat \ {0} /\ MaxApprovals \in Nat /\ MaxCrashes \in Nat

VARIABLES
    data,     \* ReliabilityStore._data
    file,     \* the contents of each store file, or None
    path,     \* ReliabilityStore.path: the file of the last save
    writable, \* store files that can be written now
    up,       \* whether the process is running
    job,      \* the job engine's table and file
    \* History, read by the properties only
    acked,    \* the last change of the store was answered with success
    unused,   \* release identifiers not yet drawn
    given,    \* approvals given to each release
    runs,     \* jobs submitted for each release
    epoch     \* how many times the process died

vars == <<data, file, path, writable, up, job, acked, unused, given, runs, epoch>>

Known(r) == data.releases[r] # None
Rel(r) == data.releases[r]

\* The gate's verdict of a release: an emergency is reviewed, never blocked.
Blocked(rec) == ~rec.emergency /\ (rec.frozen \/ rec.risky)

\* error_budget.freeze_changes of the release, as recorded at its creation.
Frozen(rec) == rec.frozen /\ ~rec.emergency

Marked(d, r, status) == [d EXCEPT !.releases[r].status = status]

-----------------------------------------------------------------------------
(* The store *)

Fresh == [exhausted |-> FALSE, releases |-> [r \in Release |-> None], order |-> <<>>]

\* A change is made in memory first; _save then writes the first file that
\* takes it.  When none does, the handler fails and the change stays.
Save(d) ==
    /\ data' = d
    /\ \/ \E i \in DOMAIN Candidate :
            /\ Candidate[i] \in writable
            /\ \A k \in DOMAIN Candidate : k < i => Candidate[k] \notin writable
            /\ file' = [file EXCEPT ![Candidate[i]] = d]
            /\ path' = Candidate[i]
            /\ acked' = TRUE
       \/ /\ writable = {}
          /\ acked' = FALSE
          /\ UNCHANGED <<file, path>>

\* The files a process finds when some can be read.
Present(readable, files) ==
    {i \in DOMAIN Candidate : Candidate[i] \in readable /\ files[Candidate[i]] # None}

\* Mutant of Loads: a store without a file holds no tables.
LoadsBlindly(readable, files, d) ==
    \/ \E i \in Present(readable, files) :
         /\ \A k \in Present(readable, files) : i <= k
         /\ d = files[Candidate[i]]
    \/ Present(readable, files) = {} /\ d = None

\* _load: the first file that can be read, in the order of the candidates.
Loads(readable, files, d) ==
    \/ \E i \in Present(readable, files) :
         /\ \A k \in Present(readable, files) : i <= k
         /\ d = files[Candidate[i]]
    \/ Present(readable, files) = {} /\ d = Fresh

-----------------------------------------------------------------------------
(* Handlers of the HTTP API *)

\* upsert_objective with evidence that does, or does not, exhaust the budget.
UpsertObjective ==
    /\ up
    /\ \E b \in BOOLEAN : Save([data EXCEPT !.exhausted = b])
    /\ UNCHANGED <<writable, up, job, unused, given, runs, epoch>>

\* create_release after its image scan, then add_release, which keeps the
\* newest releases.
CreateRelease(r) ==
    LET all == Append(data.order, r)
        kept == IF Len(all) <= StoreLimit THEN all
                ELSE SubSeq(all, Len(all) - StoreLimit + 1, Len(all))
    IN
    /\ up /\ r \in unused
    /\ \E emergency, risky \in BOOLEAN, status \in {"blocked", "awaiting_approval"} :
         LET rec == [emergency |-> emergency, frozen |-> data.exhausted,
                     risky |-> risky, status |-> status]
         IN  /\ status = "blocked" <=> Blocked(rec)
             /\ Save([data EXCEPT
                        !.order = kept,
                        !.releases = [q \in Release |->
                                        IF q = r THEN rec
                                        ELSE IF q \in Range(kept) THEN data.releases[q]
                                        ELSE None]])
    /\ unused' = unused \ {r}
    /\ UNCHANGED <<writable, up, job, given, runs, epoch>>

\* Mutant of Approvable: the gate's verdict is not looked at.
ApprovableWhenNotFrozen(r) == Known(r) /\ ~Frozen(Rel(r))

\* The checks of approve_release; the release's status is not one of them.
Approvable(r) == Known(r) /\ ~Frozen(Rel(r)) /\ ~Blocked(Rel(r))

ApproveRelease(r) ==
    /\ up /\ Approvable(r) /\ given[r] < MaxApprovals
    /\ Save(Marked(data, r, "approved"))
    /\ given' = [given EXCEPT ![r] = @ + 1]
    /\ UNCHANGED <<writable, up, job, unused, runs, epoch>>

\* The checks of execute_release: the budget as it was at the creation.
Executable(r) == Known(r) /\ Rel(r).status = "approved" /\ ~Frozen(Rel(r))

\* submit_release_job and _enqueue_ops_job; the job is in the job file at once.
Submit(r) ==
    /\ \E k \in Job :
         /\ job[k] = None
         /\ job' = [job EXCEPT ![k] = [release |-> r, terms |-> Rel(r),
                                       stage |-> "ready"]]
    /\ runs' = [runs EXCEPT ![r] = @ + 1]

\* Mutant of ExecuteRelease: the release is not marked.
ExecuteUnmarked(r) ==
    /\ up /\ Executable(r)
    /\ Submit(r)
    /\ Save(data)
    /\ UNCHANGED <<writable, up, unused, given, epoch>>

ExecuteRelease(r) ==
    /\ up /\ Executable(r)
    /\ Submit(r)
    /\ Save(Marked(data, r, "executing"))
    /\ UNCHANGED <<writable, up, unused, given, epoch>>

-----------------------------------------------------------------------------
(* The job engine's view of a release *)

StageOf(k, from, to) ==
    /\ up /\ job[k] # None /\ job[k].stage = from
    /\ job' = [job EXCEPT ![k].stage = to]

Engine == <<data, file, path, writable, up, acked, unused, given, runs, epoch>>

\* _ops_release_gate, when an attempt with changes begins: the budget as it
\* is now.  A denied attempt rests until a recheck.
GateJob(k) ==
    /\ \/ /\ job[k] # None /\ (job[k].terms.emergency \/ ~data.exhausted)
          /\ StageOf(k, "ready", "waiting")
       \/ /\ job[k] # None /\ ~job[k].terms.emergency /\ data.exhausted
          /\ StageOf(k, "ready", "resting")
    /\ UNCHANGED Engine

\* The operator confirms the displayed change and the executor is called.
ConfirmChange(k) == StageOf(k, "waiting", "changing") /\ UNCHANGED Engine

\* The change returned; the attempt recovered, goes on with another strategy,
\* or rests.
ChangeReturned(k) ==
    /\ \E to \in {"ended", "ready", "resting"} : StageOf(k, "changing", to)
    /\ UNCHANGED Engine

\* The recheck found another strategy with changes.
RecheckJob(k) == StageOf(k, "resting", "ready") /\ UNCHANGED Engine

\* A cancel, a rejection or a failure.
EndJob(k) ==
    /\ \E from \in {"ready", "waiting", "changing", "resting"} :
         StageOf(k, from, "ended")
    /\ UNCHANGED Engine

-----------------------------------------------------------------------------
(* The world *)

\* A volume fills up, is mounted read-only, or comes back.
DiskChanges ==
    /\ up
    /\ \E w \in SUBSET File : w # writable /\ writable' = w
    /\ UNCHANGED <<data, file, path, up, job, acked, unused, given, runs, epoch>>

\* The process dies; a new Pod may find the files outside the volume gone.
Die ==
    /\ up /\ epoch < MaxCrashes
    /\ up' = FALSE /\ epoch' = epoch + 1
    /\ data' = Fresh /\ path' = Primary
    /\ \E lost \in SUBSET (File \ {Primary}) :
         file' = [f \in File |-> IF f \in lost THEN None ELSE file[f]]
    /\ UNCHANGED <<writable, acked, unused, given>>

Crash == Die /\ UNCHANGED <<job, runs>>

\* Mutant of CrashInExecute: the release is marked before the job is submitted.
CrashAfterMark(r) ==
    /\ up /\ Executable(r) /\ epoch < MaxCrashes
    /\ file' = [file EXCEPT ![Primary] = Marked(data, r, "executing")]
    /\ data' = Fresh /\ path' = Primary
    /\ up' = FALSE /\ epoch' = epoch + 1
    /\ UNCHANGED <<writable, acked, unused, given, job, runs>>

\* The process dies after submit_release and before update_release.
CrashInExecute(r) == Die /\ Executable(r) /\ Submit(r)

\* The store is loaded at import; unfinished jobs are resumed.
Restart ==
    /\ ~up /\ up' = TRUE
    /\ \E readable \in SUBSET File : Loads(readable, file, data')
    /\ path' = Primary
    /\ acked' = TRUE
    /\ job' = [k \in Job |-> IF job[k] # None /\ job[k].stage # "ended"
                             THEN [job[k] EXCEPT !.stage = "ready"] ELSE job[k]]
    /\ UNCHANGED <<file, writable, unused, given, runs, epoch>>

-----------------------------------------------------------------------------

Init ==
    /\ data = Fresh
    /\ file = [f \in File |-> None]
    /\ path = Primary /\ writable = File /\ up = TRUE
    /\ job = [k \in Job |-> None]
    /\ acked = TRUE /\ unused = Release
    /\ given = [r \in Release |-> 0] /\ runs = [r \in Release |-> 0]
    /\ epoch = 0

Next ==
    \/ \E r \in Release : \/ CreateRelease(r) \/ ApproveRelease(r)
                          \/ ExecuteRelease(r) \/ CrashInExecute(r)
    \/ \E k \in Job : \/ GateJob(k) \/ ConfirmChange(k) \/ ChangeReturned(k)
                      \/ RecheckJob(k) \/ EndJob(k)
    \/ UpsertObjective \/ DiskChanges \/ Crash \/ Restart

Spec == Init /\ [][Next]_vars

-----------------------------------------------------------------------------
(* What release governance promises *)

\* The store, its files and the job views hold what their code can put there.
TypeOK ==
    /\ data \in Store
    /\ file \in [File -> Store \union {None}]
    /\ path \in File /\ writable \subseteq File
    /\ up \in BOOLEAN /\ acked \in BOOLEAN
    /\ job \in [Job -> JobView \union {None}]
    /\ unused \subseteq Release
    /\ given \in [Release -> Nat] /\ runs \in [Release -> Nat]
    /\ epoch \in Nat

\* A release the gate blocked at its creation never becomes a job, although
\* execute_release itself looks at the status and the recorded budget only:
\* no order of approvals, failed saves, stale files and restarts gets it there.
BlockedNeverRuns ==
    \A k \in Job : job[k] # None => ~Blocked(job[k].terms)

\* Every version of a store, in memory or in a file, tells a history that
\* happened: an approved or executing release was approved and not blocked, an
\* executing one was submitted as a job.  It may be stale; it is never ahead.
TellsTheTruth(d, gave, ran) ==
    \A r \in Release : d.releases[r] # None =>
        LET status == d.releases[r].status IN
        /\ status \in {"approved", "executing"} =>
              gave[r] > 0 /\ ~Blocked(d.releases[r])
        /\ status = "executing" => ran[r] > 0

HistoryHappened ==
    /\ TellsTheTruth(data, given, runs)
    /\ \A f \in File : file[f] # None => TellsTheTruth(file[f], given, runs)

\* An approval pays for one job: a release is submitted at most as often as it
\* was approved, plus once for each time the process died, since a restart may
\* bring a status "approved" back that was already used.
RunsArePaid == \A r \in Release : runs[r] <= given[r] + epoch

=============================================================================
