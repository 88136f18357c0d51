# A formal model of Flawless

TLA+ modules, TLC models and TLAPS proofs kept beside the source of
*Flawless* (an SRE control plane: evidence, approval, change, verification).
Paths below are relative to `src/`; `app.py` stands for
`backend/app/application.py`.

Contents: [inventory](#1-inventory) · [the job engine](#2-the-job-engine-opsjobs)
· [releases](#3-release-governance-releases) · [stages](#4-stage-execution-boundedstage)
· [clusters and changes](#5-clusters-and-changes-clusterregistry-changeexecution)
· [verification](#6-verification-recoverycheck)
· [Skills and planning](#7-skills-and-planning-skillregistry-recoveryplanning)
· [runs](#8-what-the-runs-check) · [disagreements](#9-where-code-and-words-disagree)
· [proofs](#10-what-is-proved) · [plan](#11-plan) · [limits](#12-what-is-not-modelled)

## 1. Inventory

| Component | State it keeps | Operations | Hard behaviour | What makes it correct | Status |
|---|---|---|---|---|---|
| **Operations-job engine**, `app.py` 483–712, 12030–12040, 12371–13472 | `OPS_JOBS`, `OPS_JOB_TASKS`, `OPS_JOB_CANCEL_EVENTS`, `OPS_JOB_STEP_APPROVAL_EVENTS`, the job file | create, poll, approve, reject, cancel, delete; the coroutine `_run_ops_job`; restore and resume | handlers interleave with the coroutine at every await; approvals are re-read after a wait; deadline against decision; eviction; crash and restart | a change needs its own confirmation; what is executed was displayed; a stop is final; a status tells the truth; the concurrency threshold holds; an attempt ends | `OpsJobs`, safety proved |
| **Plan execution**, `app.py` 8307–11060 | locals of one attempt | release gate, evidence, Skill gate, diagnostic steps, change loop, verification, replanning | one change of several fails or times out; a plan is replaced under way; strategies come back | a failed change is not excused by a healthy target; a failed strategy is not tried twice; what runs was authorised on the evidence of the moment | control flow in `OpsJobs`, decisions in `RecoveryPlanning` |
| **Stage execution**, `backend/app/services/ops_execution.py` | a child task, a deadline | `run_with_heartbeat` | deadline, cancellation and completion in the same instant | what it reports happened; it ends; nothing of it begins afterwards | `BoundedStage`, safety proved |
| **Release governance**, `api/reliability.py`, `services/reliability_store.py`, `services/release_execution.py`, `domain/slo.py` (under `backend/app/`) | releases, objectives, three candidate files | create, approve, execute; the error-budget gate of the job engine | a crash between submitting a job and marking its release; a save that fails after memory changed; stale files read after a restart | a run is paid by an approval; a blocked release never runs; the store never records what did not happen | `Releases`, proved |
| **Cluster registry**, `backend/app/services/cluster_registry.py` | SQLite rows with encrypted kubeconfigs | save, verify, refresh token, delete; execute on a cluster | read – probe – write without a lock | stored credentials are proven ones; no row stays pending | `ClusterRegistry`, safety proved |
| **Change execution**, `app.py` 6380–7870, `cluster_registry.py` 380–810, `mcp_servers/` | one call | `_execute_change`: checks, choice among four channels, the call; replace an immutable workload; run a command on a node | answers are lost; stages give up while a thread goes on; delete, then create; helper Pods | a change reaches the planned cluster, within policy; *completed* is true; nothing privileged is left behind | `ChangeExecution`, safety proved |
| **Recovery verification**, `app.py` 7897–8500 | one call | `_verify_plan_recovery`: grace, probes, evidence, criteria, stability window | the cluster moves between any two reads; reads fail | *recovered* was true on fresh evidence; a relapse withdraws it; it ends | `RecoveryCheck`, safety proved |
| **Skill registry**, `services/ops_skill_registry.py`, `services/agent_skill_packages.py` | Skills in memory, packages on disk | upsert, import, export, delete, learn, load | torn and failing writes; restart; the same lesson twice | no Skill authorises what no operator let it | `SkillRegistry`, proved |
| **Permission-recovery stages, executable Skills, remediation engine**, `app.py` 8675–9800, `services/ops_skill_runtime.py`, `agents/remediation_engine.py` | stage of the plan lineage | next plan from evidence, failure and memory | stages skipped or repeated; the evidence changes under the plan | root is earned; replanning comes to rest | `RecoveryPlanning`, safety proved |
| **Runtime resilience**, `agents/runtime_resilience.py`, middleware `app.py` 336–452 | semaphore, counters, cache, rate windows | admit, release, get/set/invalidate | a waiter times out or is cancelled while it is granted the slot | slots are neither lost nor exceeded | planned |
| **LLM client**, `agents/llm_client.py` | OAuth token and its expiry | `get` | double-checked locking; expiry during use | a token handed out is not expired | planned |
| **Effectiveness records, model registry**, `agents/effectiveness.py`, `agents/model_registry.py` | JSON files | record, activate | lost updates | – | the root memory in `RecoveryPlanning` |
| SRE agents and algorithms; knowledge; CMDB; traffic and eBPF collectors; A2A, cloud and Open WebUI adapters; API route tables; frontend; deployment | mostly none | data shaping, scoring, I/O | little of it concurrent | – | not modelled; `PROJECT.json` has a reason for each |

**Interactions.** The frontend polls and decides through the HTTP handlers of
the job engine. The engine's coroutine calls plan execution, which calls MCP
executors and probes through stage execution, and asks release governance for
the error budget before an attempt with changes. An approved release submits a
job to the engine. The cluster registry gives the executors their credentials;
the Skill registry gives the gate in front of every change its allow lists, and
learns a Skill from each recovery.

**How the modules meet.** The attempt loop is modelled three times, each time
with another part of it in detail. `OpsJobs` has every handler and await and takes
proposals and outcomes from sets. `RecoveryPlanning` has the proposals: which plan
follows from evidence, Skills and failures, with approval, submission and
verification as one step each. `ChangeExecution` and `RecoveryCheck` have one such
step each: what a submission may do, and what a verification may answer.
`ClusterRegistry` is part of `ChangeExecution`, `SkillRegistry` of `RecoveryPlanning`,
by `EXTENDS` and with interleaved steps.

**Why the engine first.** The repository's promise is that a change is applied
only under a human's approval and that recovery is verified. That promise
lives in about 1,500 lines of one file in which an endless coroutine and six
request handlers share four tables and a file without holding a lock across an
await.

## 2. The job engine (`OpsJobs`)

### Modules

| Module | Role |
|---|---|
| `OpsJobs` | the engine: state, one action per handler and per stretch of the coroutine between two suspension points, crash and restart, the properties |
| `ApprovalContract` | the abstract promise about approvals: a slip is unissued, open, granted, spent or void |
| `MCOpsJobs` | instances for TLC: changes `c1`, `c2` and small sets of proposals |
| `OpsJobsProofs` | types and approvals: the theorems, and the shapes of a coroutine's step that all proofs use |
| `OpsJobsSafetyProofs` | statuses, stops, saves, the threshold and the refinement of `ApprovalContract` |

### State and code

| Variable | Code |
|---|---|
| `jobs`, `order` | `OPS_JOBS`, a dict: its records and its insertion order (eviction depends on it) |
| `task` | `OPS_JOB_TASKS` and the coroutine's locals; `pc` is the await it is suspended at (`none`: no task, `dead`: the task object is there but done) |
| `stop` | jobs whose `asyncio.Event` in `OPS_JOB_CANCEL_EVENTS` is set |
| `cancelled` | `Task.cancel()` was called and `CancelledError` not yet delivered |
| `bell` | the event in `OPS_JOB_STEP_APPROVAL_EVENTS`: absent, silent, rung |
| `disk` | the job file as `_persist_ops_jobs` last wrote it |
| `up` | the process runs |
| `epoch`, `unused`, `ledger`, `consent`, `spent` | history: crashes, identifiers not drawn, every request ever displayed, confirmed approvals, approvals under which the executor was called |

`ledger` is also what an operator may answer: `Decidable` lets *any* request
ever displayed be answered at any time, so duplicates, replays and answers to
requests of an earlier change, strategy or process are all included.

### Actions and code

| Action | Code (`app.py`) | Notes |
|---|---|---|
| `Enqueue` | `_enqueue_ops_job` 13110–13256 | counts records by status, evicts the oldest whatever their status, persists, creates the task |
| `ApproveStep`, `RejectStep` | `approve_ops_job_step` 13308–13434 | the checks in the code's order; a rejection also sets the cancel event |
| `CancelJob` | 13437–13472 | event, `Task.cancel()`, status |
| `PollJob` | `get_ops_job` 13285–13305 | closes a job whose task died |
| `DeleteRecord` | 12030–12040 | refuses active statuses |
| `Start`, `StartFails`, `BeginAttempt` | 12501–12663, gate 10373–10390 | the loop head; a known fingerprint, or a denied release gate, rests |
| `EvidenceArrives` | 10391–10527, 11383–11530 | evidence; the Skill gate keeps a subsequence of the changes or replaces them |
| `DiagnosisEnds` | 10513–10671 | contradicting evidence makes a proposal, else the first approval |
| `AskApproval`, `SubmitChange`, `AbandonChange`, `ApprovalExpires` | `await_change_approval` 12515–12609, 10663–10680 | the receipt is re-read from the table after the wait |
| `ChangeReturns` | 10663–10785 | four outcomes; the loop goes on after each |
| `VerifyReturns`, `RollbackReturns`, `ProbeReturns`, `ReplanReturns` | 10791–11060, 8307–8496 | recovery needs every change to have completed |
| `Classify`, `Conclude`, `SummaryReturns` | 12702–12966 | blocked channel: forget the strategy; untried proposal: go on; none: rest |
| `RecheckDue`, `Rest` | 12478–12498 | the endless recheck loop |
| `CancelledError`, `TaskRaises`, `Finish` | 12967–13014 | the `finally` block forgets events and task |
| `Crash`, `CrashInReleaseGate`, `Restart` | 597–712, 13017–13055 | the tables vanish; the file, with its redacted changes, is reloaded |

### What is atomic, and why

Everything runs on one asyncio event loop. `OPS_JOBS_LOCK` is never held across
an await, and the helpers `_append_ops_job_event` and `_update_ops_job` contain
no suspension point, so what stands between two *real* awaits is one action,
with all its table writes and its file write. Between two file writes of such a
stretch only a crash can intervene. The one place where that leaves a file no
other state has is the denied release gate, which writes `blocked` and then
`running`: `CrashInReleaseGate`, modelled for attempts begun at the start, after
the diagnosis and after replanning. The evicting enqueue and the resume write
records with the same effect at every intermediate point. A new task runs its
first step before the loop reads another request, hence the guard
`task[j].pc # "ready"` of `CancelJob`.

### Abstractions

* A change is its canonical value; two changes are equal exactly when
  `_change_fingerprint` says so. A plan's fingerprint is the set of its changes,
  or, for a read-only plan, the probes of its recheck cycle.
* Executors, probes, planner, LLM and Skills are nondeterministic here (the later
  sections have them in detail). `took` says
  whether the cluster applied a change; it is free when the call failed or timed
  out, which is what a lost answer means.
* Redaction (`_redact_sensitive`) is any function on changes: nested values and
  secrets come back from the file different from what was submitted.
* Events, messages, lineage texts and audit lines are left out.

### Fairness

`FairSpec` adds `WF_vars(TaskStep(j))` for each job. The event loop schedules
every ready task, and the steps in `TaskStep` have a bound in the code: stages run
under `run_with_heartbeat` deadlines, replanning has request timeouts, and the recheck
wait is a timer. The exceptions are `verify` and `probe` (`Unbounded`): they are awaited without a
deadline (10792, 10885), and reads through a kubeconfig have no timeout of their
own, so there only a cancellation is fair. *Not* fair: `RollbackReturns` (awaited with no deadline),
`ApprovalExpires` (the timeout may be 0, none), `StartFails`, `TaskRaises`, every
request of an operator, `Crash` and `Restart`. `AttemptsEnd` also rests on
`Proposal` being finite: a planner that invents new strategies forever would go
on forever in the code as well.

## 3. Release governance (`Releases`)

| Module | Role |
|---|---|
| `Releases` | the three handlers of a release, the objective, `ReliabilityStore` with its files, and the job engine as seen from a release |
| `MCReleases` | the instance: a volume (`primary`) and a file outside it |
| `ReleasesProofs` | the theorems |

| Variable | Code |
|---|---|
| `data` | `ReliabilityStore._data`: whether the objective's budget is exhausted, the releases, their order |
| `file`, `path`, `writable` | the candidate files, `ReliabilityStore.path`, and which of them take a write now |
| `up` | the process runs |
| `job` | the jobs of releases: the release they were made from and a stage |
| `acked`, `unused`, `given`, `runs`, `epoch` | history: last save succeeded, identifiers not drawn, approvals given, jobs submitted, crashes |

| Action | Code |
|---|---|
| `UpsertObjective` | `upsert_objective`: new evidence exhausts the budget, or restores it |
| `CreateRelease` | `create_release` 358–483 from the end of the image scan on; `add_release` keeps the newest `StoreLimit` |
| `ApproveRelease` | 486–506: known, not frozen, not blocked; *not*: the status |
| `ExecuteRelease` | 509–519 with `submit_release_job` and `_enqueue_ops_job` |
| `Save`, `Loads` | `_save`: first file that takes the write; `_load`: first file that can be read |
| `GateJob`, `ConfirmChange`, `ChangeReturned`, `RecheckJob`, `EndJob` | stages of a job: `_ops_release_gate` (`app.py` 8615–8672) when an attempt begins, the confirmation and its change, what follows |
| `DiskChanges`, `Crash`, `CrashInExecute`, `Restart` | the volume; a process that dies, between handlers or between lines 517 and 518 |

**Atomicity.** `create_release` awaits only the image scan, before it reads the
store; `_enqueue_ops_job` has no suspension point; the store itself is
synchronous. So a handler is one action, split only by a crash. `Save` changes
memory first, and when no file takes the write the client is told so and the
change stays: both outcomes are in the model.

**Abstractions.** The gate's score, the manifest checks and the image scan are
one verdict, `risky`. There is one service and one objective. The job file is
taken as written (its failures are in `OpsJobs`), and the change class of a job
as kept by its later strategies, which inherit the plan's fields. A restart may
find any file unreadable and files outside the volume gone.

## 4. Stage execution (`BoundedStage`)

One call of `run_with_heartbeat`, action by action between its awaits: the loop
head (`LoopHead`: cancel event, deadline, next wait), `asyncio.wait` returning
or expiring, the heartbeat, `CancelledError` at any await, the `finally` block
(`Leaves`) and its `gather` (`Gathered`). `child` is the task it creates; `work`
is the call that the child hands to a thread with `asyncio.to_thread`, as the
change executor does (`app.py` 7331–7450). Python's rules are part of the model:
a task cancelled before its first step never starts; cancelling removes a call
that is still queued but never stops a thread; a cancellation hides a result
that arrived and was not yet taken; `gather` waits even when it is cancelled.

A wait may wake late (`Tick` is never blocked by a timer), and the heartbeat may
suspend, which its type allows and the engine's heartbeats do not do.

**Fairness.** `FairSpec` has weak fairness of the stage, of its child and of the
clock: the event loop runs what is ready. The thread has none: an executor may
hang. A child whose code swallows cancellation is not modelled; no operation
passed in the source does.

## 5. Clusters and changes (`ClusterRegistry`, `ChangeExecution`)

| Module | Role |
|---|---|
| `ClusterRegistry` | calls of the registry: register, refresh a token, verify, delete |
| `ChangeExecution` | calls of `_execute_change`, on top of `ClusterRegistry` |
| `ChangeExecutionProofs` | the theorems and their lemmas |
| `MCExecution` | instances for TLC, three scenes in one run |

| Variable | Code |
|---|---|
| `rows` | the SQLite table `managed_clusters`: which server and token the kubeconfig holds, the status, and the server whose facts the row shows |
| `call` | the registry calls: where each is, what it has read and measured |
| `accepts` | which tokens each API server accepts; it changes when it likes (`Rotate`) |
| `ex` | the calls of `_execute_change`: plan, channel, the credential a thread has read, whether the stage has given up on it (`left`), result |
| `live` | the object each place has: absent, with a controller, without one, being deleted |
| `helper` | node helper Pods that exist |
| `proven`, `dead`, `landed`, `unreaped` | history: credentials an API server accepted in a probe, death of the process, what was applied where, helpers a call got no answer about |

| Action | Code |
|---|---|
| `Upsert`, `RefreshToken`, `RefreshReads`, `ProbeContent`, `Save`, `Fetch`, `MarkConnected` | `save_verified`, `refresh_token`, `save` of `cluster_registry.py`, with their handlers (`app.py` 4186–4248) |
| `VerifyCluster`, `Configure`, `Measure`, `WriteProbe`, `DeleteCluster`, `Answer` | `probe`, `delete`, and the answer made from the row as it is by then |
| `Dispatch` | `_execute_change` to its first await: confirmation, validators, the order of the branches |
| `Borrow`, `ThreadBegins` | Rancher's `generateKubeconfig`; the thread that reads the credentials |
| `CallApplied`, `CallFails`, `WebhookRefuses`, `ApplyNotFound`, `Create` | one API call with its answer read or lost |
| `ReadLive`, `DeleteLive`, `WaitForDeletion`, `Create`, `FallbackReplace` | `replace_immutable_workload` on the three channels that have it |
| `Spawn`, `RunOnNode`, `Reap` | `exec_node` with its `finally` |
| `StageLeaves`, `Vanishes`, `Dies` | the environment |

**Atomicity.** Every handler of the registry runs in a thread of its own
(`asyncio.to_thread`), so each transaction and each network call is a step.
`_execute_change` is a coroutine up to its channel; a kubeconfig call and a shell
command run in a thread, which a stage that gives up cannot stop, the HTTP calls
are cancelled with it.

**Abstractions.** A kubeconfig is a server and a token. A patch is the kinds of
content it carries (`Contents`), and a validator is the set of kinds it lets pass:
that is where the channels differ. A place has one object. What the MCP server's
tools check is part of the call, since they run at the other end.

**Who checks what.** The program validates a workload's patch before every channel
(`AppChecks`), with two exceptions: a Deployment that is restarted or scaled through
the MCP server goes to a tool of its own, `restart_deployment` or `scale_deployment`,
unvalidated (`ByOwnTool`, 7653–7659 and 7746–7754). The latter takes up to 20 replicas, whatever
`MAX_PATCH_REPLICAS` is. Hence two kinds of excess in `Contents`: `overCap` is over
the configured limit, `overTool` over the 20; each may come without the other. A
restart sends a patch of its own on every channel, but for other kinds of workload on the MCP
channel, where the change's own patch is validated and sent (`Sent`). A patch that
the program lets pass meets the validator of the MCP tool `patch_workload` again
(`McpAdmits`).

**Fairness.** `PendingSettles` needs that a registry call goes on by itself: its
probes have request timeouts. Nothing else is fair.

## 6. Verification (`RecoveryCheck`)

One call of `_verify_plan_recovery`, its reads one by one, against a cluster that
may move between any two of them. `check` is the call: `pc`, its plan, the results
it was given, what it read last, the Pods still to assess, the criteria that
failed or are open, when it wakes and when the window ends. `pods`, `rollout` and
`aside` are what the API server would say now. A Pod of another workload with the
same prefix (`namesake`) matches, as it does in the code. `rollout.status` is
what the controller counted *at some time*: reading a stale status is the hazard.

An infrastructure plan is judged by the provider's probe alone, which names no Pod.
`_verify_plan_recovery` then assesses the Pod the plan names or, without a name, one that
`_select_representative_pod` takes from the workload the plan names, or from the
whole namespace when it names none (8322–8332, 6815–6874): `NoPod` in `todo` lets
`ReadPod` read any Pod there is. No Pod at all is an error, and the plan is not verified.
A target that is no workload, such as a database (`other`), has no rollout criterion.

| Action | Code (`app.py`) |
|---|---|
| `Begin`, `GracePoll` | `_verify_plan_recovery` 8307–8363: one look without changes; the grace period, cut by a cancel |
| `Probe` | `_probe_plan_recovery` 7881–8149 with its filters for finished and failed Pods |
| `Judge`, `Retry` | 8364–8384: deadline, terminal Pods, cancel, in this order |
| `AssessAll`, `ReadPod`, `ReadOwner`, `Evaluate` | evidence of each of at most `Assessed` Pods, or of the one that the plan's names lead to (`_collect_plan_deep_evidence` 6815–7120), and `_assess_recovery_criteria` 8152–8304 |
| `Conclude`, `Window`, `Sample`, `Sampled`, `SampleAssessed` | 8384–8496: the verdict and the stability window |
| `Tick` | the clock: sleeps, and the reads between them |
| `ClusterMoves`, `Cancels` | the environment |

`Unreadable` is a possible answer of every read. The channels differ in what an
unreadable log, event list or owner means; the model keeps each difference.

**Time** passes in the sleeps and in the reads. A *look* is a probe with the evidence
after it, up to 20 Pods read one after the other; the clock may advance at each
of its steps, `Look` in all. A read has a timeout of 18 to 25 s through Rancher and of 30 s
over the MCP server's HTTP interface; through a kubeconfig it has none. So `Look` is an assumption about
the deployment, and with the default interval of 5 s likely the larger of the two.
What a window promises depends on it, and so does when the verification
ends, since the window is opened only after the assessment (8406).
**Fairness:** the coroutine and the clock go on, since every sleep has a limit, but for
a read through a kubeconfig, which may stay unanswered (`Hangs`).
`Plans` is any set of plans over the kinds, channels, criteria and workload types
the code knows (`PlanAssumption`). `RecoveryCheckProofs` holds the theorems.
`MaxMoves` bounds how often the cluster moves during one verification; two moves are
a relapse and its end, or a rollout and a crash. The window of 4 is longer than an
interval and two looks of a step each, so that an illness that must be noticed fits into it.
Windows are run for a Deployment through kubeconfig and for an infrastructure plan
(`Windowed`), the other plans without one.

## 7. Skills and planning (`SkillRegistry`, `RecoveryPlanning`)

| Module | Role |
|---|---|
| `SkillRegistry`, `SkillRegistryProofs` | the registry and its packages; the lemmas about its operations |
| `RecoveryPlanning`, `RecoveryPlanningProofs` | the loop around planning, on top of `SkillRegistry`; its theorems |
| `MCPlanning` | the scenes for TLC |

`SkillRegistry` has what the gate looks at – a Skill is enabled, ready, builtin, and
has an allow list – in memory (`skills`) and on disk (`package`). Every operation
of the code holds the registry's lock, so each is a step; the write inside it
may fail or be torn (`Persist`, `Torn`), after which `writable` is FALSE and
nothing is written until a restart (`RestartRegistry`, `Loaded`). `released` and
`off` remember what an operator decided.

Production gives the registry the JSON file of an older version as well (`legacy_path`,
`app.py` 492). Every start reads it, built-in Skills and JSON items first (`Shelved`) and the packages
over them (`Loaded`), and then writes the packages that are missing (446–452, 484–488). Nothing
writes the file itself, so it is a constant: `Legacy`. A Skill of the file whose package an
operator deleted is there again, enabled as the file has it, after the next
start. `Candidates` are the ids under which lessons are stored.

`RecoveryPlanning` is the loop of `_run_ops_job` around planning:

| Variable | Code |
|---|---|
| `initial`, `plan` | `initial_plan`, `current`, with the lineage a plan carries: Skills tried, the last failure |
| `strategy`, `attempted` | the fingerprint taken at the loop head, and the set `attempted` |
| `spent` | change fingerprints in `history`, which are also the plan's `_attempted_change_fingerprints` |
| `evidence` | `_runtime_evidence`: the situation as it was when it was collected, or an old one after a failed collection |
| `outcome` | what the submission returned |
| `world` | the workload: its situation, identity, Pod generation, whether a verified memory of root exists |
| `grant`, `failures`, `grounds` | history: what the Skill allowed when it was routed, strategies that failed, what has spoken for root |

| Action or operator | Code (`app.py` unless named) |
|---|---|
| `TakeStrategy` | 12613–12652, gate 10373–10390 |
| `Route` | 10390–10539: fresh evidence, `_attach_operator_skills_to_plan`, the replaced plan, the contradicted plan |
| `Attach`, `Matches`, `Permitted` | 11383–11580, `match` of the registry |
| `Ladder`, `VolumeHandler`, `PvcHandler` | `_permission_recovery_followup` 8939–9330, the two executable Skills |
| `Remedy`, `Offered`, `Replans`, `Derived`, `Alternatives` | `build_remediation_plan`, `_evidence_based_replan` 9696–9918, `_derive_alternative_plans` 8499–8612, 11022–11055 |
| `ReadOnly`, `Submit`, `Recovered`, `Unresolved`, `NextCycle`, `Cancel` | 10671–11125, 12702–12966, 12478–12498 |
| `LearnSkill` | `_capture_candidate_skill` |
| `OperatorEdits` | the Skill handlers, between routing and submission included |

**Abstractions.** An incident is a cause, a confidence reduced to the three
thresholds of the engine (0.55, 0.62, 0.72), a class of write failure, whether the
path is mounted, and whether what a remedy needs is there. Init image and
default identity are folded into the situation. A Pod is always known. Usage
counters and receipts feed only the order of matches, so the gate may choose any
enabled Skill that the chain has not used up. What the model proposes is any
subset it may propose; `RootIsEarned` leaves a root patch aside that the model
proposes by itself, which the code admits and only the Skill gate limits. A submission is applied, refused (a part of it applied),
or its channel fails (any part applied): the outcomes `ChangeExecution` has.

**Fairness.** Weak fairness of `JobMoves`: everything the loop does between an
approval or a wait and the next one; a verification is one step here and is taken to return. An approval, the clock and the operators
are not fair.

**Bounds.** Ten scenes (`MCScenes`): each cause, each identity, a memory of root,
plans made by a Skill and by hand, of one and of two changes; some with one change
of the incident under way (`shift`), one recheck (`cycle`) or one registry edit
(`edit`); and one without a job where the registry makes three steps, enough for
write, failed write and restart. The JSON file holds one published Skill, `kept`, so
that three steps also delete it and restart.

## 8. What the runs check

`CHECK_DEADLOCK FALSE` everywhere: no request need ever arrive, a crashed process
may stay down, and the bounds stop the model (a recheck beyond `MaxCycle`, no
unused job or approval identifier). Symmetry in `Job` and `ApprovalId` (both
uuid4) is used for the safety runs only.

| Run | Instance | Properties |
|---|---|---|
| `core` | 1 job, 3 approvals, plans of two changes, of a hardening change and of none, approval deadline, 1 recheck, 1 crash | `TypeOK`, `ApprovalInv`, `ConsentedSubmission`, `PendingIsLive`, `OneShotApproval` |
| `capacity` | 3 jobs, 2 slots, table of 3 (no eviction), 1 crash | `ConcurrencyBound`, `StatusTracksTask`, `UnfinishedJobsSaved` |
| `restart` | 2 jobs, table of 1 (evictions), approval deadline, failing file writes, 1 crash | `KeepsContract` (`OpsJobs` implements `ApprovalContract`), `FinishedStaysFinished`, `StopIsFinal` |
| `live` | 1 job, 4 approvals, three rival strategies, 1 recheck, `FairSpec` | `DecisionsTakeEffect`, `AttemptsEnd` |
| `audit` | 1 release approved up to twice, 3 jobs, volume and fallback, 1 crash | `TypeOK`, `BlockedNeverRuns`, `HistoryHappened`, `RunsArePaid` |
| `stage` | deadline 3, heartbeat 2, clock to 5, `FairSpec` | `TypeOK`, `OutcomeIsTrue`, `NoLateStart`, `StageEnds` |
| `execution` | 1 cluster, 2 servers, 2 tokens; scenes: two registry calls, one change of any type with any content on any channel beside one registry call, two rival replacements, deletions and creations; death of the process | `TypeOK`, `StoredWasProven`, `UsesProvenCredential`, `RancherStaysRemote`, `AppliedWithinPolicy`, `CompletedWasApplied`, `ReplacementIsAccountedFor`, `NoStrayHelper`, `PendingSettles` |
| `recovery` | plans of each kind, channel and workload type, grace 1, timeout 2, interval 1, look 1, stability 0 or 4, 2 Pods assessed, 2 moves | `CheckTypeOK`, `RecoveredWasProven`, `RelapseWithdraws`, `VerificationEnds` |
| `planning` | ten scenes, a JSON file with one Skill (section 7) | `TypeOK`, `OperatorDecides`, `ExecutedWasAuthorised`, `RootIsEarned`, `NoStrategyTwice`, `ChainPauses` |
| `wrong_cluster`, `rolled_out`, `shadowed` | the instances of `execution`, `recovery`, `planning` | section 9 |

What the passing properties say:

* `OneShotApproval` – every call of the executor spends a confirmation that no
  earlier call spent. `ConsentedSubmission` – and that confirmation was for this
  job, this change at this index, displayed by this process.
* `PendingIsLive` – a record in `awaiting_approval` shows what its coroutine
  waits for, and there is an event to wake it.
* `StatusTracksTask` – no record says "running" without a task, none says
  "finished" while its coroutine can act. `ConcurrencyBound` – the threshold,
  which counts records, bounds coroutines. The run keeps the table large: with
  eviction the bound fails, since the record of a running job may go (section 9).
* `UnfinishedJobsSaved` – wherever the process dies between two awaits, the file
  has a record of each running job that a restart takes up.
* `StopIsFinal` – after an accepted cancel or rejection no change is submitted
  and no approval asked for. It speaks of one process: a restart resumes a job
  whose cancellation was not yet final.
* `FinishedStaysFinished` – a job the *file* shows as finished never runs again. A
  job that finished while every write failed is not one of them: a restart resumes it.
* `DecisionsTakeEffect`, `AttemptsEnd` – decisions wake their coroutine; an
  attempt comes to rest and does not spin through strategies, unless it stays at
  one rollback or one unanswered read for ever.
* `BlockedNeverRuns` – `execute_release` does not ask the gate, only the status;
  no sequence of failed saves, stale files and restarts gives a blocked release
  the status it asks for.
* `HistoryHappened` – memory and each file may be stale but are never ahead of
  what happened. `RunsArePaid` – a release may be approved and executed again
  while it is executing, but each job has an approval of its own, or a crash.
* `StoredWasProven`, `UsesProvenCredential` – whatever registry calls overlap, a
  stored credential, and one a change is made with, was accepted by its API server
  in a probe; `PendingSettles` – the transient status does not stay.
* `RancherStaysRemote`, `AppliedWithinPolicy` – of every type, through every
  channel: a change for a Rancher cluster lands there or nowhere, and what lands
  keeps host paths, commands, volumes and manifests within bounds, and replicas within
  the configured limit – but for a Deployment scaled by the MCP server's own tool, which
  keeps its own limit only (section 9).
* `CompletedWasApplied`, `ReplacementIsAccountedFor`, `NoStrayHelper` – lost
  answers, stages that give up and rivals included.
* `RecoveredWasProven` – a verdict rests on reads made since the last probe began; that
  of an infrastructure plan on its probe, with one Pod read beside it.
  `RelapseWithdraws` – an illness longer than the interval and the two looks around it
  is noticed. The run reaches both this bound and `EndsBy` of section 10: neither can be lowered.
  `VerificationEnds` – a verification ends, whatever its probes answer, unless it stays
  at one unanswered read through a kubeconfig.
* `OperatorDecides` – no restart, torn write, download or repeated lesson makes a
  Skill usable that an operator had not published, or had switched off on disk. What
  the JSON file says counts as published, exactly as it says it.
* `ExecutedWasAuthorised` – what is sent is part of the announced strategy, allowed
  by the Skill as it was when routed, and not refuted by the evidence.
* `RootIsEarned`, `NoStrategyTwice`, `ChainPauses` – the ladder, the memory of
  failures and the end of replanning.
* `OutcomeIsTrue` – a stage reports a value, a timeout or a cancellation only if
  there was one. `NoLateStart` – a call still queued when its stage ended is
  never made. `StageEnds` – a hung thread does not keep the stage.

**Bounds.** For releases: two approvals and three jobs leave room for a re-run
with and without a crash between, and two files for one that is stale and one
that is newer; eviction from a full store needs more releases than TLC can take
with all this and is left to the proofs, which hold for every limit. For a
stage: the heartbeat does not divide the deadline, so the last wait is the shorter
one, and the clock passes the deadline. For the engine, two changes are enough
for a plan of which one fails and the other does not; three approvals of one job cover a two-change plan plus a replay into
the next strategy or process; `AskApproval` blocks when identifiers run out,
which loses only continuations, and no liveness property depends on one more
identifier than the run has (`live` has four: two strategies with one change
each, and a second round). Two jobs suffice for confusion between jobs, three for
two slots. `MaxCycle = 1` gives one recheck with fresh probes. The bounds of the
large runs were chosen so that each ends in a minute or two.

**Mutants.** For every property of a passing run, `PROJECT.json` names a
plausible bug (operators whose comment says *Mutant of*) under which that run
finds the property violated: a wait that accepts any ring of the event, one
confirmation for the whole plan, a retry under an old approval, an expired wait
that leaves its record open, `Task.cancel()` ignored, every job of the file
resumed, no status written in `finally`, a busy count of running jobs only, a
rejection that forgets the event, an immediate retry of a blocked strategy; a
release marked before its job exists, or not marked; a gate not asked; a stage
that does not wait for its child, does not cancel it, or takes an expired wait
for the deadline; a credential saved unprobed, a branch that forgets the storage
types, a policy skipped for confirmed changes, a helper kept after a failed
command; criteria of the last Pod only, a lenient stability sample; the JSON file read
after the packages, a probe that counts as the group patch, a strategy given back
whatever happened, a read-only plan with a random fingerprint.

## 9. Where code and words disagree

Three of them are runs that must find their property violated.

1. `wrong_cluster` – the chat route promises to "keep diagnosis and every executable
   action on the operator-selected target" (`app.py` 1091), and that mutations "must
   target this concrete cluster" (1636). Types without a kubeconfig branch
   (`recreate_pod`, `create_configmap`, `patch_service`, `create_pvc`, …), and every
   type once the cluster was deleted from the registry, reach the MCP branches
   (7660 on), which serve the cluster of the program.
2. `rolled_out` – "all new Pods" are said to have stayed healthy (8468), but an
   absent `updatedReplicas` counts as all of them (8210): a Deployment whose new
   ReplicaSet has no Pod yet is verified on its old ones.
3. `shadowed` – built-in policy "cannot be shadowed by an old persisted package"
   (`ops_skill_registry.py` 470). A definition posted under a built-in id is
   stored as a custom one (735), and later starts load it.

The following are states or steps of the models without a run of their own.

*Job engine and releases.* A comment (12723) says a channel failure means the
change was not accepted; a timed-out call counts as one (10245–10272), and its
strategy may be submitted again. After a timed-out change the event says that
later actions are cut off (10724); the loop goes on. Deleting a running job is
refused (12036), but enqueueing into a full table removes its record (13233). A
later strategy without a stage inherits the hardening stage and its
`rollback_change` (12917, 10904). A restart is to queue unfinished incidents (663);
a crash between the two writes of the denied gate (10381) loses one. A budget that
runs out while a change waits for its confirmation does not stop it
(`reliability.py` 341, `release_execution.py` 94). `storage_status` calls the store
durable after a restart that read the fallback file (`reliability_store.py` 20, 36,
68), and nothing is saved again when the volume is writable again.
`run_with_heartbeat` waits for its child but not for the child's thread.

*Clusters and changes.* Over HTTP the MCP server does not offer
`replace_immutable_workload`. Rancher's `recreate_pod` does not look at the owner,
as the catalogue says it does (`remediation_engine.py` 55). The kubeconfig channel
patches with JSON merge, so a container list is replaced, not merged (5432). A
webhook that answers *failed* counts as completed. The copy of an object under
replacement is in memory only, and on two channels its patch is not validated
before the deletion. The catalogue promises a scale-out "within the configured cap"
(`remediation_engine.py` 51); for a Deployment scaled through the MCP server only the 20 written
into its tool holds (`k8s_mcp_server.py` 1179), which may be more or less; init containers that the program admits are refused
there, and fewer commands are; autoscalers, Services, budgets and new workloads go
to Rancher unchecked. A registration may answer 422, credentials not replaced,
although they were, when two overlap. A node helper whose creation got no answer
stays. `refresh_token` is not atomic, as its docstring says.

*Verification.* A rollout that has not converged at the first *Ready* probe ends
the verification at once, and so does an old crashing Pod, before the cancel
event is looked at. Unreadable logs, and events through the MCP server, count as
clean. Pods of another workload with the same prefix match. A blocked result
waits out the whole window. An infrastructure plan that names no Pod is verified on its
probe and *any* Pod of the namespace, Ready or not, and is not verified when the
namespace has none. An illness that begins and ends between two samples passes unseen,
and samples may be an interval and two looks apart; a look, with its timeouts, may be many
times the interval. Reads through a kubeconfig (`cluster_registry.py` 314, 348) have no
timeout, and neither has the verification around them (`app.py` 10885), whereas *stages* are not
to leave a job in *running* for ever (`ops_execution.py` 31). Of more than 20
recovered Pods 20 are assessed. An unreadable CronJob counts as rolled out through
two of three channels.

*Skills and planning.* The ladder forgets its attempted stages after a recheck, so
that the init and root stages are not offered again, against the text of the event
(12735). Since the gate may keep a part of a strategy, a change that failed may be
executed again in another one (10967 says it is not repeated). Stages that the API
refused count as tried. Root is offered to a container of unknown identity
(9334). A Skill that an operator published is switched off again when the same
recovery is learned; a recovery is learned from also when its change failed. An
imported archive with unknown actions, which stay "in the package only", is ready
after a restart, and an import answered with an error may be live after one.
One failed write ends all later ones silently. A Skill that is disabled while
its change waits for approval still authorises it. A custom record deleted
under a built-in id comes back enabled. A comment says that the built-in Skills and the
old JSON file are migrated at the first start (`ops_skill_registry.py` 484); every start reads
the file again (446), and a Skill of it that an operator deleted is back, and enabled if the
file has it so.
A recovered attempt with a failed change is rechecked, not closed.

## 10. What is proved

Every safety invariant and every action property that a passing run checks is a
theorem, for every value of the constants (one under a hypothesis, named below); what
remains with TLC is liveness. Each component has an invariant that is inductive,
which TLC checked first on the instances of section 8.

**Jobs** (`OpsJobsProofs`, `OpsJobsSafetyProofs`), for every set of jobs, changes,
approvals and proposals, every redaction function and every limit
(`ProposalAssumption`, `NoneAssumption`, `RedactedAssumption`, `LimitAssumption`,
and `RecordAssumption`: the mark for *no record* is not a record):

| Theorem | Statement |
|---|---|
| `TypeCorrect` | `Spec => []TypeOK` |
| `ApprovalsAreHonest` | `Spec => []ApprovalInv` |
| `OneApprovalPerSubmission` | `Spec => OneShotApproval` |
| `SubmissionsAreConsented` | `Spec => []ConsentedSubmission` |
| `PendingsAreLive` | `Spec => []PendingIsLive` |
| `StatusesTrackTasks` | `Spec => []StatusTracksTask` |
| `UnfinishedAreSaved` | `Spec => []UnfinishedJobsSaved` |
| `StopsAreFinal` | `Spec => StopIsFinal` |
| `VerdictsAreFinal` | `Spec => FinishedStaysFinished` |
| `RecordedBounded` | `Spec => []RecordedConcurrency` |
| `CoroutinesBounded` | `Spec /\ [][KeepsLive]_vars => []ConcurrencyBound` |
| `ContractKept` | `Spec => KeepsContract` (refinement) |

**The argument for approvals.** `OneShotApproval` is about a step and cannot be
carried by itself: a submission is justified by a receipt in the table, and the table
may have come from the file of a dead process. The inductive invariant is
`IInv == TypeOK /\ ApprovalInv`, where `ApprovalInv` says why replays are
harmless: a receipt that says *confirmed*, in memory **or on disk**, names an
approval an operator confirmed; an approval a coroutine waits on is issued,
unspent and waited on by nobody else; a spent approval was issued. `SubmitStep`
then gives both halves: the re-read receipt names the awaited approval, which is
therefore in `consent` and not in `spent`.

Most steps of the coroutine touch none of this. `CalmStep` treats them at once:
a step that writes a typed record with the same receipt, moves a coroutine to a
typed state that does not wait for an approval, and leaves the history alone
preserves `IInv`. Lemmas `…Typed` and `…Calm` say that each record edit
qualifies, and one lemma per action applies it. The others (asking, submitting,
enqueueing, deciding, deleting, dying, restarting) have proofs of their own;
`EveryStep` collects all disjuncts of `Next`.

**The argument for the rest.** `NextShapes` reduces the two dozen actions to the
shape of what they do to one job: its coroutine goes on (`Advances`), asks
(`AsksNext`), ends (`Ends`) or submits, or a handler acts on it. `JobInv(j)` is the
inductive invariant of one job. It ties its coroutine, its record, its event and
its line in the file together: a status and its coroutine (`StatusOk`), the approval a
record shows and the one its coroutine acts under (`PendingOk`, `SlipOk`), what a stop
rules out (`StopOk`), what the file says meanwhile (`SavedOk`, `FinalOk`), and what is
left of a job in a process that is down, or of an identifier not drawn yet (`DownOk`,
`FreshOk`). `Local` says that a step of one job changes nothing of the others but may
evict a record, and `LocalFrame` that this keeps their `JobInv`, so each shape is
proved once, for its own job.

`CoroutinesBounded` has a hypothesis, and needs it. The code counts *records*; an
enqueue into a full table drops the oldest record whatever its status, and if that
job's coroutine runs, it is no longer counted (section 9). `RecordedBounded` states
without any hypothesis what the code does bound: the running coroutines that have
a record. `KeepsLive` says that no step takes the record of a coroutine that goes on,
as no enqueue does while the table has room or its oldest record is of a job that
ended; under it the two sets are equal.
The invariant `Bounded` speaks of memory and file, since a restart brings back what
the file says goes on.

`ContractKept` maps each approval to its slip: initially all are unissued, asking
opens one, a confirmation grants it, a submission spends it, and a rejection, a
cancel, a deadline or a crash voids it. All other shapes are stutters.

**Releases** (`ReleasesProofs`), for every set of releases and jobs, every
list of files and every limit (`CandidateAssumption`, `NoneAssumption`,
`LimitAssumption`): `ReleaseTypes`, `StoreNeverInvents`, `GateIsFinal`
and `EveryRunIsPaid` state `[]` of `TypeOK`, `HistoryHappened`, `BlockedNeverRuns`
and `RunsArePaid`. The counting is not inductive by itself: an approval given
before a crash may still be in a file, or in memory, unused. `IInv` adds `Paid`:
while memory says *approved*, or the process is down, there is credit for one more
job. An approval and a crash each bring the credit; marking the release
executing spends it, even when the save fails, because memory is marked first. That
no file is ahead of history makes a restart harmless for `GateIsFinal`.

**Stages** (`BoundedStageProofs`), for every deadline and heartbeat: `TypesHold`,
`OutcomesAreTrue` and `NothingStartsLate`. The invariant ties child and thread
together (`ChildInv`: a finished child leaves nothing queued) and says that the
child is cancelled only when the stage leaves its loop (`StageInv`), so that a
cancelled child never passes for a result.

**Clusters and changes** (`ChangeExecutionProofs`), for every set of clusters,
servers, tokens and plans and any number of overlapping calls
(`RegistryAssumption`, `PlanAssumption`):

| Theorem | Statement |
|---|---|
| `TypeCorrect` | `Spec => []TypeOK` |
| `OnlyProvenIsStored` | `Spec => []StoredWasProven` |
| `OnlyProvenIsUsed` | `Spec => []UsesProvenCredential` |
| `RancherChangesStay` | `Spec => []RancherStaysRemote` |
| `AppliedIsWithinPolicy` | `Spec => []AppliedWithinPolicy` |
| `CompletedIsTrue` | `Spec => []CompletedWasApplied` |
| `DeletionsAreAccountedFor` | `Spec => []ReplacementIsAccountedFor` |
| `HelpersAreReaped` | `Spec => []NoStrayHelper` |

A credential is read, probed, saved and used in different steps, so the invariant
follows it: what a call is about to save is proven (`CallsProven`), and so is what a
thread read from a row (`ExecInv`). `LandedInv` says that nothing lands before the
channel and the credential are fixed, and that neither changes afterwards.

The last four need a second invariant, `DeedInv`, about what each call has done by
where it stands: a call past its validators was admitted by those of its channel
(`CourseOk`), a command that ended well or a result *completed* has landed, and what
landed is within the policy (`EffectOk`), and a deletion or a helper is owed by a
call that still runs or was written off (`DebtOk`). `OnlyOf` and `OthersKeep` are the
frame: overlapping calls share the objects of a place, but none of them edits what
another has done. The proof of `TypeCorrect` found an omission in the model: a plan
may name a cluster that is not Rancher's, and `Reachable` now says that Rancher's
proxy does not reach it, where the model used to let such a call land nowhere known.

**Verification** (`RecoveryCheckProofs`), for every set of plans, every grace period,
deadline, interval and set of stability windows, any number of assessed Pods and any
number of moves of the cluster (`WindowAssumption`, `PlanAssumption`):

| Theorem | Statement |
|---|---|
| `ChecksAreTyped` | `Spec => []CheckTypeOK` |
| `RecoveriesAreProven` | `Spec => []RecoveredWasProven` |
| `LastingRelapsesWithdraw` | `Spec => []RelapseWithdraws` |
| `VerificationIsTimely` | `Spec => [](now <= EndsBy)`, `EndsBy == Timeout + check.stability + 2 * Look` |

The cluster moves between the reads, so nothing a call has read need still hold.
What the invariant carries is what was *seen*: `FreshFacts` (what holds now is in
`facts`) lets each read add to it, `AnswerInv` says what an answer *recovered* saw,
`PodsInv` that Pods of that answer are read where it names any, and `CriteriaInv` that while no
criterion has failed, every Pod judged so far was shown to meet what was asked –
with `Judged` leaving out the Pod whose owner has not been read. A criterion
without a probe stays open from the first Pod on. `ClockInv` is the other half, in
three parts. `LookInv`: a look ends at most `Look` after the verification woke. `WellInv`: a target
that is healthy is not ill. `IllInv` joins them: a probe that answers *recovered* found the target healthy, so by the
end of its look an illness is no older than that look; then comes one interval
of sleep; and the next probe either withdraws the verdict or starts over. That is an
interval and two looks, and no less. `DeadlineInv` bounds every sleep
by the deadline or the end of the window, which itself may open a look after the
deadline; it is the part of `VerificationEnds` that is
not about fairness. Both rest on the assumption about `Look` (section 6). The proof of `AnswerMeans` found that two cases of `ProbeAnswers`
overlapped, which TLC resolves by their order and the logic does not; they are now
disjoint, in the order of the code's early returns.

**Skills and planning** (`SkillRegistryProofs`, `RecoveryPlanningProofs`), for every
set of Skills, actions, scenes and incidents, and a loop of any length
(`SkillAssumption`, `PlanningAssumption`):

| Theorem | Statement |
|---|---|
| `PlanningTyped` | `Spec => []TypeOK` |
| `OperatorsDecide` | `Spec => []OperatorDecides` |
| `GateIsPassed` | `Spec => ExecutedWasAuthorised` |
| `FailuresEnd` | `Spec => NoStrategyTwice` |
| `LadderIsClimbed` | `Spec => RootIsEarned` |

`OperatorDecides` speaks of memory; after a restart memory is what the JSON file and the packages
held, so `SkillInv` says the same of both, with one difference: a package that is
enabled but allows nothing, the torn one, is harmless, because it is read back as
not ready. The last three are about steps. `ApprovedInv` carries what the gate
found to the submission. For `NoStrategyTwice` every failed strategy must still be
in `attempted` (`FailuresInv`), which holds because a strategy that is taken back has
not failed. `GroundsInv` says that a plan with a root patch, and the list of failed
changes it inherited, rest on what has spoken so far; the ladder is the only
operator that adds one, and `LadderFits` is where its conditions are used.

`TypeOK` is not decoration in `OpsJobs`: `Merged` must replace an unnamed stage, and a
restored record must be a record, or the file would poison the coroutine.

**Only model-checked:** the liveness properties `DecisionsTakeEffect`, `AttemptsEnd`,
`StageEnds`, `PendingSettles`, `VerificationEnds` and `ChainPauses` (reasoning with
fairness needs ENABLED, which is beyond the prover used), and `ConcurrencyBound`
without `KeepsLive`, which holds in the `capacity` run because its table is as large
as its set of jobs. The three runs that expect a violation stand by their
counterexamples. The `MC` modules start from a part of the initial states (`MCInit`),
so the theorems cover more than the runs: any plan, window or number of jobs.

## 11. Plan

Each step with its runs, mutants and map.

1. *Done.* `OpsJobs`, `ApprovalContract`, `Releases`, `BoundedStage`, with proofs.
2. *Done.* `ClusterRegistry` and `ChangeExecution`; `RecoveryCheck`; `SkillRegistry`
   and `RecoveryPlanning`, with first theorems.
3. *Done.* Proofs of every safety invariant and action property that a run checks,
   and of the refinement of `ApprovalContract`.
4. `Runtime` – the middleware with its rate windows, bulkheads, caches and the
   LLM token cache in one module, because a request passes through all of them;
   two slots and three waiters.
5. Several stages of one change loop, so that two threads at work meet in one
   model; the lineage across follow-up jobs.
6. Pure algorithms – error budget, redaction, plan normalisation, risk rules –
   as functions against reference definitions.

## 12. What is not modelled

* The synchronous route that executes a plan without a job: it carries no
  changes.
* `resume_pending`, the mark between restoring and resuming a job, is folded
  into `Restart`: a crash in between leaves an equivalent file. Plans with
  neither steps nor changes cannot be enqueued, so the resume branch that
  rejects them is left out.
* The contents of evidence and manifests beyond the kinds and situations of
  sections 5 to 7, and the numeric scoring of agents and algorithms.
* The read-only halves of the cluster registry and the MCP servers, the diagnostic
  steps of a plan, the usage counters and receipts of Skills, archive validation.
* A workload that several jobs repair at once: each model has one job at a
  target (`OpsJobs` has several, without the target).
* Several server processes sharing a job file: the code assumes one.
* The components marked *planned* or *not modelled* in section 1.

The hazards the code is exposed to, with their lines and the properties that
cover them, are listed in `PROJECT.json`; those without a property name the
module of the plan that is to cover them.
