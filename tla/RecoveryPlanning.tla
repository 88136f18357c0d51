-------------------------- MODULE RecoveryPlanning --------------------------
(***************************************************************************)
(* How an operations job decides what to do next: the loop of _run_ops_job *)
(* and the planning half of _execute_ops_plan_once in backend/app/         *)
(* application.py, with the Skill gate in front of every change, the two   *)
(* executable Skills, the evidence engine of remediation_engine.py and the *)
(* alternatives after a failed attempt.  The approval of single changes is *)
(* OpsJobs, the channel that carries one is ChangeExecution, the           *)
(* verification is RecoveryCheck: here each of them is one step with the   *)
(* outcomes those modules allow.                                           *)
(*                                                                         *)
(* A change stands for its canonical form, the one that is fingerprinted:  *)
(* "probe" and "reprobe" are the identity probe of the Pod of before and   *)
(* of after a rollout, "nonroot", "init" and "root" are the patches of the *)
(* permission ladder, the others are what the engine, the model or the     *)
(* derived alternatives propose.                                           *)
(***************************************************************************)
EXTENDS SkillRegistry, Sequences

CONSTANTS
    PermissionSkill,    \* VOLUME_PERMISSION_SKILL_ID
    StorageSkill,       \* PVC_PV_SKILL_ID
    ModelChanges,       \* what the language model may propose
    Situations,         \* states of the incident, as evidence shows them
    Scenes,             \* what a job is created for, and its bounds: see Scene
    MaxShifts,          \* bound: how often the incident changes by itself
    MaxCycles           \* bound: continuous rechecks

Stages == {"probe", "reprobe", "nonroot", "init", "root"}
Changes == Stages \cup {"patch", "tune", "restart", "config", "bind", "recreate"}

ActionOf(c) ==
    CASE c \in {"probe", "reprobe"} -> "exec_pod"
      [] c \in {"nonroot", "init", "root"} -> "patch_workload_runtime_security"
      [] c \in {"patch", "tune"} -> "patch_workload"
      [] c = "restart" -> "restart"
      [] c = "config" -> "create_configmap"
      [] c = "bind" -> "create_pvc"
      [] c = "recreate" -> "recreate_pod"

Causes == {"permission", "mount", "config", "oom", "unknown"}
Ids == {"none", "user", "root"}

\* The thresholds of the engine: 0.55, 0.62 and 0.72.
Confidence == {"low", "some", "enough", "strong"}

\* cause, confidence: the first hypothesis of score_root_causes; write: what
\* classify_volume_write_failure makes of it; mount: the failing path is
\* mounted; supplied: what a remedy needs is there, an approved template, a
\* claim that can be created, a limit to raise, or a Pod whose logs are gone.
Situation == [cause : Causes, confidence : Confidence, write : {"none", "weak", "likely", "closed"},
              mount : BOOLEAN, supplied : BOOLEAN]

\* build_remediation_plan: a storage object needs no confidence, a patch does,
\* and a write failure is left to the Skill.
Remedy(s) ==
    CASE s.cause = "mount" /\ s.supplied -> {"bind"}
      [] s.cause = "config" /\ s.supplied /\ s.confidence \in {"enough", "strong"} -> {"config"}
      [] s.cause = "oom" /\ s.supplied /\ s.confidence \in {"enough", "strong"} -> {"patch"}
      [] s.cause = "unknown" /\ s.confidence \in {"strong"} \cup (IF s.supplied THEN {"some", "enough"} ELSE {}) -> {"recreate"}
      [] OTHER -> {}

\* The actions that fit a proven cause.
Fitting(cause) ==
    CASE cause = "permission" -> {"patch_workload", "patch_workload_runtime_security", "exec_pod"}
      [] cause = "mount" -> {"create_pvc"}
      [] cause = "config" -> {"create_configmap"}
      [] cause = "oom" -> {"patch_workload"}
      [] cause = "unknown" -> Actions

Executable == {PermissionSkill, StorageSkill}
NoSkill == "no skill"

\* uid, image: the identity in the template, or else of the image; memory: an
\* earlier incident of the target was ended by root; changes, handled: the
\* plan the job is created with, and whether an executable Skill made it;
\* edits, shifts, cycles: how much happens in this scene.
Scene == [sit : Situations, uid : Ids, image : Ids \ {"none"}, memory : BOOLEAN,
          changes : SUBSET Changes, handled : BOOLEAN,
          edits : 0 .. MaxEdits, shifts : 0 .. MaxShifts, cycles : 0 .. MaxCycles]

ASSUME PlanningAssumption ==
    /\ Executable \subseteq Builtins /\ NoSkill \notin SkillIds
    /\ ModelChanges \subseteq Changes /\ {ActionOf(c) : c \in Changes} \subseteq Actions
    /\ Situations \subseteq Situation /\ Scenes \subseteq Scene /\ Scenes # {}
    /\ MaxShifts \in Nat /\ MaxCycles \in Nat

VARIABLES
    pc,         \* where the job is: head, approve, verify, readonly, wait, done
    initial,    \* initial_plan
    plan,       \* current
    strategy,   \* the changes of current when its fingerprint was taken
    attempted,  \* fingerprints of the strategies tried
    spent,      \* change fingerprints in history
    evidence,   \* _runtime_evidence
    outcome,    \* what the submission returned
    cycles,     \* bound: rechecks left
    world,      \* the workload and its incident
    shifts,     \* bound: changes of the incident left
    grant,      \* history: actions the Skill allowed when it was routed
    failures,   \* history: strategies that failed and were not taken back
    grounds     \* history: what has spoken for root so far

jobVars == <<pc, initial, plan, strategy, attempted, spent, evidence, outcome, cycles>>
worldVars == <<world, shifts>>
historyVars == <<grant, failures, grounds>>
vars == <<jobVars, worldVars, historyVars, skillVars>>

-----------------------------------------------------------------------------
(* Plans and evidence *)

Probes == {"start", "engine", "deep", "mounts", "stage", "storage", "admin", "recheck"}

\* probes: the diagnostic steps; manual: operator_steps; handled:
\* skill_handler_invoked; tried: _attempted_skill_ids; failed, identity:
\* _last_failure, the changes of it and what its probe printed.  Its
\* _attempted_change_fingerprints are always those of spent.
Plan == [changes : SUBSET Changes, probes : Probes, manual : BOOLEAN, handled : BOOLEAN,
         skill : SkillIds \cup {NoSkill}, tried : SUBSET SkillIds,
         failed : SUBSET Changes, identity : Ids]

Proposal(changes, probes) ==
    [changes |-> changes, probes |-> probes, manual |-> FALSE, handled |-> FALSE, skill |-> NoSkill,
     tried |-> {}, failed |-> {}, identity |-> "none"]

\* _change_fingerprint: of the changes, or else of the probes and the target.
Fingerprint(p) ==
    [changes |-> p.changes, probes |-> IF p.changes = {} THEN p.probes ELSE "engine",
     manual |-> p.changes = {} /\ p.manual]

\* Mutant of Remembered: a read-only plan is told apart by its random id.
RememberedMutations(fp) == IF fp.changes = {} THEN {} ELSE {fp}
\* Every recheck has probe ids of its own cycle: its fingerprint is never met
\* again.
Remembered(fp) == IF fp.changes = {} /\ fp.probes = "recheck" THEN {} ELSE {fp}

Seen(w) == [ok |-> TRUE, sit |-> w.sit, uid |-> w.uid, pod |-> w.pod, memory |-> w.memory]
\* A collection that fails leaves the evidence the plan already carried.
Failed(e) == [e EXCEPT !.ok = FALSE]

Cause(e) == IF e.ok THEN e.sit.cause ELSE "unknown"
Proven(e) == e.ok /\ e.sit.confidence = "strong"
\* The four facts that open the way to root include a non-root identity.
Write(e) == IF e.sit.write = "closed" /\ e.uid = "root" THEN "likely" ELSE e.sit.write
Contradicted(changes, e) == Proven(e) /\ \E c \in changes : ActionOf(c) \notin Fitting(Cause(e))

\* What the guardrail of the ladder asks of the evidence before root, and
\* what keeps the other stages from being offered.
Speaks(e) ==
    {g \in {"closed", "identity", "unmounted"} :
        \/ g = "closed" /\ Write(e) = "closed"
        \/ g = "identity" /\ e.uid # "user"
        \/ g = "unmounted" /\ ~e.sit.mount}

-----------------------------------------------------------------------------
(* The executable Skills *)

\* Mutant of Ladder: a probe that did not help counts as the group patch.
LadderProbeCounts(p, e) ==
    LET uid == IF e.uid # "none" THEN e.uid ELSE p.identity
        force == e.memory \/ Write(e) = "closed"
        probed == p.failed \cap {"probe", "reprobe"} # {}
        grouped == probed \/ p.failed \cap {"nonroot", "init"} # {}
        step == IF ~force /\ uid # "user" /\ ~probed THEN {IF e.pod = "old" THEN "probe" ELSE "reprobe"}
                ELSE IF ~force /\ uid = "user" /\ ~grouped THEN {"nonroot"}
                ELSE {"root"} \ p.failed
    IN [p EXCEPT !.changes = step, !.probes = IF step = {} THEN "admin" ELSE "stage"]

\* _permission_recovery_followup.  Only the last failure is remembered, and
\* an init patch carries the security context of the group patch too.
Ladder(p, e) ==
    LET uid == IF e.uid # "none" THEN e.uid ELSE p.identity
        force == e.memory \/ Write(e) = "closed"
        probed == p.failed \cap {"probe", "reprobe"} # {}
        grouped == p.failed \cap {"nonroot", "init"} # {}
        step == IF ~force /\ uid # "user" /\ ~probed THEN {IF e.pod = "old" THEN "probe" ELSE "reprobe"}
                ELSE IF ~force /\ uid = "user" /\ ~grouped THEN {"nonroot"}
                ELSE IF ~force /\ uid = "user" /\ e.sit.mount /\ "init" \notin p.failed THEN {"init"}
                ELSE {"root"} \ p.failed
    IN [p EXCEPT !.changes = step, !.probes = IF step = {} THEN "admin" ELSE "stage",
                 !.manual = p.manual \/ step = {}]

\* The handlers give one plan or none; it inherits what the plan held.
VolumeHandler(p, e) ==
    CASE Write(e) = "none" -> {}
      [] Write(e) = "weak" -> {[p EXCEPT !.changes = {}, !.probes = "mounts", !.skill = PermissionSkill]}
      [] OTHER -> {[Ladder(p, e) EXCEPT !.skill = PermissionSkill]}
PvcHandler(p, e) ==
    IF e.sit.cause = "mount"
    THEN {[p EXCEPT !.changes = Remedy(e.sit), !.probes = "storage", !.skill = StorageSkill]} ELSE {}
Generated(s, p, e) == IF s = PermissionSkill THEN VolumeHandler(p, e) ELSE PvcHandler(p, e)

-----------------------------------------------------------------------------
(* The Skill gate *)

\* What the registry may put first: nothing, or an enabled Skill the chain
\* has not used up.  may: the score and the evidence it asks for suffice.
NoMatch == [skill |-> NoSkill, may |-> FALSE]
Matches(p) ==
    {NoMatch} \cup [skill : {s \in SkillIds : Known(s) /\ skills[s].enabled
                                              /\ (s \notin p.tried \/ s \in Executable)},
                    may : BOOLEAN]

\* Ready, on evidence that is complete for it, and above the threshold.
Authorised(m) == m.may /\ skills[m.skill].ready
\* The changes whose action the chosen Skill allows.
Permitted(changes, m) ==
    {c \in changes : Authorised(m) /\ ActionOf(c) \in skills[m.skill].actions \cap Catalog}

\* _attach_operator_skills_to_plan
Attach(p, e, m) ==
    IF m = NoMatch THEN [p EXCEPT !.changes = {}]
    ELSE LET made == IF Authorised(m) /\ m.skill \in Executable THEN Generated(m.skill, p, e) ELSE {}
             q == IF made = {} THEN p ELSE [(CHOOSE g \in made : TRUE) EXCEPT !.handled = TRUE]
         IN [q EXCEPT !.skill = m.skill, !.changes = Permitted(q.changes, m)]

\* One candidate with each outcome of the gate.
Attached(p, e) == {Attach(p, e, m) : m \in Matches(p)}

-----------------------------------------------------------------------------
(* The next plans *)

\* What survives of the proposals: no change tried before, none that the cause
\* excludes; the engine has none without evidence.
Offered(offered, e, done) ==
    {c \in (IF e.ok THEN offered ELSE offered \cap ModelChanges) \ done : ~Contradicted({c}, e)}

\* _evidence_based_replan: sets of at most one plan.  Its ladder plan has not
\* passed the gate yet; the fresh one has, and is dropped when it emptied it.
Replans(p, e, offered, done) ==
    IF Cause(e) = "permission" /\ Write(e) # "none" THEN {VolumeHandler(p, e)}
    ELSE IF Cause(e) = "mount" THEN {PvcHandler(p, e)}
    ELSE {{}} \cup {{q} : q \in {a \in UNION {Attached(Proposal({c}, "engine"), e) : c \in Offered(offered, e, done)} :
                                   a.changes # {}}}

\* What the model proposes replaces what the engine does.
Planned(p, e, done) == UNION {Replans(p, e, o, done) : o \in {ModelChanges, Remedy(e.sit)}}

\* _derive_alternative_plans
Derived(p, e) ==
    CASE VolumeHandler(p, e) # {} -> CHOOSE q \in VolumeHandler(p, e) : TRUE
      [] VolumeHandler(p, e) = {} /\ p.changes \cap {"patch", "tune"} # {} -> Proposal({"restart"}, "engine")
      [] VolumeHandler(p, e) = {} /\ p.changes \cap {"patch", "tune", "restart"} = {"restart"} ->
            Proposal({"tune"}, "engine")
      [] OTHER -> Proposal({}, "deep")

\* A set of at most one plan as a sequence.
InOrder(r) == IF r = {} THEN <<>> ELSE <<CHOOSE q \in r : TRUE>>

\* Both, each sent through the gate again.
Alternatives(p, e, done) ==
    UNION {{<<a, b>> : a \in UNION {Attached(q, e) : q \in r}, b \in Attached(Derived(p, e), e)}
             \cup (IF r = {} THEN {<<b>> : b \in Attached(Derived(p, e), e)} ELSE {}) : r \in Planned(p, e, done)}

\* Mutant of Adopted: a plan that no Skill was routed for counts as tried too.
AdoptedUnrouted(q, p) ==
    [q EXCEPT !.handled = @ \/ initial.handled, !.tried = p.tried \cup {p.skill},
              !.failed = p.failed, !.identity = p.identity]
\* {**initial_plan, **next_plan} and the fields taken from the plan before.
Adopted(q, p) ==
    [q EXCEPT !.handled = @ \/ initial.handled, !.tried = p.tried,
              !.failed = p.failed, !.identity = p.identity]

\* _continuous_diagnostic_plan: the summary of the failure names no changes.
Recheck(p) ==
    [p EXCEPT !.changes = {}, !.probes = "recheck", !.failed = {}, !.identity = "none"]

NoStrategy == [changes |-> {}, probes |-> "recheck", manual |-> FALSE]
Between == strategy' = NoStrategy /\ outcome' = "none" /\ grant' = {}

Pause(p) == Between /\ pc' = "wait" /\ plan' = Recheck(p)
\* _select_next_ops_plan
Continue(p, alternatives) ==
    LET open == {i \in DOMAIN alternatives : Fingerprint(alternatives[i]) \notin attempted}
    IN \/ open = {} /\ Pause(p)
       \/ \E i \in open :
            /\ \A j \in open : i <= j
            /\ Between /\ pc' = "head" /\ plan' = Adopted(alternatives[i], p)

\* The coroutine returns: what it held is gone.
Over ==
    /\ Between /\ pc' = "done" /\ plan' = initial
    /\ attempted' = {} /\ spent' = {} /\ failures' = {} /\ grounds' = {}

-----------------------------------------------------------------------------
(* The workload *)

Landed(w, changes) ==
    [w EXCEPT !.uid = IF "root" \in changes THEN "root"
                      ELSE IF changes \cap {"nonroot", "init"} # {} THEN "user" ELSE @,
              !.pod = IF changes \ {"probe", "reprobe", "config", "bind"} # {} THEN "new" ELSE @]

\* What a probe prints: the identity of the template, or of the image.
Identity(w) == IF w.uid # "none" THEN w.uid ELSE w.image

\* The incident takes another turn while the job waits for something.
Shift ==
    /\ pc \notin {"idle", "done"} /\ shifts > 0 /\ shifts' = shifts - 1
    /\ \E s \in Situations \ {world.sit} : world' = [world EXCEPT !.sit = s]
    /\ UNCHANGED <<jobVars, historyVars, skillVars>>

-----------------------------------------------------------------------------
(* The job *)

World == [sit : Situations, uid : Ids, image : Ids \ {"none"}, pod : {"old", "new"}, memory : BOOLEAN]

\* A job of a scene, or no job ("idle"), where only the registry is at work.
Init ==
    /\ RegistryInit
    /\ \E s \in Scenes :
         /\ world = [sit |-> s.sit, uid |-> s.uid, image |-> s.image, pod |-> "old", memory |-> s.memory]
         /\ initial = [Proposal(s.changes, "start") EXCEPT !.handled = s.handled]
         /\ \/ pc = "head" /\ edits = s.edits /\ shifts = s.shifts /\ cycles = s.cycles
            \/ s = (CHOOSE any \in Scenes : TRUE) /\ pc = "idle" /\ edits = MaxEdits /\ shifts = 0 /\ cycles = 0
    /\ plan = initial /\ strategy = NoStrategy
    /\ attempted = {} /\ spent = {} /\ evidence = Failed(Seen(world)) /\ outcome = "none"
    /\ grant = {} /\ failures = {} /\ grounds = {}

\* The head of the loop, and the release gate for a plan that changes
\* something: when it blocks, the strategy is not remembered.
TakeStrategy ==
    /\ pc = "head"
    /\ \/ /\ Fingerprint(plan) \notin attempted /\ pc' = "route" /\ strategy' = Fingerprint(plan)
          /\ attempted' = attempted \cup Remembered(Fingerprint(plan))
          /\ UNCHANGED <<plan, outcome, grant>>
       \/ /\ Fingerprint(plan) \in attempted \/ plan.changes # {}
          /\ Pause(plan) /\ UNCHANGED attempted
    /\ UNCHANGED <<initial, spent, evidence, cycles, worldVars, failures, grounds, skillVars>>

\* Mutant of Replaced: a plan that a Skill had made before is trusted.
ReplacedOnce(q) == q.handled /\ ~plan.handled /\ q.changes # strategy.changes
\* The executable Skill made other changes than the job was to carry out.
Replaced(q) == q.handled /\ q.changes # strategy.changes

\* Fresh evidence, the gate on it, and the check against the proven cause:
\* the plan is replaced, refuted, read-only, or goes to its approval.
Route ==
    /\ pc = "route"
    /\ \E e \in {Seen(world), Failed(evidence)} :
         /\ evidence' = e /\ grounds' = grounds \cup Speaks(e)
         /\ \/ /\ ~e.ok /\ pc' = "readonly" /\ plan' = [plan EXCEPT !.changes = {}]
               /\ UNCHANGED <<spent, strategy, outcome, grant>>
            \/ /\ e.ok
               /\ \E m \in Matches(plan) :
                    LET q == Attach(plan, e, m)
                        done == spent \cup q.changes
                    IN \/ Replaced(q) /\ Continue(q, <<q>>) /\ spent' = done
                       \/ /\ ~Replaced(q) /\ Contradicted(q.changes, e) /\ spent' = done
                          /\ \E r \in Replans(q, e, Remedy(e.sit), done) : Continue(q, InOrder(r))
                       \/ /\ ~Replaced(q) /\ ~Contradicted(q.changes, e)
                          /\ pc' = (IF q.changes = {} THEN "readonly" ELSE "approve") /\ plan' = q
                          /\ grant' = (IF q.changes = {} THEN {} ELSE skills[m.skill].actions)
                          /\ UNCHANGED <<spent, strategy, outcome>>
    /\ UNCHANGED <<initial, attempted, cycles, worldVars, failures, skillVars>>

\* A plan without changes: the target is found healthy, or is planned for.
ReadOnly ==
    /\ pc = "readonly"
    /\ \/ Over
       \/ /\ \E r \in Planned(plan, evidence, spent) : Continue(plan, InOrder(r))
          /\ UNCHANGED <<attempted, spent, failures, grounds>>
    /\ UNCHANGED <<initial, evidence, cycles, worldVars, skillVars>>

\* Every change is approved and sent.  It is applied, refused by the API, or
\* the channel fails, which says nothing of what has landed.
Submit ==
    /\ pc = "approve" /\ pc' = "verify"
    /\ \/ outcome' = "applied" /\ world' = Landed(world, plan.changes)
       \/ outcome' = "rejected" /\ \E c \in (SUBSET plan.changes) \ {plan.changes} : world' = Landed(world, c)
       \/ outcome' = "channel" /\ \E c \in SUBSET plan.changes : world' = Landed(world, c)
    /\ UNCHANGED <<initial, plan, strategy, attempted, spent, evidence, cycles, shifts, historyVars, skillVars>>

\* Mutant of TakenBack: every failed strategy may be tried again.
TakenBackAlways(o) == o # "none"
\* _operator_blocking_execution_failure: the channel refused, the strategy
\* did not fail.
TakenBack(o) == o = "channel"

\* A recovery is learned from, also when a change of it failed.  Then the
\* job goes on all the same.
Recovered ==
    /\ pc = "verify"
    /\ \E s \in Candidates : LearnSkill(s, {ActionOf(c) : c \in plan.changes})
    /\ \/ outcome = "applied" /\ Over
       \/ /\ outcome # "applied" /\ Pause([plan EXCEPT !.tried = @ \cup {plan.skill}])
          /\ IF TakenBack(outcome)
             THEN attempted' = attempted \ {strategy} /\ UNCHANGED spent
             ELSE spent' = spent \cup plan.changes /\ UNCHANGED attempted
          /\ UNCHANGED <<failures, grounds>>
    /\ UNCHANGED <<initial, evidence, cycles, worldVars, edits>>

\* _last_failure of an attempt that was not verified.
AfterFailure ==
    [plan EXCEPT !.failed = plan.changes, !.tried = @ \cup {plan.skill},
                 !.identity = IF outcome = "applied" /\ plan.changes \cap {"probe", "reprobe"} # {}
                              THEN Identity(world) ELSE "none"]

\* Not recovered: the evidence is taken again, and the next plan chosen; when
\* the channel failed, the job waits and may try the same again.
Unresolved ==
    /\ pc = "verify"
    /\ \E e \in {Seen(world), evidence} :
         /\ evidence' = e
         /\ grounds' = grounds \cup Speaks(e) \cup (plan.changes \cap {"nonroot", "init"})
         /\ failures' = IF outcome = "channel" THEN failures ELSE failures \cup {strategy.changes}
         /\ IF TakenBack(outcome)
            THEN /\ Pause(AfterFailure) /\ attempted' = attempted \ {strategy}
                 /\ UNCHANGED spent
            ELSE /\ spent' = spent \cup plan.changes
                 /\ \E a \in Alternatives(AfterFailure, e, spent') : Continue(AfterFailure, a)
                 /\ UNCHANGED attempted
    /\ UNCHANGED <<initial, cycles, worldVars, skillVars>>

\* _wait_for_continuous_recheck
NextCycle ==
    /\ pc = "wait" /\ cycles > 0 /\ cycles' = cycles - 1 /\ pc' = "head"
    /\ UNCHANGED <<initial, plan, strategy, attempted, spent, evidence, outcome, worldVars, historyVars, skillVars>>

Cancel ==
    /\ pc \in {"approve", "wait"} /\ Over
    /\ UNCHANGED <<initial, evidence, cycles, worldVars, skillVars>>

RegistryMoves ==
    /\ \/ pc \notin {"done", "verify", "head"} /\ OperatorEdits
       \/ pc = "idle" /\ (OtherJobLearns \/ RestartRegistry)
    /\ UNCHANGED <<jobVars, worldVars, historyVars>>

JobMoves == TakeStrategy \/ Route \/ ReadOnly \/ Recovered \/ Unresolved
Next == JobMoves \/ Submit \/ NextCycle \/ Cancel \/ Shift \/ RegistryMoves

\* The loop runs on by itself until it waits for an operator or for the clock.
Spec == Init /\ [][Next]_vars /\ WF_vars(JobMoves)

-----------------------------------------------------------------------------
(* Properties *)

Fingerprints == [changes : SUBSET Changes, probes : Probes, manual : BOOLEAN]

TypeOK ==
    /\ RegistryTypeOK
    /\ pc \in {"idle", "head", "route", "readonly", "approve", "verify", "wait", "done"}
    /\ initial \in Plan /\ plan \in Plan /\ strategy \in Fingerprints
    /\ attempted \subseteq Fingerprints /\ spent \subseteq Changes
    /\ evidence \in [ok : BOOLEAN, sit : Situations, uid : Ids, pod : {"old", "new"}, memory : BOOLEAN]
    /\ outcome \in {"none", "applied", "rejected", "channel"} /\ cycles \in 0 .. MaxCycles
    /\ world \in World /\ shifts \in 0 .. MaxShifts
    /\ grant \subseteq Actions /\ failures \subseteq SUBSET Changes
    /\ grounds \subseteq {"closed", "identity", "unmounted", "nonroot", "init"}

\* Comments at the Skill gate: what is carried out was proposed under the
\* strategy the job announced (what a Skill makes at execution time is a new
\* approval object), is allowed by the Skill that was chosen on fresh
\* evidence, and is not an action that evidence has refuted.
ExecutedWasAuthorised ==
    [][Submit => /\ plan.changes \subseteq strategy.changes /\ evidence.ok
                 /\ {ActionOf(c) : c \in plan.changes} \subseteq grant \cap Catalog
                 /\ ~Contradicted(plan.changes, evidence)]_vars

\* The guardrail of the permission Skill: its ladder makes the business
\* container root only on closed evidence or a verified memory, or when its
\* identity was not known to be non-root, or after the smaller stages were
\* carried out in vain.  A root patch the model proposes itself meets the gate
\* alone, and is left aside here.
RootIsEarned ==
    [][Submit /\ "root" \in plan.changes \ (initial.changes \cup ModelChanges) =>
          \/ world.memory \/ grounds \cap {"closed", "identity", "init"} # {}
          \/ {"nonroot", "unmounted"} \subseteq grounds]_vars

\* A strategy that failed is not carried out a second time, however often the
\* job rechecks, unless it was the channel that failed.
NoStrategyTwice == [][Submit => strategy.changes \notin failures]_vars

\* Replanning comes to rest: the job cannot go from plan to plan for ever
\* without an approval, a pause or an end.
ChainPauses == pc \in {"head", "verify"} ~> pc \in {"approve", "wait", "done"}
=============================================================================
