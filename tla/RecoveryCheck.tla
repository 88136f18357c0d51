--------------------------- MODULE RecoveryCheck ---------------------------
(* How one executed plan is judged: _verify_plan_recovery waits for the      *)
(* rollout, probes the Pods of the target until they are Ready or the        *)
(* window is over, reads fresh evidence of each, evaluates the criteria of   *)
(* recovery, and, when a stability window is set, samples all of it again    *)
(* until the window ends.  The cluster moves on between any two reads, and   *)
(* time passes in the reads as it does in the sleeps between them.           *)
EXTENDS Naturals, FiniteSets

CONSTANTS
    Grace,       \* OPS_VERIFY_INITIAL_GRACE_SECONDS
    Timeout,     \* OPS_VERIFY_TIMEOUT_SECONDS
    Interval,    \* OPS_VERIFY_INTERVAL_SECONDS, at least 1
    Look,        \* the longest a look takes: a probe and the evidence after it, late loop included
    Stabilities, \* OPS_RECOVERY_STABILITY_SECONDS: the values a deployment may set
    Assessed,    \* how many recovered Pods are assessed (20)
    Plans,       \* the plans that may be verified
    MaxMoves     \* bound: moves of the cluster during one verification

ASSUME WindowAssumption ==
    /\ Grace \in Nat /\ Timeout \in Nat /\ Interval \in Nat \ {0} /\ Look \in Nat
    /\ Stabilities \subseteq Nat /\ Assessed \in Nat \ {0} /\ MaxMoves \in Nat

VARIABLES
    pods,     \* what the API server says of each Pod the plan's names match
    rollout,  \* the target's controller: [quota, suspended, observed, status]
    aside,    \* the other object of the plan, a resource or an infrastructure probe
    moves,    \* bound: moves the cluster has left
    now,
    check,    \* the call of _verify_plan_recovery
    cancel,   \* the job's cancel event
    facts,    \* history: what held at some moment since the last probe began
    ill,      \* history: for how long the target has not been healthy
    worst     \* history: the longest illness since the stability window opened

clusterVars == <<pods, rollout, aside, moves>>
vars == <<clusterVars, now, check, cancel, facts, ill, worst>>

\* A workload matches the Pods it owns and every Pod named <workload>-*; a plan
\* that names none reads its own Pod, or one of all the Pods of the namespace.
Pods == {"old", "new", "namesake"}
Own == {"old", "new"}
States == {"absent", "starting", "ready", "scarred", "crash", "failed", "done"}
Evidence == {"event", "log"}
Answers == {"yes", "no", "unknown"}
Channels == {"kubeconfig", "rancher", "mcp"}
\* [kind, bound: names its target, type, channel, asked: its success criteria]
Kinds == {"readonly", "workload", "resource", "infra"}
Criteria == {"pod_ready", "rollout_complete", "clean", "business_probe_ok"}
Types == {"deployment", "statefulset", "daemonset", "replicaset", "job", "cronjob", "pod",
          "other"}  \* what is no workload: a database, a virtual machine

ASSUME PlanAssumption ==
    Plans \subseteq [kind : Kinds, bound : BOOLEAN, type : Types, channel : Channels,
                     asked : SUBSET Criteria]

(* ------------------------- what one read shows -------------------------- *)
Matched == {p \in Pods : pods[p].state # "absent"}
\* Pods that ended well are no problem, and those that failed are only one
\* when no other Pod of the workload is active.
ForHealth(bound) ==
    LET active == {p \in Matched : pods[p].state # "done"}
        living == {p \in active : pods[p].state # "failed"}
    IN IF bound /\ living # {} THEN living ELSE IF active # {} THEN active ELSE Matched
Unresolved(bound) == {p \in ForHealth(bound) : pods[p].state \notin {"ready", "done"}}
Terminal(bound) == {p \in Unresolved(bound) : pods[p].state \in {"failed", "crash", "scarred"}}

Found(status, answer) == [status |-> status, recovered |-> answer, terminal |-> FALSE, pods |-> {}]
Unreadable == Found("unknown", "unknown")
PodsAnswer(bound) ==
    IF Matched = {} THEN Unreadable
    ELSE [status |-> "completed", recovered |-> IF Unresolved(bound) = {} THEN "yes" ELSE "no",
          terminal |-> Terminal(bound) # {},
          pods |-> IF Unresolved(bound) = {} THEN ForHealth(bound) ELSE {}]
Scoped(plan) == plan.bound /\ plan.type # "other"
\* The answers _probe_plan_recovery may give now: a read may always fail.
ProbeAnswers(plan, results) ==
    IF results # "applied" THEN {Found("skipped", "no")}
    ELSE CASE plan.kind = "readonly" /\ ~Scoped(plan) -> {Found("skipped", "unknown")}
           [] plan.kind = "infra" ->
                {Found("skipped", "unknown"),
                 IF aside THEN Found("verified", "yes") ELSE Found("needs_followup", "no")}
           [] plan.kind = "resource" /\ ~aside -> {Unreadable, Found("completed", "no")}
           [] plan.kind = "resource" /\ aside /\ ~Scoped(plan) -> {Unreadable}
           [] OTHER -> {Unreadable, PodsAnswer(plan.bound)}

Mandatory(plan) ==
    (IF plan.bound THEN {"pod_ready"} ELSE {})
    \cup (IF plan.bound /\ plan.type \notin {"pod", "other"} THEN {"rollout_complete"} ELSE {})

Counted(states) == {p \in Own : rollout.status[p] \in states}
\* int(updatedReplicas or currentReplicas or desired) counts none as all, so
\* the Pods of the new revision are not asked for.
RolloutComplete(type) ==
    CASE type = "job" -> /\ Counted({"failed"}) = {}
                         /\ Counted({"done", "starting", "ready", "scarred", "crash"}) # {}
      [] type = "cronjob" -> ~rollout.suspended
      [] OTHER -> rollout.observed /\ Counted({"ready", "scarred"}) # {}

(* ------------------------------ the cluster ------------------------------ *)
Moves(p) ==
    CASE pods[p].state = "starting" -> {"ready", "crash", "failed", "done"}
      [] pods[p].state = "ready" -> {"crash", "done"}
      [] pods[p].state = "crash" -> {"ready", "scarred"}
      [] OTHER -> {}
SetPod(p, state) == pods' = [pods EXCEPT ![p].state = state]

PodMoves == \E p \in Pods : \E s \in Moves(p) : SetPod(p, s) /\ UNCHANGED <<rollout, aside>>
\* A Pod is deleted: by the rollout, an eviction or an operator.
PodGoes == \E p \in Matched : SetPod(p, "absent") /\ UNCHANGED <<rollout, aside>>
\* The controller creates the Pod of the new revision when a quota allows it.
PodComes ==
    /\ rollout.observed /\ rollout.quota /\ pods["new"].state = "absent"
    /\ SetPod("new", "starting") /\ UNCHANGED <<rollout, aside>>
Complains ==
    \E p \in Matched, e \in Evidence :
        pods' = [pods EXCEPT ![p].dirt = @ \cup {e}] /\ UNCHANGED <<rollout, aside>>
\* The controller writes what it counts at that moment, for the generation it saw.
StatusWritten ==
    /\ rollout' = [rollout EXCEPT !.observed = TRUE, !.status = [p \in Own |-> pods[p].state]]
    /\ UNCHANGED <<pods, aside>>
AsideMoves == check.plan.kind \in {"resource", "infra"} /\ aside' = ~aside /\ UNCHANGED <<pods, rollout>>
ClusterMoves ==
    /\ check.pc # "done" /\ moves > 0 /\ moves' = moves - 1
    /\ PodMoves \/ PodGoes \/ PodComes \/ Complains \/ StatusWritten \/ AsideMoves

(* ------------------------ one call of the verification ------------------------ *)
NoPod == "none"
CheckRecord ==
    [pc : {"called", "single", "grace", "probe", "judge", "sleep", "pod", "owner", "assessed",
           "window", "held", "sample", "sampled", "done"},
     plan : Plans, results : {"applied", "failed", "blocked"}, stability : Stabilities,
     wake : Nat,  \* when its sleep ends, and when the look after it began
     until : Nat,
     last : [status : {"skipped", "completed", "verified", "needs_followup", "unknown", "cancelled"},
             recovered : Answers, terminal : BOOLEAN, pods : SUBSET Pods],
     todo : SUBSET (Pods \cup {NoPod}), pod : Pods \cup {NoPod}, podReady : BOOLEAN, clean : BOOLEAN, unread : SUBSET Pods,
     assessed : SUBSET Pods, failed : SUBSET Criteria, open : SUBSET Criteria]

At(pc) == check.pc = pc
Goes(pc) == check' = [check EXCEPT !.pc = pc]
Returns(status, answer) ==
    check' = [check EXCEPT !.pc = "done", !.last.status = status, !.last.recovered = answer]
Least(a, b) == IF a < b THEN a ELSE b
SleepsUntil(pc, limit) == check' = [check EXCEPT !.pc = pc, !.wake = Least(now + Interval, limit)]
Awake == now >= check.wake

\* Without changes, or after one failed, the target is looked at once.
Begin ==
    /\ At("called")
    /\ Goes(IF check.plan.kind = "readonly" \/ check.results = "failed" THEN "single"
            ELSE IF Grace > 0 THEN "grace" ELSE "probe")
\* The controller is given time to create Pods; the operator may stop the wait.
GracePoll ==
    /\ At("grace") /\ Awake
    /\ CASE now >= Least(Grace, Timeout) -> Goes("probe")
         [] now < Least(Grace, Timeout) /\ cancel -> Returns("cancelled", "no")
         [] OTHER -> check' = [check EXCEPT !.wake = now + 1]
Probe ==
    /\ At("single") \/ At("probe") \/ At("sample")
    /\ \E answer \in ProbeAnswers(check.plan, check.results) :
         check' = [check EXCEPT !.last = answer,
             !.pc = IF At("single") THEN "done" ELSE IF At("probe") THEN "judge" ELSE "sampled"]

\* At most Assessed of the recovered Pods are looked into, or the one Pod the
\* plan's own names lead to when the answer, of an infrastructure probe, has none.
AssessAll ==
    \E some \in SUBSET check.last.pods :
        /\ Cardinality(some) = Least(Assessed, Cardinality(check.last.pods))
        /\ check' = [check EXCEPT !.pc = "pod", !.todo = IF check.last.pods = {} THEN {NoPod} ELSE some,
                       !.assessed = {}, !.unread = {}, !.failed = {}, !.open = {}]
\* Mutant of Judge: the retries do not look at the deadline.
JudgeForever ==
    /\ At("judge")
    /\ IF check.last.recovered = "yes" THEN AssessAll
       ELSE IF check.last.terminal THEN Returns("needs_followup", check.last.recovered)
       ELSE IF cancel THEN Returns("cancelled", "no")
       ELSE SleepsUntil("sleep", Timeout)
Judge ==
    /\ At("judge")
    /\ IF check.last.recovered = "yes" THEN AssessAll
       ELSE IF now >= Timeout THEN Goes("done")
       ELSE IF check.last.terminal THEN Returns("needs_followup", check.last.recovered)
       ELSE IF cancel THEN Returns("cancelled", "no")
       ELSE SleepsUntil("sleep", Timeout)
Retry == At("sleep") /\ Awake /\ Goes("probe")

\* The evidence of one Pod: the Pod with its events and logs, then its owner.
\* An unreadable log leaves no text; unreadable events leave none through the
\* MCP server and are an error elsewhere.  Any error ends the verification.
\* Mutant of Unproven: a status the job engine does not know.
UnprovenAsError == Returns("error", "unknown")
Unproven == Returns("unknown", "unknown")
ReadPod ==
    /\ At("pod")
    /\ \/ Unproven
       \/ \E p \in Matched, unread \in SUBSET Evidence :
            /\ p \in check.todo \/ NoPod \in check.todo
            /\ "event" \in unread => check.plan.channel = "mcp"
            /\ check' = [check EXCEPT !.pc = "owner", !.todo = @ \ {p, NoPod}, !.assessed = @ \cup {p}, !.pod = p,
                           !.unread = IF unread = {} THEN @ ELSE @ \cup {p},
                           !.podReady = pods[p].state \in {"ready", "scarred", "done"},
                           !.clean = pods[p].dirt \subseteq unread]

\* The workload read is the one that owns the Pod, whatever the plan names.
OwnerRolledOut == check.pod \in Own => RolloutComplete(check.plan.type)
\* Mutant of Evaluate: the criteria of the last Pod replace those before it.
EvaluateLastOnly(rolledOut) ==
    LET asked == check.plan.asked \cup Mandatory(check.plan)
        value(c) == CASE c = "pod_ready" -> check.podReady
                      [] c = "rollout_complete" -> rolledOut
                      [] OTHER -> check.clean
    IN check' = [check EXCEPT !.pc = IF check.todo = {} THEN "assessed" ELSE "pod",
           !.failed = {c \in asked \ {"business_probe_ok"} : ~value(c)},
           !.open = @ \cup (asked \cap {"business_probe_ok"})]
Evaluate(rolledOut) ==
    LET asked == check.plan.asked \cup Mandatory(check.plan)
        value(c) == CASE c = "pod_ready" -> check.podReady
                      [] c = "rollout_complete" -> rolledOut
                      [] OTHER -> check.clean
    IN check' = [check EXCEPT !.pc = IF check.todo = {} THEN "assessed" ELSE "pod",
           !.failed = @ \cup {c \in asked \ {"business_probe_ok"} : ~value(c)},
           !.open = @ \cup (asked \cap {"business_probe_ok"})]
\* A workload that cannot be read is an error through kubeconfig; elsewhere it
\* is an empty workload, of which only a CronJob has rolled out.
ReadOwner ==
    /\ At("owner")
    /\ \/ Evaluate(OwnerRolledOut)
       \/ check.plan.channel = "kubeconfig" /\ Unproven
       \/ check.plan.channel # "kubeconfig" /\ Evaluate(check.plan.type = "cronjob")

Conclude ==
    /\ At("assessed") /\ check.until = 0
    /\ IF check.failed # {} THEN Returns("needs_followup", "no")
       ELSE IF check.open # {} THEN Unproven
       ELSE IF check.stability = 0 THEN Goes("done")
       ELSE check' = [check EXCEPT !.pc = "window", !.until = now + check.stability]
\* The stability window: the last sample is taken at its end.
Window ==
    /\ At("window")
    /\ IF now >= check.until THEN Returns("verified", "yes")
       ELSE IF cancel THEN Returns("cancelled", "no")
       ELSE SleepsUntil("held", check.until)
Sample == At("held") /\ Awake /\ Goes("sample")
\* Mutant of Sampled: a sample that is not well is passed over.
SampledLeniently ==
    /\ At("sampled")
    /\ IF check.last.recovered = "yes" THEN AssessAll ELSE Goes("window")
Sampled ==
    /\ At("sampled")
    /\ IF check.last.recovered = "yes" THEN AssessAll ELSE Returns("needs_followup", "no")
SampleAssessed ==
    /\ At("assessed") /\ check.until > 0
    /\ IF check.failed = {} /\ check.open = {} THEN Goes("window") ELSE Returns("needs_followup", "no")

CheckStep ==
    \/ Begin \/ GracePoll \/ Probe \/ Judge \/ Retry \/ ReadPod \/ ReadOwner
    \/ Conclude \/ Window \/ Sample \/ Sampled \/ SampleAssessed

\* Time passes while the verification sleeps, and in its looks, of which none is
\* answered later than Look.
Tick ==
    /\ \/ check.pc \in {"grace", "sleep", "held"} /\ ~Awake
       \/ /\ check.pc \in {"single", "probe", "judge", "pod", "owner", "assessed", "sample", "sampled"}
          /\ now < check.wake + Look
    /\ now' = now + 1
Cancels == ~cancel /\ check.pc # "done" /\ cancel' = TRUE

(* ------------------------------- histories ------------------------------- *)
WellNow == Matched # {} /\ Unresolved(check.plan.bound) = {}
\* What a probe of the plan must find to answer recovered.
Healthy ==
    /\ check.plan.kind \in {"resource", "infra"} => aside
    /\ check.plan.kind # "infra" => WellNow
FactsNow ==
    (IF WellNow THEN {<<"all", "well">>} ELSE {})
    \cup {<<"ready", p>> : p \in {q \in Pods : pods[q].state \in {"ready", "scarred", "done"}}}
    \cup {<<"clean", p>> : p \in {q \in Matched : pods[q].dirt = {}}}
    \cup (IF RolloutComplete(check.plan.type) THEN {<<"rolled", "out">>} ELSE {})
    \cup (IF aside THEN {<<"aside", "as planned">>} ELSE {})
Looking(pc) == pc \notin {"called", "grace", "sleep", "held"}
Probing == check.pc \in {"single", "probe", "sample"}

Init ==
    /\ pods \in {f \in [Pods -> [state : {"absent", "ready", "crash"}, dirt : {{}}]] :
                   f["new"].state = "absent" /\ f["namesake"].state # "crash"}
    /\ rollout \in [quota : BOOLEAN, suspended : BOOLEAN, observed : {FALSE},
                    status : {[p \in Own |-> pods[p].state]}]
    /\ aside \in BOOLEAN /\ moves = MaxMoves /\ now = 0 /\ cancel = FALSE
    /\ check \in [pc : {"called"}, plan : Plans, results : {"applied", "failed", "blocked"},
                  stability : Stabilities, wake : {0}, until : {0}, last : {Unreadable}, todo : {{}},
                  pod : {NoPod}, podReady : {FALSE}, clean : {FALSE}, unread : {{}},
                  assessed : {{}}, failed : {{}}, open : {{}}]
    /\ facts = {} /\ ill = 0 /\ worst = 0

\* Facts count from the last probe on, an illness in steps of the clock in the window.
ClusterActs ==
    /\ ClusterMoves /\ UNCHANGED <<now, check, cancel, worst>>
    /\ facts' = IF Looking(check.pc) THEN facts \cup FactsNow' ELSE {}
    /\ ill' = IF Healthy' THEN 0 ELSE ill
CheckActs ==
    /\ CheckStep /\ UNCHANGED <<clusterVars, now, cancel, ill, worst>>
    /\ facts' = IF Probing THEN FactsNow ELSE IF Looking(check'.pc) THEN facts ELSE {}
TimePasses ==
    /\ Tick /\ ill' = IF check.until = 0 \/ Healthy THEN 0 ELSE ill + 1
    /\ worst' = IF ill' > worst THEN ill' ELSE worst
    /\ UNCHANGED <<clusterVars, check, cancel, facts>>
OperatorStops == Cancels /\ UNCHANGED <<clusterVars, now, check, facts, ill, worst>>
Next == ClusterActs \/ CheckActs \/ TimePasses \/ OperatorStops
\* A read through a kubeconfig has no timeout, and the verification is awaited
\* without a deadline: where the API server is silent it stays.
Hangs ==
    /\ check.plan.channel = "kubeconfig"
    /\ check.pc \in {"single", "probe", "sample", "pod", "owner"}
Fairness == WF_vars(CheckActs /\ ~Hangs) /\ WF_vars(TimePasses)
Spec == Init /\ [][Next]_vars /\ Fairness

(* ------------------------------- properties ------------------------------- *)
\* Every variable keeps its shape.
CheckTypeOK ==
    /\ pods \in [Pods -> [state : States, dirt : SUBSET Evidence]]
    /\ rollout \in [quota : BOOLEAN, suspended : BOOLEAN, observed : BOOLEAN, status : [Own -> States]]
    /\ aside \in BOOLEAN /\ cancel \in BOOLEAN /\ moves \in 0..MaxMoves
    /\ now \in Nat /\ ill \in Nat /\ worst \in Nat
    /\ check \in CheckRecord

Verdict(answer) == At("done") /\ check.last.recovered = answer
\* A plan is called recovered only on a look taken after its changes: since the
\* last probe began all Pods that matter were well at one moment, the changed
\* resource or the probed infrastructure was as planned, and every Pod assessed
\* was Ready, without the signs of the failure where the Skill asks for that and
\* the evidence was readable, and with a Ready Pod counted by its controller for
\* the generation it saw; no criterion without a probe was asked for
\* (_verify_plan_recovery).  Of an infrastructure action only what was probed is
\* promised: its one assessed Pod is the plan's own or any Pod of the namespace,
\* Ready only if the plan names its target or its Skill asks for it.
RecoveredWasProven ==
    Verdict("yes") =>
        LET plan == check.plan
        IN /\ check.results = "applied" \/ plan.kind = "readonly"
           /\ plan.kind \in {"resource", "infra"} => <<"aside", "as planned">> \in facts
           /\ plan.kind # "infra" => <<"all", "well">> \in facts
           /\ plan.kind # "readonly" =>
                /\ check.assessed # {} /\ "business_probe_ok" \notin plan.asked
                /\ \A p \in check.assessed :
                     /\ plan.kind # "infra" \/ "pod_ready" \in plan.asked \cup Mandatory(plan) =>
                          <<"ready", p>> \in facts
                     /\ "clean" \in plan.asked /\ p \notin check.unread => <<"clean", p>> \in facts
                     /\ p \in Own /\ "rollout_complete" \in Mandatory(plan) /\ plan.type # "cronjob" =>
                          <<"rolled", "out">> \in facts

\* In a plan verified over a stability window the target was never unhealthy for
\* longer than one sampling interval and the two looks around it: a relapse that
\* lasts withdraws the verdict, the one at the end of the window included.
RelapseWithdraws == Verdict("yes") /\ check.until > 0 => worst <= Interval + 2 * Look

\* Every verification ends, whatever the cluster does meanwhile, unless it stays
\* at one read through a kubeconfig that is never answered.
VerificationEnds == <>(check.pc = "done") \/ <>[]Hangs

=============================================================================
