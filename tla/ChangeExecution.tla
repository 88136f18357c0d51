-------------------------- MODULE ChangeExecution --------------------------
(***************************************************************************)
(* _execute_change of application.py and what it calls: the executors of   *)
(* the cluster registry, Rancher's Kubernetes proxy, the MCP server of the *)
(* cluster the program runs in, and the webhook for other infrastructure.  *)
(*                                                                         *)
(* A change is its type and the kinds of content it carries; a place is    *)
(* where an API call arrives.  Each place has one object the changes of    *)
(* workloads and resources are about.  An API call may be applied although *)
(* its answer is lost.                                                     *)
(***************************************************************************)
EXTENDS ClusterRegistry

CONSTANTS
    Execs,          \* calls of _execute_change
    PlansOf,        \* the plans each of them may be given
    RancherIds,     \* clusters known through Rancher
    Local,          \* the cluster of the MCP server
    FallbackAllowed \* ENABLE_LOCAL_MCP_FALLBACK

VARIABLES
    ex,         \* the calls
    live,       \* the object of each place
    helper,     \* calls whose node-exec Pod exists
    landed,     \* history: what was applied, and where
    unreaped    \* history: calls whose helper Pod was created or deleted without an answer

execVars == <<ex, live, helper, landed, unreaped>>
vars == <<registryVars, execVars>>

WorkloadTypes == {"restart", "patch_workload", "patch_workload_volume",
                  "patch_workload_runtime_security", "patch", "scale_out", "rollback_workload"}
GenericTypes == {"apply_manifest", "patch_resource", "delete_resource"}
ExecTypes == {"run_shell", "exec_pod", "exec_node"}
InfraTypes == {"infra_run_approved_action", "vm_restart_service"}
PodTypes == {"recreate_pod", "evict_pod"}
PlainTypes == PodTypes \cup
    {"create_workload", "patch_service", "patch_service_account", "create_configmap", "patch_pdb",
     "create_pvc", "create_pv", "patch_hpa", "expand_pvc", "cordon_node", "uncordon_node"}
Replace == "replace_immutable_workload"
Types == WorkloadTypes \cup GenericTypes \cup ExecTypes \cup InfraTypes \cup PlainTypes \cup {Replace}

\* ACTION_CATALOG; "patch" is looked up as patch_workload.
MediumRisk == {"patch_workload", "patch", "restart", "scale_out", "recreate_pod", "patch_hpa",
               "patch_service_account", "vm_restart_service"}

\* Kinds of content: replica counts, also over the configured MAX_PATCH_REPLICAS
\* and over the 20 the MCP tool for Deployments is written with, a Pod template,
\* claims as volumes, host paths, init containers with bounded, scripted and
\* destructive commands, fields no list permits, a manifest that meets the rules
\* for its kind or does not, a container the object does not have.
Contents == {"replicas", "overCap", "overTool", "template", "volume", "hostPath", "init", "initScript",
             "initWild", "alien", "manifest", "unbounded", "wrongContainer"}

\* "deployment" says whether workload_type is Deployment, the default.
Plan == [type : Types, deployment : BOOLEAN, content : SUBSET Contents,
         cluster : Ids \cup RancherIds \cup {Local},
         source : {"rancher", "kubeconfig", "local"}, confirmed : BOOLEAN]
ASSUME PlanAssumption == \A e \in Execs : PlansOf[e] \subseteq Plan /\ PlansOf[e] # {}

Places == Servers \cup RancherIds \cup {Local, "webhook", "runtime"}
Objects == {"absent", "owned", "plain", "going"}
NoCred == [server |-> "none", token |-> "none"]

ExecPCs == {"new", "queued", "borrow", "call", "post", "read", "delete", "wait", "create",
            "spawn", "run", "reap", "stopped", "done"}
ExecRecord == [pc : ExecPCs, plan : UNION {PlansOf[e] : e \in Execs},
         channel : {"none", "kubeconfig", "rancher", "mcp", "shell", "webhook"},
         cred : Credential \cup {NoCred}, left : BOOLEAN, good : BOOLEAN,
         result : {"none", "completed", "failed", "blocked"}]

ExecInit ==
    /\ ex = [e \in Execs |-> [pc |-> "new", plan |-> CHOOSE p \in PlansOf[e] : TRUE, channel |-> "none",
                              cred |-> NoCred, left |-> FALSE, good |-> FALSE, result |-> "none"]]
    /\ \E object \in {"absent", "owned", "plain"} : live = [p \in Places |-> object]
    /\ helper = {} /\ landed = {} /\ unreaped = {}

-----------------------------------------------------------------------------
(* What is admitted *)

\* _validate_init_container_patch: bounded commands only.
AppInit == {"init"}

\* _validate_workload_patch
AppAdmits(content, volumes, init) ==
    content \subseteq {"replicas", "overTool", "template"}
        \cup (IF volumes THEN {"volume"} ELSE {}) \cup (IF init THEN AppInit ELSE {})

\* The MCP server's own validator: fewer forbidden commands, and one flag for
\* volumes and init containers.
McpAdmits(content, high) ==
    content \subseteq {"replicas", "overTool", "template"}
        \cup (IF high THEN {"volume", "init", "initScript"} ELSE {})

\* _validate_storage_manifest and its twins in the MCP server; ConfigMaps and
\* ServiceAccounts are checked on both sides too, the others by the tools only.
ManifestAdmits(content) == content = {"manifest"}
StorageTypes == {"create_pvc", "create_pv"}
AppManifests == StorageTypes \cup {"create_configmap", "patch_service_account"}
ToolManifests == AppManifests \cup {"create_workload", "patch_service", "patch_pdb", "expand_pvc"}

\* restart_deployment and scale_deployment of the MCP server make the patch
\* themselves: the program validates none.
ByOwnTool(p, channel) == channel = "mcp" /\ p.deployment /\ p.type \in {"restart", "scale_out"}

\* A restart makes its own patch, but the one of another kind of workload
\* through the MCP server sends the patch of the change; scaling sends a count
\* and nothing else; the MCP tool clamps an autoscaler's bounds.
Sent(p, channel) ==
    CASE p.type = "restart" /\ (channel # "mcp" \/ p.deployment) -> {"template"}
      [] p.type = "scale_out" -> {"replicas"} \cup (p.content \cap {"overCap", "overTool"})
      [] p.type = "patch_hpa" /\ channel = "mcp" -> {"replicas"}
      [] OTHER -> p.content

\* Mutant of AppChecks: a confirmed change skips the policy.
AppChecksUnlessConfirmed(p, channel) ==
    /\ (p.type \in WorkloadTypes /\ ~ByOwnTool(p, channel) /\ ~p.confirmed) =>
         AppAdmits(Sent(p, channel), p.type = "patch_workload_volume", FALSE)
    /\ p.type \in AppManifests => ManifestAdmits(p.content)

\* The checks of the coroutine before the call...
AppChecks(p, channel) ==
    /\ (p.type \in WorkloadTypes /\ ~ByOwnTool(p, channel)) =>
         AppAdmits(Sent(p, channel), p.type = "patch_workload_volume", p.confirmed)
    /\ p.type \in AppManifests => ManifestAdmits(p.content)

\* high_risk_volume_patch, which the tool takes for init containers as well.
HighFlag(p) == p.type \in {"patch_workload_volume", "patch_workload_runtime_security"}

\* ... and those of the MCP tool that is called: scale_deployment has a limit of
\* its own, patch_workload the validator and the configured limit.
ToolChecks(p) ==
    /\ p.type \in WorkloadTypes =>
         IF ByOwnTool(p, "mcp") THEN "overTool" \notin Sent(p, "mcp") ELSE McpAdmits(Sent(p, "mcp"), HighFlag(p))
    /\ p.type \in ToolManifests => ManifestAdmits(p.content)
    /\ p.type \in PodTypes => live[Local] = "owned"
    /\ p.type = Replace => McpAdmits(p.content \ {"wrongContainer"}, TRUE) /\ "volume" \notin p.content

-----------------------------------------------------------------------------
(* Dispatch *)

Managed(p) == p.cluster \in Ids /\ Known(p.cluster)
UseRancher(p) == p.source = "rancher" /\ p.cluster # Local
InManagedBranch(p) ==
    Managed(p) /\ p.type \in WorkloadTypes \cup GenericTypes \cup {"exec_pod", "exec_node", Replace}

\* Mutant of InRancherBranch: no branch for the storage types.
RancherWithoutStorage(p) ==
    UseRancher(p) /\ p.type \notin InfraTypes \cup {"run_shell", "create_pvc", "expand_pvc"}
InRancherBranch(p) == UseRancher(p) /\ p.type \notin InfraTypes \cup {"run_shell"}
InMcpBranch(p) == p.type \in WorkloadTypes \cup PlainTypes \cup {Replace}

\* The branches in their order; what reaches none of them is an error.
Channel(p) ==
    IF p.type = "run_shell" THEN "shell"
    ELSE IF p.type \in InfraTypes THEN "webhook"
    ELSE IF InManagedBranch(p) THEN "kubeconfig"
    ELSE IF InRancherBranch(p) THEN "rancher"
    ELSE IF InMcpBranch(p) THEN "mcp" ELSE "none"

Threaded(x) == x.channel \in {"kubeconfig", "shell"} \/ x.plan.type \in ExecTypes
FirstCall(p) ==
    IF p.type = Replace THEN "read" ELSE IF p.type = "exec_node" THEN "spawn" ELSE "call"
Begin(p, channel) ==
    CASE channel \in {"kubeconfig", "shell"} -> "queued"
      [] channel = "rancher" -> IF p.type \in ExecTypes THEN "borrow" ELSE FirstCall(p)
      [] channel \in {"mcp", "webhook"} -> "call"

PlaceOf(x) ==
    CASE x.channel = "kubeconfig" -> x.cred.server
      [] x.channel = "rancher" -> x.plan.cluster
      [] x.channel = "mcp" -> Local
      [] x.channel = "shell" -> "runtime"
      [] x.channel = "webhook" -> "webhook"

\* Rancher's proxy knows its own clusters only.
Reachable(x) ==
    /\ x.channel = "kubeconfig" => Accepted(x.cred)
    /\ x.channel = "rancher" => x.plan.cluster \in RancherIds

At(e, pc) == ~dead /\ ex[e].pc = pc

\* A coroutine that was cancelled takes no further step; a thread does.
Goes(e, pc) ==
    ex' = [ex EXCEPT ![e].pc = IF ex[e].left /\ ~Threaded(ex[e]) THEN "stopped" ELSE pc]
Returns(e, r) ==
    ex' = [ex EXCEPT ![e].pc = "done", ![e].result = IF ex[e].left THEN "none" ELSE r]
Applied(e, part) ==
    landed' = landed \cup {[exec |-> e, part |-> part, place |-> PlaceOf(ex[e]),
                            content |-> Sent(ex[e].plan, ex[e].channel)]}
Becomes(e, object) == live' = [live EXCEPT ![PlaceOf(ex[e])] = object]
Quiet == UNCHANGED <<registryVars, helper, unreaped>>

\* From the call to its first await: the confirmation, the checks, the channel.
\* A change may also lack a name or a command.
Dispatch(e) ==
    /\ At(e, "new")
    /\ \E p \in PlansOf[e] :
         LET ch == Channel(p)
             Ends(r) == ex' = [ex EXCEPT ![e].plan = p, ![e].pc = "done", ![e].result = r] IN
         \/ Ends("failed")
         \/ p.type \notin MediumRisk /\ ~p.confirmed /\ Ends("blocked")
         \/ /\ p.type \in MediumRisk \/ p.confirmed
            /\ IF ch = "none" \/ ~AppChecks(p, ch) THEN Ends("failed")
               ELSE ex' = [ex EXCEPT ![e].plan = p, ![e].channel = ch, ![e].pc = Begin(p, ch)]
    /\ UNCHANGED <<live, landed>> /\ Quiet

\* Rancher's generateKubeconfig for commands in Pods and on nodes.
Borrow(e) ==
    /\ At(e, "borrow")
    /\ \/ ex' = [ex EXCEPT ![e].pc = IF ex[e].left THEN "stopped" ELSE "queued"]
       \/ Returns(e, "failed")
    /\ UNCHANGED <<live, landed>> /\ Quiet

\* The thread reads the credentials of the cluster as they are by now.
ThreadBegins(e) ==
    LET x == ex[e] IN
    /\ At(e, "queued")
    /\ \/ /\ x.channel = "kubeconfig" /\ Known(x.plan.cluster)
          /\ ex' = [ex EXCEPT ![e].cred = RowOf(x.plan.cluster).cred, ![e].pc = FirstCall(x.plan)]
       \/ /\ x.channel = "kubeconfig" /\ ~Known(x.plan.cluster)
          /\ Returns(e, "failed")
       \/ /\ x.channel # "kubeconfig"
          /\ Goes(e, FirstCall(x.plan))
    /\ UNCHANGED <<live, landed>> /\ Quiet

-----------------------------------------------------------------------------
(* Calls of an API *)

\* The tools the MCP server offers over HTTP.
OfferedByHttp(p) == p.type # Replace

OnObject(type) == type \in WorkloadTypes \cup PodTypes \cup {"patch_resource", "delete_resource", "apply_manifest"}

\* What an applied call leaves of the object: a deleted one is made again by
\* its controller, a created one has none.
After(type, object) ==
    IF type \in PodTypes \cup {"delete_resource"} THEN (IF object = "owned" THEN "owned" ELSE "absent")
    ELSE IF type = "create_workload" THEN "plain" ELSE object

\* Mutant of CallApplied: an error reply counts as an outcome.
CallAnyReply(e) ==
    LET x == ex[e]  object == live[PlaceOf(x)] IN
    /\ At(e, "call") /\ Reachable(x) /\ (x.channel = "mcp" => ToolChecks(x.plan) /\ OfferedByHttp(x.plan))
    /\ \/ Applied(e, "change") /\ Becomes(e, After(x.plan.type, object))
       \/ UNCHANGED <<landed, live>>
    /\ Returns(e, "completed")
    /\ Quiet

\* The call is applied; its answer is read, or it is lost, or a command ends
\* with a non-zero exit code.
CallApplied(e) ==
    LET x == ex[e]  object == live[PlaceOf(x)] IN
    /\ At(e, "call") /\ Reachable(x)
    /\ x.channel = "mcp" => ToolChecks(x.plan) /\ OfferedByHttp(x.plan)
    /\ OnObject(x.plan.type) => object # "absent"
    /\ x.plan.type = "create_workload" => object = "absent"
    /\ Applied(e, "change") /\ Becomes(e, After(x.plan.type, object))
    /\ Returns(e, "completed") \/ Returns(e, "failed")
    /\ Quiet

\* The webhook's own answer "failed" is an answer like any other.
WebhookRefuses(e) ==
    /\ At(e, "call") /\ ex[e].channel = "webhook"
    /\ Returns(e, "completed")
    /\ UNCHANGED <<live, landed>> /\ Quiet

\* Not applied: refused, not found, unreachable, an unknown MCP tool, or a
\* tool that raised.
CallFails(e) ==
    /\ At(e, "call")
    /\ Returns(e, "failed")
    /\ UNCHANGED <<live, landed>> /\ Quiet

\* apply_manifest patches first and creates when the patch answers 404.
ApplyNotFound(e) ==
    LET x == ex[e] IN
    /\ At(e, "call") /\ Reachable(x) /\ x.plan.type = "apply_manifest"
    /\ live[PlaceOf(x)] = "absent"
    /\ Goes(e, "post")
    /\ UNCHANGED <<live, landed>> /\ Quiet

\* Mutant of Create: the answer to the creation is not looked at.
CreateUnread(e) ==
    /\ At(e, "post") \/ At(e, "create")
    /\ \/ /\ live[PlaceOf(ex[e])] = "absent" /\ Reachable(ex[e])
          /\ Applied(e, "change") /\ Becomes(e, "plain")
       \/ UNCHANGED <<live, landed>>
    /\ Returns(e, "completed")
    /\ Quiet

\* Creation, for apply_manifest and at the end of a replacement: the name may
\* be taken by now.  The saved object lives in this call only.
Create(e) ==
    /\ At(e, "post") \/ At(e, "create")
    /\ \/ /\ live[PlaceOf(ex[e])] = "absent" /\ Reachable(ex[e])
          /\ Applied(e, "change") /\ Becomes(e, "plain")
          /\ Returns(e, "completed") \/ Returns(e, "failed")
       \/ Returns(e, "failed") /\ UNCHANGED <<live, landed>>
    /\ Quiet

-----------------------------------------------------------------------------
(* Replacing a Pod or a Job: read, delete, wait, create *)

\* The MCP server's HTTP interface does not offer the tool.  Where the server
\* is not reached, the tool may run in this process, checks included.
FallbackReplace(e) ==
    /\ At(e, "call") /\ ex[e].channel = "mcp" /\ ~OfferedByHttp(ex[e].plan)
    /\ FallbackAllowed /\ ToolChecks(ex[e].plan)
    /\ Goes(e, "read")
    /\ UNCHANGED <<live, landed>> /\ Quiet

\* Objects of a controller and patches of containers that do not exist are
\* refused before anything is deleted.
ReadLive(e) ==
    LET x == ex[e] IN
    /\ At(e, "read")
    /\ \/ /\ Reachable(x) /\ live[PlaceOf(x)] \in {"plain", "going"}
          /\ "wrongContainer" \notin x.plan.content
          /\ Goes(e, "delete")
       \/ Returns(e, "failed")
    /\ UNCHANGED <<live, landed>> /\ Quiet

\* Foreground deletion: accepted now, done later.
DeleteLive(e) ==
    /\ At(e, "delete")
    /\ \/ /\ Reachable(ex[e]) /\ live[PlaceOf(ex[e])] # "absent"
          /\ Applied(e, "delete") /\ Becomes(e, "going")
          /\ Goes(e, "wait") \/ Returns(e, "failed")
       \/ Returns(e, "failed") /\ UNCHANGED <<live, landed>>
    /\ Quiet

\* Polls for 30 s at most; any error but 404 ends it.
WaitForDeletion(e) ==
    /\ At(e, "wait")
    /\ \/ Reachable(ex[e]) /\ live[PlaceOf(ex[e])] = "absent" /\ Goes(e, "create")
       \/ Returns(e, "failed")
    /\ UNCHANGED <<live, landed>> /\ Quiet

-----------------------------------------------------------------------------
(* Commands on a node: a privileged helper Pod *)

Spawn(e) ==
    /\ At(e, "spawn")
    /\ \/ /\ Reachable(ex[e])
          /\ helper' = helper \cup {e}
          /\ \/ Goes(e, "run") /\ UNCHANGED unreaped
             \/ Returns(e, "failed") /\ unreaped' = unreaped \cup {e}
       \/ Returns(e, "failed") /\ UNCHANGED <<helper, unreaped>>
    /\ UNCHANGED <<registryVars, live, landed>>

\* The command runs, ends or not before the deadline, and its output is read or not.
RunOnNode(e) ==
    /\ At(e, "run")
    /\ \/ /\ Applied(e, "change")
          /\ \E good \in BOOLEAN : ex' = [ex EXCEPT ![e].good = good, ![e].pc = "reap"]
       \/ Goes(e, "reap") /\ UNCHANGED landed
    /\ UNCHANGED live /\ Quiet

\* Mutant of Reap: the helper of a failed command is kept.
ReapGoodOnly(e) ==
    /\ At(e, "reap")
    /\ Returns(e, IF ex[e].good THEN "completed" ELSE "failed")
    /\ helper' = IF ex[e].good THEN helper \ {e} ELSE helper
    /\ UNCHANGED <<registryVars, live, landed, unreaped>>

\* The finally block; an error of the deletion is swallowed.
Reap(e) ==
    /\ At(e, "reap")
    /\ Returns(e, IF ex[e].good THEN "completed" ELSE "failed")
    /\ \/ Reachable(ex[e]) /\ helper' = helper \ {e} /\ UNCHANGED unreaped
       \/ unreaped' = unreaped \cup {e} /\ UNCHANGED helper
    /\ UNCHANGED <<registryVars, live, landed>>

-----------------------------------------------------------------------------
(* Environment *)

\* The stage that awaits the call times out or is cancelled: the coroutine
\* ends, a call that is still queued is dropped, a thread goes on.
StageLeaves(e) ==
    /\ ~dead /\ ~ex[e].left /\ ex[e].pc \notin {"new", "stopped", "done"}
    /\ ex[e].channel = "mcp" => ex[e].pc = "call"
    /\ ex' = [ex EXCEPT ![e].left = TRUE, ![e].pc = IF @ = "queued" THEN "stopped" ELSE @]
    /\ UNCHANGED <<live, landed>> /\ Quiet

Vanishes ==
    /\ \E p \in Places : live[p] = "going" /\ live' = [live EXCEPT ![p] = "absent"]
    /\ UNCHANGED <<registryVars, ex, helper, landed, unreaped>>

Dies ==
    /\ ~dead /\ dead' = TRUE
    /\ UNCHANGED <<rows, call, accepts, proven, execVars>>

ExecStep(e) ==
    \/ Dispatch(e) \/ Borrow(e) \/ ThreadBegins(e)
    \/ CallApplied(e) \/ WebhookRefuses(e) \/ CallFails(e) \/ ApplyNotFound(e) \/ Create(e)
    \/ FallbackReplace(e) \/ ReadLive(e) \/ DeleteLive(e) \/ WaitForDeletion(e)
    \/ Spawn(e) \/ RunOnNode(e) \/ Reap(e)

Init == RegistryInit /\ ExecInit
Next ==
    \/ RegistryNext /\ UNCHANGED execVars
    \/ \E e \in Execs : ExecStep(e) \/ StageLeaves(e)
    \/ Vanishes \/ Dies
Spec == Init /\ [][Next]_vars /\ \A c \in Calls : WF_vars(~dead /\ CallStep(c) /\ UNCHANGED execVars)

-----------------------------------------------------------------------------
(* Properties *)

TypeOK ==
    /\ RegistryTypeOK
    /\ ex \in [Execs -> ExecRecord]
    /\ live \in [Places -> Objects]
    /\ helper \subseteq Execs /\ unreaped \subseteq Execs
    /\ landed \subseteq [exec : Execs, part : {"change", "delete"}, place : Places,
                         content : SUBSET Contents]

\* Whatever calls of the registry overlap with an execution, a kubeconfig that
\* changes a cluster holds a credential its API server accepted in a probe.
UsesProvenCredential ==
    \A r \in landed : ex[r.exec].channel = "kubeconfig" => ex[r.exec].cred \in proven

\* A change planned for a Rancher cluster is applied to that cluster or not at
\* all, whatever its type: no type falls through to the MCP server, which
\* serves the cluster of the program.
RancherStaysRemote ==
    \A r \in landed : LET p == ex[r.exec].plan IN
        (p.source = "rancher" /\ p.cluster \notin Ids \cup {Local}
            /\ p.type \notin InfraTypes \cup {"run_shell"}) => r.place = p.cluster

\* The channels check in different places and order; through each of them a
\* change of high risk is applied only confirmed, a workload gets no host path
\* and no unbounded command, volumes only by the type for volumes, init
\* containers only confirmed, and manifests keep their rules.  The replicas stay
\* within the configured limit, but for a Deployment scaled through the MCP
\* server, where only the 20 written into its tool holds.
AppliedWithinPolicy ==
    \A r \in landed : LET p == ex[r.exec].plan IN
        /\ p.type \in MediumRisk \/ p.confirmed
        /\ p.type \in WorkloadTypes =>
             /\ r.content \cap {"hostPath", "initScript", "initWild", "alien"} = {}
             /\ "overCap" \in r.content =>
                  p.type = "scale_out" /\ p.deployment /\ r.place = Local /\ "overTool" \notin r.content
             /\ "volume" \in r.content => p.type = "patch_workload_volume"
             /\ "init" \in r.content => p.confirmed
        /\ p.type \in AppManifests => r.content = {"manifest"}

\* "completed" is said of what was applied, also when answers are lost, names
\* are taken meanwhile and stages end early.  The webhook is believed.
CompletedWasApplied ==
    \A e \in Execs : (ex[e].result = "completed" /\ ex[e].channel # "webhook") =>
        \E r \in landed : r.exec = e /\ r.part = "change"

\* An object that a replacement deleted exists again, or is still being replaced, or its loss was
\* reported as a failure, or nobody was left to report to.
ReplacementIsAccountedFor ==
    \A r \in landed : LET x == ex[r.exec] IN
        r.part = "delete" =>
            \/ dead \/ x.left \/ x.pc \in {"wait", "create"} \/ x.result = "failed"
            \/ \E s \in landed : s.exec = r.exec /\ s.part = "change"

\* A privileged helper Pod with the node's file system is there only while
\* its command runs, unless the API left a call about it unanswered or refused
\* it, or the process died; a stage that gave up does not leave one behind.
NoStrayHelper ==
    dead \/ \A e \in helper : e \in unreaped \/ ex[e].pc \in {"run", "reap"}

\* "Keep diagnosis and every executable action on the operator-selected target"
\* (_enforce_chat_target_binding): a change planned for another cluster than the
\* one of the MCP server is not applied to that one.
ReachesPlannedCluster ==
    \A r \in landed : LET p == ex[r.exec].plan IN
        (p.cluster # Local /\ p.type \notin InfraTypes \cup {"run_shell"}) => r.place # Local

=============================================================================
