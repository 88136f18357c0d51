---------------------------- MODULE MCExecution ----------------------------
(* Instances of ChangeExecution, in three scenes chosen in the first state: *)
(* the registry with overlapping calls and no execution; one execution of a *)
(* plan of any type beside one call of the registry; two executions that    *)
(* compete for an object.                                                   *)
EXTENDS ChangeExecution, TLC

CONSTANTS k1, s1, s2, t1, t2, c1, c2, e1, e2, r1, home

VARIABLES scene, rivalsAt

MCIds == {k1}
MCServers == {s1, s2}
MCTokens == {t1, t2}
MCCalls == {c1, c2}
MCRancher == {r1}

\* What a plan of a type may carry.
ContentsOf(type) ==
    CASE type \in {"patch_workload", "patch_workload_volume", "patch_workload_runtime_security"} ->
           {{"template"}, {"template", "overCap"}, {"volume"}, {"hostPath"}, {"init"},
            {"init", "initScript"}, {"initWild"}, {"alien"}}
      [] type = "scale_out" -> {{"replicas"}, {"overCap"}, {"overTool"}, {"overCap", "overTool"}}
      [] type = "restart" -> {{"template"}, {"alien"}, {"init"}, {"template", "overCap"}}
      [] type = "patch_hpa" -> {{"replicas"}, {"overCap"}}
      [] type \in ToolManifests -> {{"manifest"}, {"unbounded"}}
      [] type = Replace -> {{"template"}, {"alien"}, {"wrongContainer"}}
      [] type \in {"patch", "rollback_workload"} -> {{"template"}, {"init"}}
      [] type \in GenericTypes -> {{"template"}}
      [] OTHER -> {{}}

KindsOf(type) == IF type \in {"restart", "scale_out"} THEN BOOLEAN ELSE {TRUE}
Targets == {[cluster |-> k1, source |-> "kubeconfig"], [cluster |-> r1, source |-> "rancher"],
            [cluster |-> home, source |-> "local"]}

PlansFor(types) ==
    UNION {{[type |-> t, deployment |-> d, content |-> c, cluster |-> g.cluster, source |-> g.source,
             confirmed |-> ok] : d \in KindsOf(t), c \in ContentsOf(t), g \in Targets, ok \in BOOLEAN}
           : t \in types}

Rivals == {p \in PlansFor({Replace, "delete_resource", "apply_manifest"}) :
             p.confirmed /\ p.content \subseteq {"template"}}
MCPlansOf == e1 :> PlansFor(Types) @@ e2 :> Rivals

MCInit ==
    /\ scene \in {"registry", "changes", "rivals"} /\ Init
    /\ rivalsAt \in IF scene = "rivals" THEN {k1, r1, home} ELSE {home}
    /\ scene = "registry" => live[home] = "absent"
    /\ scene # "registry" => \A s \in Servers : accepts[s] = {t1}
    /\ scene # "registry" => rows[k1] = NoRow \/ rows[k1].cred = [server |-> s1, token |-> t1]

RegistryScene == scene # "rivals" /\ RegistryNext /\ UNCHANGED execVars
                 /\ (scene = "changes" =>
                       UNCHANGED call[c2] /\ ex[e1].channel = "kubeconfig" /\ ex[e1].pc # "done")
ExecScene ==
    \/ scene = "changes" /\ (ExecStep(e1) \/ StageLeaves(e1))
    \/ /\ scene = "rivals"
       /\ \E e \in Execs : /\ ExecStep(e) \/ StageLeaves(e)
                           /\ ex'[e].plan \in {p \in Rivals : p.cluster = rivalsAt}
MCNext == (RegistryScene \/ ExecScene \/ Vanishes \/ Dies) /\ UNCHANGED <<scene, rivalsAt>>
MCSpec ==
    MCInit /\ [][MCNext]_<<vars, scene, rivalsAt>>
    /\ \A c \in Calls : WF_<<vars, scene, rivalsAt>>(~dead /\ CallStep(c) /\ UNCHANGED <<execVars, scene, rivalsAt>>)
=============================================================================
