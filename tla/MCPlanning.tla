---------------------------- MODULE MCPlanning ----------------------------
(* Instances of RecoveryPlanning for TLC. *)
EXTENDS RecoveryPlanning

MCPolicies == {{"restart"}, {"patch_workload", "unknown"}}
MCCatalog == {"exec_pod", "patch_workload_runtime_security", "patch_workload", "restart", "create_configmap",
              "create_pvc", "recreate_pod"}
MCActions == MCCatalog \cup {"unknown"}
MCShipped == [s \in {"permission skill", "storage skill", "general skill"} |->
                CASE s = "permission skill" -> {"exec_pod", "patch_workload_runtime_security"}
                  [] s = "storage skill" -> {"create_pvc"}
                  [] s = "general skill" -> {"patch_workload", "restart", "recreate_pod"}]

\* An older version left one Skill that an operator had published there.
MCLegacy == [s \in SkillIds |-> IF s = "kept" THEN [enabled |-> TRUE, builtin |-> FALSE, actions |-> {"create_pvc"}]
                                ELSE Absent]

Sit(cause, confidence, write, mount, supplied) ==
    [cause |-> cause, confidence |-> confidence, write |-> write, mount |-> mount, supplied |-> supplied]
Likely == Sit("permission", "strong", "likely", TRUE, FALSE)
Closed == Sit("permission", "strong", "closed", TRUE, FALSE)
Weak == Sit("permission", "enough", "weak", FALSE, FALSE)
Claim == Sit("mount", "strong", "none", TRUE, TRUE)
Missing == Sit("config", "strong", "none", FALSE, TRUE)
Oom == Sit("oom", "strong", "none", FALSE, TRUE)
Unclear == Sit("unknown", "some", "none", FALSE, TRUE)
MCSituations == {Likely, Closed, Weak, Claim, Missing, Oom, Unclear}

Job(sit, uid, image, changes, handled, more) ==
    [sit |-> sit, uid |-> uid, image |-> image, memory |-> "memory" \in more, changes |-> changes,
     handled |-> handled, edits |-> IF "edit" \in more THEN 1 ELSE 0,
     shifts |-> IF "shift" \in more THEN 1 ELSE 0, cycles |-> IF "cycle" \in more THEN 1 ELSE 0]
MCScenes ==
    {Job(Likely, "user", "user", {}, FALSE, {}), Job(Likely, "none", "root", {}, FALSE, {}),
     Job(Closed, "user", "user", {"nonroot"}, TRUE, {}), Job(Likely, "root", "root", {}, TRUE, {"memory", "cycle"}),
     Job(Weak, "none", "user", {}, FALSE, {}), Job(Missing, "user", "user", {"restart"}, FALSE, {"shift"}),
     Job(Oom, "user", "user", {"patch", "restart"}, FALSE, {"cycle"}),
     Job(Unclear, "user", "user", {"restart"}, FALSE, {"cycle"}),
     Job(Claim, "user", "user", {"restart"}, FALSE, {}), Job(Missing, "user", "user", {"config"}, FALSE, {"edit"})}
===========================================================================
