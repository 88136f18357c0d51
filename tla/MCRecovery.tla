----------------------------- MODULE MCRecovery -----------------------------
EXTENDS RecoveryCheck

CONSTANT Namesakes  \* the states a Pod with the workload's prefix may begin in

Plan(kind, bound, type, channel, asked) ==
    [kind |-> kind, bound |-> bound, type |-> type, channel |-> channel, asked |-> asked]
Rollouts == {Plan("workload", TRUE, "deployment", "kubeconfig", {"clean"})}
\* What an infrastructure provider proposes names a database or nothing.
Provider == Plan("infra", FALSE, "deployment", "mcp", {"clean"})
Windowed == Rollouts \cup {Provider}
Others ==
    {Plan("workload", TRUE, "deployment", "rancher", {"business_probe_ok"}),
     Plan("workload", TRUE, "job", "kubeconfig", {}), Plan("workload", TRUE, "cronjob", "mcp", {}),
     Plan("workload", TRUE, "pod", "mcp", {"clean"}),
     Plan("readonly", TRUE, "deployment", "mcp", {}), Plan("readonly", FALSE, "pod", "mcp", {}),
     Plan("resource", TRUE, "deployment", "mcp", {}), Plan("resource", FALSE, "pod", "mcp", {}),
     Plan("infra", TRUE, "other", "kubeconfig", {}), Plan("readonly", TRUE, "other", "mcp", {})}
MCPlans == Windowed \cup Others
MCInit ==
    /\ Init
    /\ pods["namesake"].state \in Namesakes
    /\ check.plan \in Others => check.stability = 0
    /\ check.plan \notin Rollouts \/ check.stability > 0 => pods["namesake"].state = "absent"
    /\ check.plan.kind = "infra" => ~rollout.quota
    /\ check.results # "applied" => check.plan \in Rollouts /\ check.stability = 0
    /\ rollout.suspended => check.plan.type = "cronjob"
    /\ aside => check.plan.kind \in {"resource", "infra"}
    /\ moves = IF check.plan \in Windowed /\ check.stability > 0 THEN MaxMoves ELSE 2
MCSpec == MCInit /\ [][Next]_vars /\ Fairness
=============================================================================
