----------------------------- MODULE MCOpsJobs -----------------------------
(***************************************************************************)
(* Instances of OpsJobs for TLC: small sets of strategies, chosen so that  *)
(* plans of one and of two changes, a hardening plan and a read-only plan  *)
(* compete.                                                                *)
(***************************************************************************)
EXTENDS OpsJobs, TLC

CONSTANTS c1, c2

Plan(changes, stage) == [changes |-> changes, probe |-> 0, stage |-> stage]

\* A plan of two changes, the hardening plan and a read-only plan.
Mixed == {Plan(<<c1, c2>>, "unset"), Plan(<<c1>>, "hardening"), Plan(<<>>, "unset")}

\* A single change.
Single == {Plan(<<c1>>, "unset")}

\* Two competing single changes and a read-only plan.
Rivals == {Plan(<<c1>>, "unset"), Plan(<<c2>>, "hardening"), Plan(<<>>, "other")}

Changes == {c1, c2}

\* The job file keeps c2 as it is and ruins c1: it comes back as c2.
Deep == [c \in Changes |-> c2]

\* Identifiers are drawn at random: any of them could have been any other.
Interchangeable == Permutations(ApprovalId) \union Permutations(Job)
=============================================================================
