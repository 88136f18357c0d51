-------------------------- MODULE ApprovalContract --------------------------
(***************************************************************************)
(* What the engine owes an operator about approvals, whatever happens to   *)
(* jobs, plans, records and the process: each displayed request is a slip  *)
(* of paper.  A slip is issued for one job, a job has at most one slip     *)
(* that can still lead to a change, a change spends a slip that an         *)
(* operator granted, and a slip that was spent or became void is never     *)
(* good again.                                                             *)
(***************************************************************************)
CONSTANTS Job, ApprovalId, Nobody

VARIABLES
    slip,   \* the state of each approval request
    holder  \* the job it was issued for

vars == <<slip, holder>>

Usable == {"open", "granted"}

TypeOK ==
    /\ slip \in [ApprovalId -> {"unissued", "open", "granted", "void", "spent"}]
    /\ holder \in [ApprovalId -> Job \union {Nobody}]

Init ==
    /\ slip = [a \in ApprovalId |-> "unissued"]
    /\ holder = [a \in ApprovalId |-> Nobody]

Issue(a, j) ==
    /\ slip[a] = "unissued"
    /\ \A b \in ApprovalId : holder[b] = j => slip[b] \notin Usable
    /\ slip' = [slip EXCEPT ![a] = "open"]
    /\ holder' = [holder EXCEPT ![a] = j]

Grant(a) ==
    /\ slip[a] = "open"
    /\ slip' = [slip EXCEPT ![a] = "granted"]
    /\ UNCHANGED holder

Spend(a) ==
    /\ slip[a] = "granted"
    /\ slip' = [slip EXCEPT ![a] = "spent"]
    /\ UNCHANGED holder

\* A rejection, a cancel or a timeout voids one slip, a crash all of them.
Void(S) ==
    /\ \A a \in S : slip[a] \in Usable
    /\ slip' = [a \in ApprovalId |-> IF a \in S THEN "void" ELSE slip[a]]
    /\ UNCHANGED holder

Next ==
    \/ \E a \in ApprovalId : \/ \E j \in Job : Issue(a, j)
                             \/ Grant(a) \/ Spend(a)
    \/ \E S \in SUBSET ApprovalId : Void(S)

Spec == Init /\ [][Next]_vars
=============================================================================
