------------------------- MODULE RecoveryCheckProofs -------------------------
(***************************************************************************)
(* What a verdict of _verify_plan_recovery guarantees for every plan,      *)
(* every grace period, deadline, interval and stability window, any number *)
(* of assessed Pods and any number of moves of the cluster between the     *)
(* reads.  A verdict rests on reads made one after the other, so the       *)
(* invariant carries what each of them saw as a fact of the history; what  *)
(* the window promises rests on how long the verification may sleep and    *)
(* on how long a look may take.                                            *)
(***************************************************************************)
EXTENDS RecoveryCheck, TLAPS

(* ------------------------- the inductive invariant ------------------------- *)
\* Where the evidence of the Pods is read, and where a probe has answered.
Reading == {"pod", "owner", "assessed", "window"}
Looked == Reading \cup {"judge", "sampled"}

\* A plan without changes is probed once, and so is one whose changes failed.
KindInv ==
    /\ check.plan.kind = "readonly" => check.pc \in {"called", "single", "done"}
    /\ check.pc = "single" => check.plan.kind = "readonly" \/ check.results = "failed"

\* What holds now is among what held since the last probe began.
FreshFacts == check.pc \in Looked => FactsNow \subseteq facts

\* An answer that says recovered saw it: the Pods it names were Ready and, all
\* together, well, and the changed resource or the probed infrastructure, whose
\* answer names no Pod, was as planned.
AnswerSeen(last) ==
    /\ check.results = "applied"
    /\ check.plan.kind \in {"resource", "infra"} => <<"aside", "as planned">> \in facts
    /\ check.plan.kind # "infra" =>
         /\ last.pods # {}
         /\ <<"all", "well">> \in facts /\ \A p \in last.pods : <<"ready", p>> \in facts
AnswerInv ==
    check.pc \in Looked /\ check.last.recovered = "yes" => AnswerSeen(check.last)

\* Pods of the answer are read where it names them, and each one read is assessed.
PodsInv ==
    check.pc \in Reading =>
        /\ check.last.recovered = "yes"
        /\ check.plan.kind # "infra" =>
             check.assessed \subseteq check.last.pods /\ check.todo \subseteq check.last.pods
        /\ check.pc # "pod" => check.assessed # {}
        /\ check.pc = "owner" => check.pod \in check.assessed

\* The Pods whose criteria have been evaluated.
Judged == IF check.pc = "owner" THEN check.assessed \ {check.pod} ELSE check.assessed
MustBeReady == "pod_ready" \in check.plan.asked \cup Mandatory(check.plan)
Shown(p) ==
    /\ MustBeReady => <<"ready", p>> \in facts
    /\ "clean" \in check.plan.asked /\ p \notin check.unread => <<"clean", p>> \in facts
    /\ p \in Own /\ "rollout_complete" \in Mandatory(check.plan) /\ check.plan.type # "cronjob" =>
         <<"rolled", "out">> \in facts
\* A criterion that failed for no Pod was shown of every Pod, and one that
\* nothing can show stays open from the first Pod on.
CriteriaInv ==
    check.pc \in Reading =>
        /\ check.failed = {} => \A p \in Judged : Shown(p)
        /\ check.pc = "owner" /\ check.podReady => <<"ready", check.pod>> \in facts
        /\ check.pc = "owner" /\ check.clean /\ check.pod \notin check.unread =>
             <<"clean", check.pod>> \in facts
        /\ Judged # {} /\ "business_probe_ok" \in check.plan.asked => check.open # {}
        /\ check.pc = "window" => check.failed = {} /\ check.open = {}

VerdictInv == KindInv /\ FreshFacts /\ AnswerInv /\ PodsInv /\ CriteriaInv /\ RecoveredWasProven

\* Where the verification sleeps, and where it looks at the target.
Asleep == {"grace", "sleep", "held"}
LookPcs == {"single", "probe", "judge", "pod", "owner", "assessed", "sample", "sampled"}
\* A look lasts at most Look from the moment the verification woke, and the
\* target was found healthy in it before the verification sleeps again in the
\* window, for at most one interval: an illness is as old as the look in which
\* it could first go unseen, and no older than the end of the next one.
WellInv ==
    /\ check.until = 0 => ill = 0
    /\ check.pc \in {"called", "single", "grace", "probe", "judge", "sleep"} => check.until = 0
    /\ Healthy => ill = 0
LookInv ==
    /\ check.pc = "called" => now = 0 /\ check.wake = 0
    /\ check.pc \in Asleep => now <= check.wake
    /\ check.pc \in LookPcs \cup {"window"} => check.wake <= now /\ now <= check.wake + Look
IllInv ==
    /\ check.pc \in Reading \/ (check.pc = "sampled" /\ check.last.recovered = "yes") =>
         ill + check.wake <= now
    /\ check.pc \in {"held", "sample", "sampled"} => ill + check.wake <= now + Interval + Look
    /\ worst <= Interval + 2 * Look
ClockInv == WellInv /\ LookInv /\ IllInv

IInv == CheckTypeOK /\ VerdictInv /\ ClockInv

(* ------------------------------- what is typed ------------------------------- *)
Last == [status : {"skipped", "completed", "verified", "needs_followup", "unknown", "cancelled"},
         recovered : Answers, terminal : BOOLEAN, pods : SUBSET Pods]
PlanRecord == [kind : Kinds, bound : BOOLEAN, type : Types, channel : Channels, asked : SUBSET Criteria]
\* The record of one call, its sets named.
Pcs == {"called", "single", "grace", "probe", "judge", "sleep", "pod", "owner", "assessed",
        "window", "held", "sample", "sampled", "done"}

LEMMA CheckShape ==
    CheckRecord =
        [pc : Pcs, plan : Plans, results : {"applied", "failed", "blocked"},
         stability : Stabilities, wake : Nat, until : Nat, last : Last,
         todo : SUBSET (Pods \cup {NoPod}), pod : Pods \cup {NoPod}, podReady : BOOLEAN,
         clean : BOOLEAN, unread : SUBSET Pods, assessed : SUBSET Pods, failed : SUBSET Criteria,
         open : SUBSET Criteria]
BY Zenon DEF CheckRecord, Pcs, Last

\* Every answer a probe gives has the shape of one.
LEMMA AnswersTyped ==
    ASSUME NEW plan, NEW results, NEW answer \in ProbeAnswers(plan, results)
    PROVE  answer \in Last
<1>1. \A status \in {"skipped", "completed", "verified", "needs_followup", "unknown", "cancelled"},
         recovered \in Answers : Found(status, recovered) \in Last
      BY DEF Found, Last
<1>2. \A bound : ForHealth(bound) \subseteq Pods
      BY DEF ForHealth, Matched
<1>3. \A bound : PodsAnswer(bound) \in Last
  <2> SUFFICES ASSUME NEW bound PROVE PodsAnswer(bound) \in Last
      OBVIOUS
  <2> DEFINE t == Terminal(bound) # {}
             r == IF Unresolved(bound) = {} THEN "yes" ELSE "no"
             s == IF Unresolved(bound) = {} THEN ForHealth(bound) ELSE {}
  <2>1. r \in Answers /\ s \subseteq Pods
        BY <1>2 DEF Answers
  <2>2. t \in BOOLEAN
        OBVIOUS
  <2> HIDE DEF t, r, s
  <2>3. [status |-> "completed", recovered |-> r, terminal |-> t, pods |-> s] \in Last
        BY <2>1, <2>2, Zenon DEF Last
  <2>4. Unreadable \in Last
        BY <1>1 DEF Unreadable, Answers
  <2> QED BY <2>3, <2>4 DEF PodsAnswer, t, r, s
<1>4. Unreadable \in Last
      BY <1>1 DEF Unreadable, Answers
<1> QED BY <1>1, <1>3, <1>4 DEF ProbeAnswers, Answers

LEMMA InitTyped == Init => CheckTypeOK
<1> SUFFICES ASSUME Init PROVE CheckTypeOK
    OBVIOUS
<1>1. pods \in [Pods -> [state : States, dirt : SUBSET Evidence]]
  <2>1. pods \in [Pods -> [state : {"absent", "ready", "crash"}, dirt : {{}}]]
        BY DEF Init
  <2>2. \A r \in [state : {"absent", "ready", "crash"}, dirt : {{}}] :
          r \in [state : States, dirt : SUBSET Evidence]
        BY DEF States
  <2> QED BY <2>1, <2>2
<1>2. [p \in Own |-> pods[p].state] \in [Own -> States]
      BY <1>1 DEF Own, Pods
<1>3. rollout \in [quota : BOOLEAN, suspended : BOOLEAN, observed : BOOLEAN, status : [Own -> States]]
  <2>1. rollout \in [quota : BOOLEAN, suspended : BOOLEAN, observed : {FALSE},
                     status : {[p \in Own |-> pods[p].state]}]
        BY DEF Init
  <2> QED BY <1>2, <2>1
<1>4. check \in CheckRecord
  <2>1. check \in [pc : {"called"}, plan : Plans, results : {"applied", "failed", "blocked"},
                  stability : Stabilities, wake : {0}, until : {0}, last : {Unreadable}, todo : {{}},
                  pod : {NoPod}, podReady : {FALSE}, clean : {FALSE}, unread : {{}},
                  assessed : {{}}, failed : {{}}, open : {{}}]
        BY DEF Init
  <2>2. Unreadable \in Last
    <3>1. FALSE \in BOOLEAN
          OBVIOUS
    <3> QED BY <3>1, Zenon DEF Unreadable, Found, Last, Answers
  <2>3. /\ {Unreadable} \subseteq Last /\ {FALSE} \subseteq BOOLEAN /\ {0} \subseteq Nat
        /\ {{}} \subseteq SUBSET Pods /\ {{}} \subseteq SUBSET (Pods \cup {NoPod})
        /\ {{}} \subseteq SUBSET Criteria /\ {NoPod} \subseteq Pods \cup {NoPod}
        BY <2>2
  <2>4. {"called"} \subseteq Pcs
        BY DEF Pcs
  <2>5. check \in [pc : Pcs, plan : Plans, results : {"applied", "failed", "blocked"},
         stability : Stabilities, wake : Nat, until : Nat, last : Last, todo : SUBSET (Pods \cup {NoPod}),
         pod : Pods \cup {NoPod}, podReady : BOOLEAN, clean : BOOLEAN, unread : SUBSET Pods,
         assessed : SUBSET Pods, failed : SUBSET Criteria, open : SUBSET Criteria]
        BY <2>1, <2>3, <2>4
  <2> QED BY <2>5, CheckShape, Zenon
<1>5. /\ aside \in BOOLEAN /\ cancel \in BOOLEAN /\ moves \in 0..MaxMoves
      /\ now \in Nat /\ ill \in Nat /\ worst \in Nat
  <2>1. cancel \in BOOLEAN
    <3>1. cancel = FALSE
          BY DEF Init
    <3> QED BY <3>1, Zenon
  <2> QED BY <2>1, WindowAssumption DEF Init
<1> QED BY <1>1, <1>3, <1>4, <1>5, Zenon DEF CheckTypeOK

\* The cluster keeps its shape and touches nothing of the verification.
LEMMA ClusterTyped ==
    ASSUME CheckTypeOK, ClusterActs
    PROVE  CheckTypeOK'
<1>1. /\ moves > 0 /\ moves' = moves - 1
      /\ PodMoves \/ PodGoes \/ PodComes \/ Complains \/ StatusWritten \/ AsideMoves
      /\ UNCHANGED <<now, check, cancel, worst>>
      BY DEF ClusterActs, ClusterMoves
<1>2. moves' \in 0..MaxMoves
      BY <1>1, WindowAssumption DEF CheckTypeOK
<1>3. ill' \in Nat
      BY DEF ClusterActs, CheckTypeOK
<1>4. \A p \in Pods, s \in States : SetPod(p, s) =>
        pods' \in [Pods -> [state : States, dirt : SUBSET Evidence]]
  <2> SUFFICES ASSUME NEW p \in Pods, NEW s \in States, SetPod(p, s)
               PROVE  pods' \in [Pods -> [state : States, dirt : SUBSET Evidence]]
      OBVIOUS
  <2>1. [pods[p] EXCEPT !.state = s] \in [state : States, dirt : SUBSET Evidence]
        BY DEF CheckTypeOK
  <2> QED BY <2>1 DEF CheckTypeOK, SetPod
<1>5. CASE PodMoves
  <2>0. PICK p \in Pods : \E s \in Moves(p) : SetPod(p, s) /\ UNCHANGED <<rollout, aside>>
        BY <1>5 DEF PodMoves
  <2>1. PICK s \in Moves(p) : SetPod(p, s) /\ UNCHANGED <<rollout, aside>>
        BY <2>0
  <2>2. s \in States
        BY DEF Moves, States
  <2> QED BY <1>1, <1>2, <1>3, <1>4, <2>1, <2>2 DEF CheckTypeOK
<1>6. CASE PodGoes
      BY <1>1, <1>2, <1>3, <1>4, <1>6 DEF PodGoes, Matched, States, CheckTypeOK
<1>7. CASE PodComes
      BY <1>1, <1>2, <1>3, <1>4, <1>7 DEF PodComes, Pods, States, CheckTypeOK
<1>8. CASE Complains
  <2>1. PICK p \in Matched, e \in Evidence :
          pods' = [pods EXCEPT ![p].dirt = @ \cup {e}] /\ UNCHANGED <<rollout, aside>>
        BY <1>8 DEF Complains
  <2>2. p \in Pods
        BY DEF Matched
  <2>3. [pods[p] EXCEPT !.dirt = @ \cup {e}] \in [state : States, dirt : SUBSET Evidence]
        BY <2>2 DEF CheckTypeOK
  <2>4. pods' \in [Pods -> [state : States, dirt : SUBSET Evidence]]
        BY <2>1, <2>2, <2>3 DEF CheckTypeOK
  <2> QED BY <1>1, <1>2, <1>3, <2>1, <2>4 DEF CheckTypeOK
<1>9. CASE StatusWritten
  <2>1. [p \in Own |-> pods[p].state] \in [Own -> States]
        BY DEF CheckTypeOK, Own, Pods
  <2>2. rollout' \in [quota : BOOLEAN, suspended : BOOLEAN, observed : BOOLEAN, status : [Own -> States]]
        BY <1>9, <2>1 DEF StatusWritten, CheckTypeOK
  <2> QED BY <1>1, <1>2, <1>3, <1>9, <2>2 DEF StatusWritten, CheckTypeOK
<1>10. CASE AsideMoves
  <2>1. aside' \in BOOLEAN
        BY <1>10 DEF AsideMoves
  <2> QED BY <1>1, <1>2, <1>3, <1>10, <2>1 DEF AsideMoves, CheckTypeOK
<1> QED BY <1>1, <1>5, <1>6, <1>7, <1>8, <1>9, <1>10

LEMMA TimeTyped ==
    ASSUME CheckTypeOK, TimePasses
    PROVE  CheckTypeOK'
<1>1. /\ now' \in Nat /\ ill' \in Nat /\ worst' \in Nat
      BY DEF TimePasses, Tick, CheckTypeOK
<1> QED BY <1>1 DEF TimePasses, CheckTypeOK, clusterVars

LEMMA StopTyped ==
    ASSUME CheckTypeOK, OperatorStops \/ UNCHANGED vars
    PROVE  CheckTypeOK'
BY DEF OperatorStops, Cancels, CheckTypeOK, clusterVars, vars

\* The plan, its results and its window are what the call was given.
LEMMA FieldsTyped ==
    ASSUME CheckTypeOK
    PROVE  /\ check \in CheckRecord
           /\ check.plan \in PlanRecord
           /\ check.results \in {"applied", "failed", "blocked"}
           /\ check.stability \in Nat /\ check.wake \in Nat /\ check.until \in Nat
           /\ check.last \in Last
           /\ check.last.pods \subseteq Pods
           /\ check.todo \subseteq Pods \cup {NoPod}
           /\ check.pod \in Pods \cup {NoPod}
           /\ check.unread \subseteq Pods /\ check.assessed \subseteq Pods
           /\ check.failed \subseteq Criteria /\ check.open \subseteq Criteria
<1>1. check \in CheckRecord
      BY DEF CheckTypeOK
<1>2. check.plan \in PlanRecord
      BY <1>1, PlanAssumption DEF CheckRecord, PlanRecord
<1>3. check.last \in Last
      BY <1>1 DEF CheckRecord, Last
<1> QED BY <1>1, <1>2, <1>3, WindowAssumption DEF CheckRecord, Last

\* A call that goes on keeps what it was given, and reads no clock but its own.
LEMMA PlainStepTyped ==
    ASSUME CheckTypeOK, NEW go \in Pcs, Goes(go)
    PROVE  check' \in CheckRecord
BY Zenon DEF CheckTypeOK, Goes, CheckRecord, Pcs
LEMMA ReturnTyped ==
    ASSUME CheckTypeOK,
           NEW status \in {"skipped", "completed", "verified", "needs_followup", "unknown", "cancelled"},
           NEW answer \in Answers, Returns(status, answer)
    PROVE  check' \in CheckRecord
<1>1. [check.last EXCEPT !.status = status, !.recovered = answer] \in Last
      BY Zenon, FieldsTyped DEF Last
<1>2. check' = [check EXCEPT !.pc = "done",
                  !.last = [check.last EXCEPT !.status = status, !.recovered = answer]]
      BY DEF Returns
<1> QED BY <1>1, <1>2, FieldsTyped, CheckShape, Zenon DEF Pcs

LEMMA SleepTyped ==
    ASSUME CheckTypeOK, NEW limit \in Nat, NEW go \in Pcs, SleepsUntil(go, limit)
    PROVE  check' \in CheckRecord
<1>1. Least(now + Interval, limit) \in Nat
      BY WindowAssumption DEF CheckTypeOK, Least
<1> QED BY <1>1, FieldsTyped, CheckShape, Zenon DEF SleepsUntil

LEMMA AssessTyped ==
    ASSUME CheckTypeOK, AssessAll
    PROVE  check' \in CheckRecord
<1>1. PICK some \in SUBSET check.last.pods :
        check' = [check EXCEPT !.pc = "pod", !.todo = IF check.last.pods = {} THEN {NoPod} ELSE some,
                    !.assessed = {}, !.unread = {}, !.failed = {}, !.open = {}]
      BY DEF AssessAll
<1>2. /\ (IF check.last.pods = {} THEN {NoPod} ELSE some) \in SUBSET (Pods \cup {NoPod})
      /\ "pod" \in Pcs /\ {} \in SUBSET Pods /\ {} \in SUBSET Criteria
      BY FieldsTyped DEF Pcs
<1> QED BY <1>1, <1>2, FieldsTyped, CheckShape, Zenon

LEMMA ProbeTyped ==
    ASSUME CheckTypeOK, Probe
    PROVE  check' \in CheckRecord
<1>1. PICK answer \in ProbeAnswers(check.plan, check.results) :
        check' = [check EXCEPT !.last = answer,
             !.pc = IF At("single") THEN "done" ELSE IF At("probe") THEN "judge" ELSE "sampled"]
      BY DEF Probe
<1>2. answer \in Last
      BY AnswersTyped
<1>3. (IF At("single") THEN "done" ELSE IF At("probe") THEN "judge" ELSE "sampled") \in Pcs
      BY DEF Pcs
<1> QED BY <1>1, <1>2, <1>3, FieldsTyped, CheckShape, Zenon

LEMMA ReadPodTyped ==
    ASSUME CheckTypeOK, ReadPod
    PROVE  check' \in CheckRecord
<1>1. CASE Unproven
      BY <1>1, ReturnTyped DEF Unproven, Answers
<1>2. ASSUME NEW p \in Matched, NEW unread \in SUBSET Evidence,
             check' = [check EXCEPT !.pc = "owner", !.todo = @ \ {p, NoPod}, !.assessed = @ \cup {p}, !.pod = p,
                           !.unread = IF unread = {} THEN @ ELSE @ \cup {p},
                           !.podReady = pods[p].state \in {"ready", "scarred", "done"},
                           !.clean = pods[p].dirt \subseteq unread]
      PROVE  check' \in CheckRecord
  <2> DEFINE r == pods[p].state \in {"ready", "scarred", "done"}
             c == pods[p].dirt \subseteq unread
  <2>1. r \in BOOLEAN /\ c \in BOOLEAN
        OBVIOUS
  <2>3. check' = [check EXCEPT !.pc = "owner", !.todo = check.todo \ {p, NoPod},
                    !.assessed = check.assessed \cup {p}, !.pod = p,
                    !.unread = IF unread = {} THEN check.unread ELSE check.unread \cup {p},
                    !.podReady = r, !.clean = c]
        BY <1>2, Zenon
  <2> HIDE DEF r, c
  <2>4. /\ check.todo \ {p, NoPod} \in SUBSET (Pods \cup {NoPod})
        /\ check.assessed \cup {p} \in SUBSET Pods /\ p \in Pods \cup {NoPod} /\ "owner" \in Pcs
        /\ (IF unread = {} THEN check.unread ELSE check.unread \cup {p}) \in SUBSET Pods
        BY FieldsTyped DEF Pcs, Matched
  <2> QED BY <2>1, <2>3, <2>4, FieldsTyped, CheckShape, Zenon
<1> QED BY <1>1, <1>2 DEF ReadPod

LEMMA EvaluateTyped ==
    ASSUME CheckTypeOK, NEW rolledOut, Evaluate(rolledOut)
    PROVE  check' \in CheckRecord
<1> DEFINE asked == check.plan.asked \cup Mandatory(check.plan)
           value(c) == CASE c = "pod_ready" -> check.podReady
                         [] c = "rollout_complete" -> rolledOut
                         [] OTHER -> check.clean
           failing == {c \in asked \ {"business_probe_ok"} : ~value(c)}
<1>1. asked \subseteq Criteria
      BY FieldsTyped DEF PlanRecord, Mandatory, Criteria
<1>2. failing \subseteq Criteria
      BY <1>1
<1>3. /\ check.failed \cup failing \in SUBSET Criteria
      /\ check.open \cup (asked \cap {"business_probe_ok"}) \in SUBSET Criteria
      /\ (IF check.todo = {} THEN "assessed" ELSE "pod") \in Pcs
      BY <1>1, <1>2, FieldsTyped DEF Pcs
<1>4. check' = [check EXCEPT !.pc = IF check.todo = {} THEN "assessed" ELSE "pod",
           !.failed = check.failed \cup failing,
           !.open = check.open \cup (asked \cap {"business_probe_ok"})]
      BY Zenon DEF Evaluate
<1> HIDE DEF asked, failing
<1> QED BY <1>3, <1>4, FieldsTyped, CheckShape, Zenon

LEMMA ConcludeTyped ==
    ASSUME CheckTypeOK, Conclude
    PROVE  check' \in CheckRecord
<1>1. CASE Returns("needs_followup", "no") \/ Unproven
      BY <1>1, ReturnTyped DEF Unproven, Answers
<1>2. CASE Goes("done")
      BY <1>2, PlainStepTyped DEF Pcs
<1>3. CASE check' = [check EXCEPT !.pc = "window", !.until = now + check.stability]
  <2>1. now + check.stability \in Nat /\ "window" \in Pcs
        BY FieldsTyped DEF CheckTypeOK, Pcs
  <2> QED BY <1>3, <2>1, FieldsTyped, CheckShape, Zenon
<1> QED BY <1>1, <1>2, <1>3 DEF Conclude

LEMMA CheckTyped ==
    ASSUME CheckTypeOK, CheckActs
    PROVE  CheckTypeOK'
<1>1. /\ CheckStep
      /\ UNCHANGED <<pods, rollout, aside, moves, now, cancel, ill, worst>>
      BY DEF CheckActs, clusterVars
<1>2. SUFFICES check' \in CheckRecord
      BY <1>1 DEF CheckTypeOK
<1>3. ASSUME NEW wake \in Nat, check' = [check EXCEPT !.wake = wake]
      PROVE  check' \in CheckRecord
      BY <1>3, FieldsTyped, CheckShape, Zenon
<1>4. CASE Begin
  <2>1. (IF check.plan.kind = "readonly" \/ check.results = "failed" THEN "single"
         ELSE IF Grace > 0 THEN "grace" ELSE "probe") \in Pcs
        BY DEF Pcs
  <2> QED BY <1>4, <2>1, PlainStepTyped DEF Begin
<1>5. CASE GracePoll
  <2>1. now + 1 \in Nat /\ now \in Nat
        BY DEF CheckTypeOK
  <2>2. Least(Grace, Timeout) \in Nat
        BY WindowAssumption DEF Least
  <2>3. CASE Goes("probe")
        BY <2>3, PlainStepTyped DEF Pcs
  <2>4. CASE Returns("cancelled", "no")
        BY <2>4, ReturnTyped DEF Answers
  <2> QED BY <1>3, <1>5, <2>1, <2>2, <2>3, <2>4 DEF GracePoll
<1>6. CASE Probe
      BY <1>6, ProbeTyped
<1>7. CASE Judge
  <2>1. check.last.recovered \in Answers
        BY FieldsTyped DEF Last
  <2> QED BY <1>7, <2>1, AssessTyped, PlainStepTyped, ReturnTyped, SleepTyped, WindowAssumption
          DEF Judge, Pcs, Answers
<1>8. CASE Retry
      BY <1>8, PlainStepTyped DEF Retry, Pcs
<1>9. CASE ReadPod
      BY <1>9, ReadPodTyped
<1>10. CASE ReadOwner
      BY <1>10, EvaluateTyped, ReturnTyped DEF ReadOwner, Unproven, Answers
<1>11. CASE Conclude
      BY <1>11, ConcludeTyped
<1>12. CASE Window
      BY <1>12, FieldsTyped, ReturnTyped, SleepTyped DEF Window, Pcs, Answers
<1>13. CASE Sample
      BY <1>13, PlainStepTyped DEF Sample, Pcs
<1>14. CASE Sampled
      BY <1>14, AssessTyped, ReturnTyped DEF Sampled, Answers
<1>15. CASE SampleAssessed
      BY <1>15, PlainStepTyped, ReturnTyped DEF SampleAssessed, Pcs, Answers
<1> QED BY <1>1, <1>4, <1>5, <1>6, <1>7, <1>8, <1>9, <1>10, <1>11, <1>12, <1>13, <1>14, <1>15
        DEF CheckStep

(* ------------------------- what a look at the cluster shows ------------------------- *)
\* A step of the verification sees the cluster as it is.
LEMMA SameCluster ==
    ASSUME UNCHANGED <<pods, rollout, aside>>, check'.plan = check.plan
    PROVE  FactsNow' = FactsNow /\ Healthy' = Healthy
<1>1. Matched' = Matched
      BY DEF Matched
<1>2. Unresolved(check.plan.bound)' = Unresolved(check.plan.bound)
      BY <1>1 DEF Unresolved, ForHealth
<1>3. WellNow' <=> WellNow
      BY <1>1, <1>2 DEF WellNow
<1>4. RolloutComplete(check.plan.type)' <=> RolloutComplete(check.plan.type)
      BY DEF RolloutComplete, Counted
<1> QED BY <1>1, <1>3, <1>4 DEF FactsNow, Healthy

\* An answer that says recovered was given by a target that is: every Pod it
\* names is Ready or has ended well, all of those that matter are well, and so
\* is the other object of the plan.
LEMMA AnswerMeans ==
    ASSUME NEW plan, NEW results, NEW answer \in ProbeAnswers(plan, results),
           answer.recovered = "yes"
    PROVE  /\ results = "applied"
           /\ plan.kind \in {"resource", "infra"} => aside
           /\ plan.kind # "infra" =>
                /\ Matched # {} /\ Unresolved(plan.bound) = {} /\ answer.pods # {}
                /\ \A p \in answer.pods : p \in Pods /\ pods[p].state \in {"ready", "done"}
<1>1. \A status, recovered : Found(status, recovered).recovered = recovered
      BY DEF Found
<1>2. ForHealth(plan.bound) \subseteq Pods /\ (Matched # {} => ForHealth(plan.bound) # {})
      BY DEF ForHealth, Matched
<1>3. ASSUME answer = PodsAnswer(plan.bound)
      PROVE  /\ Matched # {} /\ Unresolved(plan.bound) = {} /\ answer.pods # {}
             /\ \A p \in answer.pods : p \in Pods /\ pods[p].state \in {"ready", "done"}
  <2>1. Matched # {} /\ Unresolved(plan.bound) = {} /\ answer.pods = ForHealth(plan.bound)
        BY <1>1, <1>3 DEF PodsAnswer, Unreadable
  <2> QED BY <1>2, <2>1 DEF Unresolved
<1>4. results = "applied"
      BY <1>1 DEF ProbeAnswers
<1>5. CASE plan.kind = "infra"
  <2>1. answer \in {Found("skipped", "unknown"),
                   IF aside THEN Found("verified", "yes") ELSE Found("needs_followup", "no")}
        BY <1>4, <1>5 DEF ProbeAnswers
  <2>2. aside
        BY <1>1, <2>1
  <2> QED BY <1>4, <1>5, <2>2
<1>6. CASE plan.kind # "infra"
  <2>1. answer = PodsAnswer(plan.bound) /\ (plan.kind = "resource" => aside)
        BY <1>1, <1>4, <1>6 DEF ProbeAnswers, Unreadable
  <2> QED BY <1>3, <1>4, <1>6, <2>1
<1> QED BY <1>5, <1>6

(* ------------------------- the cluster, the clock, the operator ------------------------- *)
LEMMA InitInv == Init => VerdictInv /\ ClockInv
<1> SUFFICES ASSUME Init PROVE VerdictInv /\ ClockInv
    OBVIOUS
<1>1. /\ check.pc = "called" /\ check.until = 0 /\ ill = 0 /\ worst = 0
      /\ now = 0 /\ check.wake = 0
      BY DEF Init
<1>2. VerdictInv
      BY <1>1 DEF VerdictInv, KindInv, FreshFacts, AnswerInv, PodsInv, CriteriaInv,
                  RecoveredWasProven, Verdict, At, Looked, Reading
<1>3. ClockInv
      BY <1>1, WindowAssumption DEF ClockInv, WellInv, LookInv, IllInv, Reading, LookPcs, Asleep
<1> QED BY <1>2, <1>3

\* A move of the cluster adds to what was seen and takes nothing away.
LEMMA ClusterKeepsVerdict ==
    ASSUME VerdictInv, ClusterActs
    PROVE  VerdictInv'
<1>1. check' = check /\ check.pc # "done"
      BY DEF ClusterActs, ClusterMoves
<1>2. check.pc \in Looked => facts \subseteq facts' /\ FactsNow' \subseteq facts'
      BY DEF ClusterActs, Looking, Looked, Reading
<1> HIDE DEF FactsNow
<1>3. KindInv' /\ FreshFacts' /\ RecoveredWasProven'
      BY <1>1, <1>2 DEF VerdictInv, KindInv, FreshFacts, RecoveredWasProven, Verdict, At
<1>4. AnswerInv'
      BY <1>1, <1>2 DEF VerdictInv, AnswerInv, AnswerSeen
<1>5. PodsInv'
      BY <1>1 DEF VerdictInv, PodsInv
<1>6. CriteriaInv'
      BY <1>1, <1>2 DEF VerdictInv, CriteriaInv, Judged, Shown, MustBeReady, Looked
<1> QED BY <1>3, <1>4, <1>5, <1>6 DEF VerdictInv

LEMMA ClusterKeepsClock ==
    ASSUME CheckTypeOK, ClockInv, ClusterActs
    PROVE  ClockInv'
<1>1. /\ check' = check /\ now' = now /\ worst' = worst
      /\ ill' = IF Healthy' THEN 0 ELSE ill
      BY DEF ClusterActs
<1>2. Healthy' => ill' = 0
      BY <1>1
<1>3. ill' <= ill /\ (ill = 0 => ill' = 0) /\ ill \in Nat /\ ill' \in Nat
      BY <1>1 DEF CheckTypeOK
<1>4. WellInv' /\ LookInv'
      BY <1>1, <1>2, <1>3 DEF ClockInv, WellInv, LookInv
<1>5. IllInv'
      BY <1>1, <1>3, FieldsTyped, WindowAssumption DEF ClockInv, IllInv, CheckTypeOK
<1> QED BY <1>4, <1>5 DEF ClockInv

\* Time passes in a sleep until it ends, and in a look until it has lasted Look.
LEMMA TimeKeepsClock ==
    ASSUME CheckTypeOK, ClockInv, TimePasses
    PROVE  ClockInv'
<1>0. /\ now \in Nat /\ ill \in Nat /\ worst \in Nat /\ check.wake \in Nat
      /\ Interval \in Nat /\ Look \in Nat
      BY FieldsTyped, WindowAssumption DEF CheckTypeOK
<1>1. /\ check' = check /\ now' = now + 1
      /\ \/ check.pc \in Asleep /\ now < check.wake
         \/ check.pc \in LookPcs /\ now < check.wake + Look
      /\ ill' = IF check.until = 0 \/ Healthy THEN 0 ELSE ill + 1
      /\ worst' = IF ill' > worst THEN ill' ELSE worst
      BY <1>0 DEF TimePasses, Tick, Awake, Asleep, LookPcs
<1>2. Healthy' = Healthy
      BY <1>1, SameCluster DEF TimePasses, clusterVars
<1>3. WellInv'
      BY <1>1, <1>2 DEF ClockInv, WellInv
<1>4. LookInv'
      BY <1>0, <1>1 DEF ClockInv, LookInv, Asleep, LookPcs
<1>5. ill' \in Nat /\ ill' <= ill + 1 /\ (check.until = 0 => ill' = 0)
      BY <1>0, <1>1
<1>6. check.until # 0 =>
        check.pc \in {"held", "sample", "sampled", "pod", "owner", "assessed"}
      BY <1>1 DEF ClockInv, WellInv, Asleep, LookPcs
<1>7. check.pc \in {"pod", "owner", "assessed"} => check.pc \in Reading
      BY DEF Reading
<1>8. ill' <= Interval + 2 * Look
  <2>1. CASE check.until = 0
        BY <1>0, <1>5, <2>1
  <2>2. CASE check.pc = "held"
        BY <1>0, <1>1, <1>5, <2>2 DEF ClockInv, IllInv, LookPcs
  <2>3. CASE check.pc \in {"sample", "sampled"}
        BY <1>0, <1>1, <1>5, <2>3 DEF ClockInv, IllInv, Asleep
  <2>4. CASE check.pc \in {"pod", "owner", "assessed"}
        BY <1>0, <1>1, <1>5, <1>7, <2>4 DEF ClockInv, IllInv, Asleep
  <2> QED BY <1>6, <2>1, <2>2, <2>3, <2>4
<1>9. worst' <= Interval + 2 * Look
      BY <1>1, <1>8 DEF ClockInv, IllInv
<1>10. IllInv'
      BY <1>0, <1>1, <1>5, <1>9 DEF ClockInv, IllInv
<1> QED BY <1>3, <1>4, <1>10 DEF ClockInv

LEMMA QuietKeepsVerdict ==
    ASSUME VerdictInv, UNCHANGED <<pods, rollout, aside, check, facts>>
    PROVE  VerdictInv'
<1>1. FactsNow' = FactsNow
      BY SameCluster
<1>2. KindInv' /\ FreshFacts' /\ RecoveredWasProven'
      BY <1>1 DEF VerdictInv, KindInv, FreshFacts, RecoveredWasProven, Verdict, At
<1>3. AnswerInv' /\ PodsInv'
      BY DEF VerdictInv, AnswerInv, AnswerSeen, PodsInv
<1>4. CriteriaInv'
      BY DEF VerdictInv, CriteriaInv, Judged, Shown, MustBeReady
<1> QED BY <1>2, <1>3, <1>4 DEF VerdictInv

LEMMA QuietKeepsClock ==
    ASSUME ClockInv, UNCHANGED <<pods, rollout, aside, check, now, ill, worst>>
    PROVE  ClockInv'
<1>1. Healthy' = Healthy
      BY SameCluster
<1> QED BY <1>1 DEF ClockInv, WellInv, LookInv, IllInv

(* ------------------------- what each step writes ------------------------- *)
\* What the call was given, and what it knows of the Pods it has read.
Given == <<check.plan, check.results, check.stability>>
Notes == <<check.todo, check.pod, check.clean, check.unread, check.assessed, check.failed, check.open>>

LEMMA GoesWrites ==
    ASSUME CheckTypeOK, NEW go, Goes(go)
    PROVE  /\ check'.pc = go
           /\ UNCHANGED <<Given, Notes, check.last, check.until, check.wake>>
BY FieldsTyped, Zenon DEF Goes, CheckRecord, Given, Notes

LEMMA ReturnsWrites ==
    ASSUME CheckTypeOK, NEW status, NEW answer, Returns(status, answer)
    PROVE  /\ check'.pc = "done" /\ check'.last.recovered = answer
           /\ UNCHANGED <<Given, Notes, check.until, check.wake>>
BY FieldsTyped DEF Returns, CheckRecord, Given, Notes, Last

LEMMA SleepWrites ==
    ASSUME CheckTypeOK, NEW go, NEW limit, SleepsUntil(go, limit)
    PROVE  /\ check'.pc = go /\ check'.wake = Least(now + Interval, limit)
           /\ UNCHANGED <<Given, Notes, check.last, check.until>>
BY FieldsTyped DEF SleepsUntil, CheckRecord, Given, Notes

LEMMA AssessWrites ==
    ASSUME CheckTypeOK, AssessAll
    PROVE  /\ check'.pc = "pod" /\ (check.last.pods # {} => check'.todo \subseteq check.last.pods)
           /\ check'.assessed = {} /\ check'.failed = {}
           /\ UNCHANGED <<Given, check.last, check.until, check.wake>>
<1>1. PICK some \in SUBSET check.last.pods :
        check' = [check EXCEPT !.pc = "pod", !.todo = IF check.last.pods = {} THEN {NoPod} ELSE some,
                    !.assessed = {}, !.unread = {}, !.failed = {}, !.open = {}]
      BY DEF AssessAll
<1> DEFINE td == IF check.last.pods = {} THEN {NoPod} ELSE some
<1>2. check.last.pods # {} => td \subseteq check.last.pods
      OBVIOUS
<1> HIDE DEF td
<1>3. check'.todo = td
      BY <1>1, FieldsTyped DEF CheckRecord, td
<1> QED BY <1>1, <1>2, <1>3, FieldsTyped DEF CheckRecord, Given

LEMMA ReadPodWrites ==
    ASSUME CheckTypeOK, ReadPod, ~Unproven
    PROVE  \E p \in Matched :
             /\ p \in check.todo \/ NoPod \in check.todo
             /\ check'.pc = "owner" /\ check'.pod = p
             /\ check'.todo = check.todo \ {p, NoPod} /\ check'.assessed = check.assessed \cup {p}
             /\ check.unread \subseteq check'.unread
             /\ check'.podReady => pods[p].state \in {"ready", "scarred", "done"}
             /\ check'.clean /\ p \notin check'.unread => pods[p].dirt = {}
             /\ UNCHANGED <<Given, check.failed, check.open, check.last, check.until, check.wake>>
<1>1. PICK p \in Matched : \E unread \in SUBSET Evidence :
        /\ p \in check.todo \/ NoPod \in check.todo
        /\ check' = [check EXCEPT !.pc = "owner", !.todo = @ \ {p, NoPod}, !.assessed = @ \cup {p},
                           !.pod = p, !.unread = IF unread = {} THEN @ ELSE @ \cup {p},
                           !.podReady = pods[p].state \in {"ready", "scarred", "done"},
                           !.clean = pods[p].dirt \subseteq unread]
      BY DEF ReadPod
<1>2. PICK unread \in SUBSET Evidence :
        /\ p \in check.todo \/ NoPod \in check.todo
        /\ check' = [check EXCEPT !.pc = "owner", !.todo = @ \ {p, NoPod}, !.assessed = @ \cup {p},
                           !.pod = p, !.unread = IF unread = {} THEN @ ELSE @ \cup {p},
                           !.podReady = pods[p].state \in {"ready", "scarred", "done"},
                           !.clean = pods[p].dirt \subseteq unread]
      BY <1>1
<1> DEFINE u == IF unread = {} THEN check.unread ELSE check.unread \cup {p}
           r == pods[p].state \in {"ready", "scarred", "done"}
           c == pods[p].dirt \subseteq unread
<1>3. check' = [check EXCEPT !.pc = "owner", !.todo = check.todo \ {p, NoPod},
                  !.assessed = check.assessed \cup {p}, !.pod = p, !.unread = u,
                  !.podReady = r, !.clean = c]
      BY <1>2, Zenon
<1>4. /\ check.unread \subseteq u /\ (p \notin u => unread = {})
      /\ (c /\ p \notin u => pods[p].dirt = {})
      OBVIOUS
<1> HIDE DEF u, r, c
<1>5. /\ check'.pc = "owner" /\ check'.pod = p /\ check'.todo = check.todo \ {p, NoPod}
      /\ check'.assessed = check.assessed \cup {p} /\ check'.unread = u
      /\ UNCHANGED <<Given, check.failed, check.open, check.last, check.until, check.wake>>
      BY <1>3, FieldsTyped DEF CheckRecord, Given
<1>6. check'.clean = c /\ check'.podReady = r
      BY <1>3, FieldsTyped, Zenon DEF CheckRecord
<1> QED BY <1>2, <1>4, <1>5, <1>6 DEF r

LEMMA EvaluateWrites ==
    ASSUME CheckTypeOK, NEW rolledOut \in BOOLEAN, Evaluate(rolledOut)
    PROVE  /\ check'.pc = IF check.todo = {} THEN "assessed" ELSE "pod"
           /\ check'.failed = {} =>
                /\ check.failed = {}
                /\ MustBeReady => check.podReady
                /\ "clean" \in check.plan.asked => check.clean
                /\ "rollout_complete" \in Mandatory(check.plan) => rolledOut
           /\ check.open \subseteq check'.open
           /\ "business_probe_ok" \in check.plan.asked => check'.open # {}
           /\ UNCHANGED <<Given, check.todo, check.pod, check.unread, check.assessed, check.last,
                          check.until, check.wake>>
<1> DEFINE asked == check.plan.asked \cup Mandatory(check.plan)
           value(c) == CASE c = "pod_ready" -> check.podReady
                         [] c = "rollout_complete" -> rolledOut
                         [] OTHER -> check.clean
           f == check.failed \cup {c \in asked \ {"business_probe_ok"} : ~value(c)}
           o == check.open \cup (asked \cap {"business_probe_ok"})
           go == IF check.todo = {} THEN "assessed" ELSE "pod"
<1>1. check' = [check EXCEPT !.pc = go, !.failed = f, !.open = o]
      BY Zenon DEF Evaluate
<1>2. ASSUME f = {}
      PROVE  /\ check.failed = {}
             /\ MustBeReady => check.podReady
             /\ "clean" \in check.plan.asked => check.clean
             /\ "rollout_complete" \in Mandatory(check.plan) => rolledOut
  <2>1. check.failed = {} /\ \A c \in asked \ {"business_probe_ok"} : value(c)
        BY <1>2
  <2>2. "clean" \in check.plan.asked => value("clean")
        BY <2>1
  <2>3. value("clean") => check.clean
        OBVIOUS
  <2>4. "rollout_complete" \in Mandatory(check.plan) => value("rollout_complete")
        BY <2>1
  <2>5. value("rollout_complete") => rolledOut
        OBVIOUS
  <2>6. MustBeReady => value("pod_ready")
        BY <2>1 DEF MustBeReady
  <2>7. value("pod_ready") => check.podReady
        OBVIOUS
  <2> QED BY <2>1, <2>2, <2>3, <2>4, <2>5, <2>6, <2>7
<1>3. check.open \subseteq o /\ ("business_probe_ok" \in check.plan.asked => o # {})
      OBVIOUS
<1> HIDE DEF f, o, go
<1>4. /\ check'.pc = go /\ check'.failed = f /\ check'.open = o
      /\ UNCHANGED <<Given, check.todo, check.pod, check.unread, check.assessed, check.last,
                     check.until, check.wake>>
      BY <1>1, FieldsTyped DEF CheckRecord, Given
<1> QED BY <1>2, <1>3, <1>4 DEF go

(* ------------------------- the steps keep the verdict true ------------------------- *)
\* What was seen stays known until the next probe, or the next sleep.
LEMMA FactsStay ==
    ASSUME CheckActs, check'.plan = check.plan
    PROVE  /\ ~Probing /\ check'.pc \in Looked \cup {"done"} => facts' = facts
           /\ Probing => facts' = FactsNow
           /\ FactsNow' = FactsNow
BY SameCluster DEF CheckActs, clusterVars, Looking, Looked, Reading

\* A call that goes to sleep, to a probe or to an end without a verdict owes nothing.
LEMMA IdleKeeps ==
    ASSUME VerdictInv, UNCHANGED Given, check.plan.kind # "readonly",
           check'.pc \in {"grace", "probe", "sleep", "held", "sample"}
    PROVE  VerdictInv'
BY DEF VerdictInv, KindInv, FreshFacts, AnswerInv, PodsInv, CriteriaInv, RecoveredWasProven,
       Verdict, At, Looked, Reading, Given
LEMMA EndKeeps ==
    ASSUME VerdictInv, UNCHANGED Given, check'.pc = "done", RecoveredWasProven'
    PROVE  VerdictInv'
BY DEF VerdictInv, KindInv, FreshFacts, AnswerInv, PodsInv, CriteriaInv, Looked, Reading, Given
LEMMA OtherEndKeeps ==
    ASSUME VerdictInv, UNCHANGED Given, check'.pc = "done", check'.last.recovered # "yes"
    PROVE  VerdictInv'
BY EndKeeps DEF RecoveredWasProven, Verdict

\* An answer to a probe, first or in the window.
LEMMA ProbeKeeps ==
    ASSUME CheckTypeOK, VerdictInv, CheckActs, Probe
    PROVE  VerdictInv'
<1>1. PICK answer \in ProbeAnswers(check.plan, check.results) :
        check' = [check EXCEPT !.last = answer,
             !.pc = IF At("single") THEN "done" ELSE IF At("probe") THEN "judge" ELSE "sampled"]
      BY DEF Probe
<1>2. /\ check'.last = answer /\ UNCHANGED Given
      /\ check'.pc = IF At("single") THEN "done" ELSE IF At("probe") THEN "judge" ELSE "sampled"
      BY <1>1, FieldsTyped DEF CheckRecord, Given
<1>3. Probing /\ check.pc \in {"single", "probe", "sample"}
      BY DEF Probe, Probing, At
<1>4. facts' = FactsNow /\ FactsNow' = FactsNow
      BY <1>2, <1>3, FactsStay DEF Given
<1>5. ASSUME answer.recovered = "yes"
      PROVE  AnswerSeen(check.last)'
  <2>1. /\ check.results = "applied"
        /\ check.plan.kind \in {"resource", "infra"} => aside
        /\ check.plan.kind # "infra" =>
             /\ Matched # {} /\ Unresolved(check.plan.bound) = {} /\ answer.pods # {}
             /\ \A p \in answer.pods : p \in Pods /\ pods[p].state \in {"ready", "done"}
        BY <1>5, AnswerMeans
  <2>2. check.plan.kind # "infra" =>
          <<"all", "well">> \in FactsNow /\ \A p \in answer.pods : <<"ready", p>> \in FactsNow
        BY <2>1 DEF FactsNow, WellNow
  <2>3. check.plan.kind \in {"resource", "infra"} => <<"aside", "as planned">> \in FactsNow
        BY <2>1 DEF FactsNow
  <2> QED BY <1>2, <1>4, <2>1, <2>2, <2>3 DEF AnswerSeen, Given
<1>6. CASE check.pc = "single"
  <2>1. check'.pc = "done"
        BY <1>2, <1>6 DEF At
  <2>2. RecoveredWasProven'
    <3> SUFFICES ASSUME answer.recovered = "yes" PROVE RecoveredWasProven'
        BY <1>2 DEF RecoveredWasProven, Verdict
    <3>1. AnswerSeen(check.last)' /\ check.plan.kind = "readonly"
          BY <1>2, <1>5, <1>6 DEF AnswerSeen, VerdictInv, KindInv, Given
    <3> QED BY <1>2, <3>1 DEF RecoveredWasProven, AnswerSeen, Given
  <2> QED BY <1>2, <2>1, <2>2, EndKeeps
<1>7. CASE check.pc # "single"
  <2>1. check'.pc \in {"judge", "sampled"} /\ (check'.pc = "sampled" => check.pc = "sample")
        BY <1>2, <1>3, <1>7 DEF At
  <2>2. KindInv'
        BY <1>2, <1>3, <1>7, <2>1 DEF VerdictInv, KindInv, Given
  <2>3. FreshFacts'
        BY <1>4 DEF FreshFacts
  <2>4. AnswerInv'
        BY <1>2, <1>5 DEF AnswerInv
  <2> QED BY <2>1, <2>2, <2>3, <2>4 DEF VerdictInv, PodsInv, CriteriaInv, RecoveredWasProven,
             Verdict, At, Reading
<1> QED BY <1>6, <1>7

\* The Pods of an answer that says recovered are taken up, none of them read yet.
LEMMA AssessKeeps ==
    ASSUME CheckTypeOK, VerdictInv, CheckActs, AssessAll,
           check.pc \in {"judge", "sampled"}, check.last.recovered = "yes"
    PROVE  VerdictInv'
<1>1. /\ check'.pc = "pod" /\ (check.last.pods # {} => check'.todo \subseteq check.last.pods)
      /\ check'.assessed = {} /\ check'.failed = {}
      /\ UNCHANGED <<Given, check.last>>
      BY AssessWrites
<1>2. facts' = facts /\ FactsNow' = FactsNow
      BY <1>1, FactsStay DEF Given, Probing, At, Looked, Reading
<1>3. AnswerSeen(check.last)
      BY DEF VerdictInv, AnswerInv, Looked
<1>4. KindInv' /\ FreshFacts'
      BY <1>1, <1>2, <1>3 DEF VerdictInv, KindInv, FreshFacts, Given, Looked
<1>5. AnswerInv'
      BY <1>1, <1>2, <1>3 DEF AnswerInv, AnswerSeen, Given
<1>6. PodsInv' /\ CriteriaInv' /\ RecoveredWasProven'
      BY <1>1, <1>3 DEF PodsInv, CriteriaInv, Judged, RecoveredWasProven, Verdict, At, AnswerSeen, Given
<1> QED BY <1>4, <1>5, <1>6 DEF VerdictInv

\* One Pod is read: its own evidence is seen, its criteria are not judged yet.
LEMMA ReadPodKeeps ==
    ASSUME CheckTypeOK, VerdictInv, CheckActs, ReadPod
    PROVE  VerdictInv'
<1>1. check.pc = "pod" /\ check.last.recovered = "yes"
      BY DEF ReadPod, At, VerdictInv, PodsInv, Reading
<1>2. CASE Unproven
      BY <1>2, ReturnsWrites, OtherEndKeeps DEF Unproven
<1>3. CASE ~Unproven
  <2>1. PICK p \in Matched :
          /\ p \in check.todo \/ NoPod \in check.todo
          /\ check'.pc = "owner" /\ check'.pod = p
          /\ check'.todo = check.todo \ {p, NoPod} /\ check'.assessed = check.assessed \cup {p}
          /\ check.unread \subseteq check'.unread
          /\ check'.podReady => pods[p].state \in {"ready", "scarred", "done"}
          /\ check'.clean /\ p \notin check'.unread => pods[p].dirt = {}
          /\ UNCHANGED <<Given, check.failed, check.open, check.last, check.until, check.wake>>
        BY <1>3, ReadPodWrites
  <2>2. facts' = facts /\ FactsNow' = FactsNow
        BY <1>1, <2>1, FactsStay DEF Given, Probing, At, Looked, Reading
  <2>3. p \in Pods /\ NoPod \notin Pods
        BY DEF Matched, Pods, NoPod
  <2>4. KindInv'
        BY <1>1, <2>1, <2>3 DEF VerdictInv, KindInv, Given
  <2>5. FreshFacts' /\ AnswerInv'
        BY <1>1, <2>1, <2>2 DEF VerdictInv, FreshFacts, AnswerInv, AnswerSeen, Given, Looked, Reading
  <2>6. PodsInv'
    <3>1. check.plan.kind # "infra" => check.last.pods \subseteq Pods /\ check.todo \subseteq check.last.pods
                                     /\ check.assessed \subseteq check.last.pods
          BY <1>1, FieldsTyped DEF VerdictInv, PodsInv, Reading
    <3>2. check.plan.kind # "infra" => p \in check.last.pods
          BY <2>1, <2>3, <3>1
    <3> QED BY <1>1, <2>1, <3>1, <3>2 DEF PodsInv, Given
  <2>7. check'.clean /\ p \notin check'.unread => <<"clean", p>> \in facts'
    <3> SUFFICES ASSUME check'.clean, p \notin check'.unread PROVE <<"clean", p>> \in facts
        BY <2>2
    <3>1. <<"clean", p>> \in FactsNow
          BY <2>1, <2>3 DEF FactsNow
    <3> QED BY <1>1, <3>1 DEF VerdictInv, FreshFacts, Looked, Reading
  <2>8. Judged' \subseteq Judged
        BY <1>1, <2>1 DEF Judged
  <2>11. check'.podReady => <<"ready", p>> \in facts'
    <3> SUFFICES ASSUME check'.podReady PROVE <<"ready", p>> \in facts
        BY <2>2
    <3>1. <<"ready", p>> \in FactsNow
          BY <2>1, <2>3 DEF FactsNow
    <3> QED BY <1>1, <3>1 DEF VerdictInv, FreshFacts, Looked, Reading
  <2>9. \A q : Shown(q) => Shown(q)'
        BY <2>1, <2>2 DEF Shown, MustBeReady, Given
  <2>10. CriteriaInv'
        BY <1>1, <2>1, <2>7, <2>8, <2>9, <2>11 DEF VerdictInv, CriteriaInv, Given, Reading
  <2> QED BY <2>1, <2>4, <2>5, <2>6, <2>10 DEF VerdictInv, RecoveredWasProven, Verdict, At
<1> QED BY <1>2, <1>3

\* The owner of the Pod is read and the criteria are judged: what did not fail
\* was shown of this Pod as it was of those before it.
LEMMA EvaluateKeeps ==
    ASSUME CheckTypeOK, VerdictInv, CheckActs, check.pc = "owner",
           NEW rolledOut \in BOOLEAN, Evaluate(rolledOut),
           rolledOut /\ check.pod \in Own =>
             RolloutComplete(check.plan.type) \/ check.plan.type = "cronjob"
    PROVE  VerdictInv'
<1>1. /\ check'.pc = IF check.todo = {} THEN "assessed" ELSE "pod"
      /\ check'.failed = {} =>
           /\ check.failed = {}
           /\ MustBeReady => check.podReady
           /\ "clean" \in check.plan.asked => check.clean
           /\ "rollout_complete" \in Mandatory(check.plan) => rolledOut
      /\ check.open \subseteq check'.open
      /\ "business_probe_ok" \in check.plan.asked => check'.open # {}
      /\ UNCHANGED <<Given, check.todo, check.pod, check.unread, check.assessed, check.last,
                     check.until, check.wake>>
      BY EvaluateWrites
<1>2. check'.pc \in {"pod", "assessed"}
      BY <1>1
<1>3. facts' = facts /\ FactsNow' = FactsNow /\ FactsNow \subseteq facts
      BY <1>1, <1>2, FactsStay
      DEF Given, Probing, At, Looked, Reading, VerdictInv, FreshFacts
<1>4. KindInv'
      BY <1>1, <1>2 DEF VerdictInv, KindInv, Given
<1>5. FreshFacts' /\ AnswerInv'
      BY <1>1, <1>2, <1>3 DEF VerdictInv, FreshFacts, AnswerInv, AnswerSeen, Given, Looked, Reading
<1>6. PodsInv'
      BY <1>1, <1>2 DEF VerdictInv, PodsInv, Reading, Given
<1>7. Judged' = check.assessed
      BY <1>1, <1>2 DEF Judged
<1>8. ASSUME check'.failed = {}, NEW p \in check.assessed PROVE Shown(p)'
  <2>1. CASE p = check.pod
    <3>1. "clean" \in check.plan.asked /\ p \notin check.unread => <<"clean", p>> \in facts
          BY <1>1, <1>8, <2>1 DEF VerdictInv, CriteriaInv, Reading
    <3>2. p \in Own /\ "rollout_complete" \in Mandatory(check.plan) /\ check.plan.type # "cronjob"
            => <<"rolled", "out">> \in FactsNow
          BY <1>1, <1>8, <2>1 DEF FactsNow
    <3>3. MustBeReady => <<"ready", p>> \in facts
          BY <1>1, <1>8, <2>1 DEF VerdictInv, CriteriaInv, Reading
    <3> QED BY <1>1, <1>3, <3>1, <3>2, <3>3 DEF Shown, MustBeReady, Given
  <2>2. CASE p # check.pod
    <3>1. Shown(p)
          BY <1>1, <1>8, <2>2 DEF VerdictInv, CriteriaInv, Judged, Reading
    <3> QED BY <1>1, <1>3, <3>1 DEF Shown, MustBeReady, Given
  <2> QED BY <2>1, <2>2
<1>9. CriteriaInv'
      BY <1>1, <1>2, <1>7, <1>8 DEF CriteriaInv, Given
<1> QED BY <1>2, <1>4, <1>5, <1>6, <1>9 DEF VerdictInv, RecoveredWasProven, Verdict, At

\* Pods that were all assessed without a failed or an open criterion prove it.
LEMMA NothingFailedProves ==
    ASSUME VerdictInv, check.pc \in {"assessed", "window"}, check.failed = {}, check.open = {},
           UNCHANGED <<Given, check.assessed, check.unread, facts>>
    PROVE  RecoveredWasProven'
<1>1. /\ AnswerSeen(check.last) /\ check.assessed # {}
      /\ check.plan.kind # "infra" => check.assessed \subseteq check.last.pods
      BY DEF VerdictInv, AnswerInv, PodsInv, Looked, Reading
<1>2. Judged = check.assessed
      BY DEF Judged
<1>3. "business_probe_ok" \notin check.plan.asked /\ \A p \in check.assessed : Shown(p)
      BY <1>1, <1>2 DEF VerdictInv, CriteriaInv, Reading
<1> QED BY <1>1, <1>3 DEF RecoveredWasProven, AnswerSeen, Shown, MustBeReady, Given

\* The window is entered, or sampled again, when nothing failed and nothing is open.
LEMMA WindowKeeps ==
    ASSUME CheckTypeOK, VerdictInv, CheckActs, check.pc = "assessed", check'.pc = "window",
           check.failed = {}, check.open = {},
           UNCHANGED <<Given, Notes, check.last>>
    PROVE  VerdictInv'
<1>1. facts' = facts /\ FactsNow' = FactsNow
      BY FactsStay DEF Given, Probing, At, Looked, Reading
<1>2. KindInv'
      BY DEF VerdictInv, KindInv, Given
<1>3. FreshFacts' /\ AnswerInv'
      BY <1>1 DEF VerdictInv, FreshFacts, AnswerInv, AnswerSeen, Given, Looked, Reading
<1>4. PodsInv'
      BY DEF VerdictInv, PodsInv, Reading, Notes, Given
<1>5. CriteriaInv'
      BY <1>1 DEF VerdictInv, CriteriaInv, Judged, Shown, MustBeReady, Given, Notes, Reading
<1> QED BY <1>2, <1>3, <1>4, <1>5 DEF VerdictInv, RecoveredWasProven, Verdict, At

LEMMA ConcludeKeeps ==
    ASSUME CheckTypeOK, VerdictInv, CheckActs, Conclude
    PROVE  VerdictInv'
<1>1. check.pc = "assessed"
      BY DEF Conclude, At
<1>2. CASE Returns("needs_followup", "no") \/ Unproven
      BY <1>2, ReturnsWrites, OtherEndKeeps DEF Unproven
<1>3. CASE check.failed = {} /\ check.open = {} /\ Goes("done")
  <2>1. check'.pc = "done" /\ UNCHANGED <<Given, Notes, check.last>>
        BY <1>3, GoesWrites
  <2>2. facts' = facts
        BY <1>1, <2>1, FactsStay DEF Given, Probing, At
  <2> QED BY <1>1, <1>3, <2>1, <2>2, NothingFailedProves, EndKeeps DEF Notes
<1>4. CASE /\ check.failed = {} /\ check.open = {}
           /\ check' = [check EXCEPT !.pc = "window", !.until = now + check.stability]
  <2>1. check'.pc = "window" /\ UNCHANGED <<Given, Notes, check.last>>
        BY <1>4, FieldsTyped, Zenon DEF CheckRecord, Given, Notes
  <2> QED BY <1>1, <1>4, <2>1, WindowKeeps
<1> QED BY <1>2, <1>3, <1>4 DEF Conclude

LEMMA WindowStepKeeps ==
    ASSUME CheckTypeOK, VerdictInv, CheckActs, Window \/ SampleAssessed
    PROVE  VerdictInv'
<1>1. CASE Window
  <2>1. check.pc = "window" /\ check.plan.kind # "readonly"
        BY <1>1 DEF Window, At, VerdictInv, KindInv
  <2>2. CASE Returns("verified", "yes")
    <3>1. check'.pc = "done" /\ UNCHANGED <<Given, Notes>>
          BY <2>2, ReturnsWrites
    <3>2. facts' = facts
          BY <2>1, <3>1, FactsStay DEF Given, Probing, At
    <3>3. check.failed = {} /\ check.open = {}
          BY <2>1 DEF VerdictInv, CriteriaInv, Reading
    <3> QED BY <2>1, <3>1, <3>2, <3>3, NothingFailedProves, EndKeeps DEF Notes
  <2>3. CASE Returns("cancelled", "no")
        BY <2>3, ReturnsWrites, OtherEndKeeps
  <2>4. CASE SleepsUntil("held", check.until)
        BY <2>1, <2>4, SleepWrites, IdleKeeps
  <2> QED BY <1>1, <2>2, <2>3, <2>4 DEF Window
<1>2. CASE SampleAssessed
  <2>1. CASE check.failed = {} /\ check.open = {} /\ Goes("window")
    <3>1. check.pc = "assessed"
          BY <1>2 DEF SampleAssessed, At
    <3> QED BY <2>1, <3>1, GoesWrites, WindowKeeps
  <2>2. CASE Returns("needs_followup", "no")
        BY <2>2, ReturnsWrites, OtherEndKeeps
  <2> QED BY <1>2, <2>1, <2>2 DEF SampleAssessed
<1> QED BY <1>1, <1>2

LEMMA BeginKeeps ==
    ASSUME CheckTypeOK, VerdictInv, CheckActs, Begin \/ GracePoll
    PROVE  VerdictInv'
<1>1. CASE Begin
  <2>1. CASE Goes("single") /\ (check.plan.kind = "readonly" \/ check.results = "failed")
    <3>1. check'.pc = "single" /\ UNCHANGED Given
          BY <2>1, GoesWrites
    <3> QED BY <2>1, <3>1 DEF VerdictInv, KindInv, FreshFacts, AnswerInv, PodsInv, CriteriaInv,
               RecoveredWasProven, Verdict, At, Looked, Reading, Given
  <2>2. CASE check.plan.kind # "readonly" /\ (Goes("grace") \/ Goes("probe"))
        BY <2>2, GoesWrites, IdleKeeps
  <2> QED BY <1>1, <2>1, <2>2 DEF Begin
<1>2. CASE GracePoll
  <2>1. check.pc = "grace" /\ check.plan.kind # "readonly"
        BY <1>2 DEF GracePoll, At, VerdictInv, KindInv
  <2>2. CASE Goes("probe")
        BY <2>1, <2>2, GoesWrites, IdleKeeps
  <2>3. CASE Returns("cancelled", "no")
        BY <2>3, ReturnsWrites, OtherEndKeeps
  <2>4. CASE check' = [check EXCEPT !.wake = now + 1]
    <3>1. check'.pc = "grace" /\ UNCHANGED Given
          BY <2>1, <2>4, FieldsTyped DEF CheckRecord, Given
    <3> QED BY <2>1, <3>1, IdleKeeps
  <2>5. now \in Nat /\ Least(Grace, Timeout) \in Nat
        BY WindowAssumption DEF CheckTypeOK, Least
  <2> QED BY <1>2, <2>2, <2>3, <2>4, <2>5 DEF GracePoll
<1> QED BY <1>1, <1>2

LEMMA CheckKeepsVerdict ==
    ASSUME CheckTypeOK, VerdictInv, CheckActs
    PROVE  VerdictInv'
<1>1. CASE Judge
  <2>1. check.pc = "judge" /\ check.plan.kind # "readonly"
        BY <1>1 DEF Judge, At, VerdictInv, KindInv
  <2>2. CASE check.last.recovered = "yes" /\ AssessAll
        BY <2>1, <2>2, AssessKeeps
  <2>3. CASE check.last.recovered # "yes" /\ Goes("done")
        BY <2>3, GoesWrites, OtherEndKeeps
  <2>4. CASE check.last.recovered # "yes" /\ Returns("needs_followup", check.last.recovered)
        BY <2>4, ReturnsWrites, OtherEndKeeps
  <2>5. CASE Returns("cancelled", "no")
        BY <2>5, ReturnsWrites, OtherEndKeeps
  <2>6. CASE SleepsUntil("sleep", Timeout)
        BY <2>1, <2>6, SleepWrites, IdleKeeps
  <2> QED BY <1>1, <2>2, <2>3, <2>4, <2>5, <2>6 DEF Judge
<1>2. CASE Retry \/ Sample
  <2>1. /\ check.plan.kind # "readonly" /\ UNCHANGED Given
        /\ check'.pc \in {"probe", "sample"}
        BY <1>2, GoesWrites DEF Retry, Sample, At, VerdictInv, KindInv
  <2> QED BY <2>1, IdleKeeps
<1>3. CASE ReadOwner
  <2>1. check.pc = "owner"
        BY <1>3 DEF ReadOwner, At
  <2>2. CASE Evaluate(OwnerRolledOut)
    <3>1. OwnerRolledOut \in BOOLEAN
          BY DEF OwnerRolledOut
    <3>2. OwnerRolledOut /\ check.pod \in Own => RolloutComplete(check.plan.type)
          BY DEF OwnerRolledOut
    <3> QED BY <2>1, <2>2, <3>1, <3>2, EvaluateKeeps
  <2>3. CASE Unproven
        BY <2>3, ReturnsWrites, OtherEndKeeps DEF Unproven
  <2>4. CASE Evaluate(check.plan.type = "cronjob")
    <3>1. (check.plan.type = "cronjob") \in BOOLEAN
          OBVIOUS
    <3> QED BY <2>1, <2>4, <3>1, EvaluateKeeps
  <2> QED BY <1>3, <2>2, <2>3, <2>4 DEF ReadOwner
<1>4. CASE Sampled
  <2>1. check.pc = "sampled"
        BY <1>4 DEF Sampled, At
  <2>2. CASE check.last.recovered = "yes" /\ AssessAll
        BY <2>1, <2>2, AssessKeeps
  <2>3. CASE Returns("needs_followup", "no")
        BY <2>3, ReturnsWrites, OtherEndKeeps
  <2> QED BY <1>4, <2>2, <2>3 DEF Sampled
<1> QED BY <1>1, <1>2, <1>3, <1>4, BeginKeeps, ProbeKeeps, ReadPodKeeps, ConcludeKeeps,
           WindowStepKeeps DEF CheckActs, CheckStep

(* ------------------------- the steps keep the clock ------------------------- *)
\* Which steps lead to a look, to a sample that found the target healthy, and to
\* a sleep; the end of the window is set once and never lifted.
Times ==
    /\ UNCHANGED Given
    /\ check'.pc # "called"
    /\ check'.pc \in {"single", "grace", "probe", "judge", "sleep"} =>
         /\ check.pc \in {"called", "grace", "sleep", "probe", "judge"}
         /\ check'.until = check.until
    /\ check'.pc \in Reading =>
         \/ check.pc \in Reading \cup {"judge"}
         \/ check.pc = "sampled" /\ check.last.recovered = "yes"
    /\ check'.pc = "sampled" /\ check'.last.recovered = "yes" => Healthy
    /\ check'.pc \in {"sample", "sampled"} => check.pc \in {"held", "sample"}
    /\ check'.pc \in LookPcs \cup {"window"} =>
         \/ check.pc \in LookPcs \cup {"window", "called"}
         \/ check.pc \in Asleep /\ Awake
    /\ check'.pc = "held" => now < check.until /\ check.pc = "window"
                            /\ check'.wake = Least(now + Interval, check.until)
    /\ check'.pc \in {"grace", "sleep"} =>
         \/ check.pc = "called" /\ check'.wake = check.wake
         \/ now <= check'.wake /\ check'.wake <= Timeout
    /\ check'.pc \notin Asleep => check'.wake = check.wake
    /\ \/ check'.until = check.until
       \/ check.pc = "assessed" /\ check.until = 0 /\ check'.until = now + check.stability

LEMMA ReturnTimes ==
    ASSUME CheckTypeOK, NEW status, NEW answer, Returns(status, answer)
    PROVE  Times
BY ReturnsWrites DEF Times, Reading, LookPcs, Asleep

LEMMA ProbeTimes ==
    ASSUME CheckTypeOK, VerdictInv, Probe
    PROVE  Times
<1>1. PICK answer \in ProbeAnswers(check.plan, check.results) :
        check' = [check EXCEPT !.last = answer,
             !.pc = IF At("single") THEN "done" ELSE IF At("probe") THEN "judge" ELSE "sampled"]
      BY DEF Probe
<1>2. /\ check'.last = answer /\ UNCHANGED <<Given, check.until, check.wake>>
      /\ check'.pc = IF At("single") THEN "done" ELSE IF At("probe") THEN "judge" ELSE "sampled"
      BY <1>1, FieldsTyped DEF CheckRecord, Given
<1>3. At("single") \/ At("probe") \/ At("sample")
      BY DEF Probe
<1>4. answer.recovered = "yes" => Healthy
      BY AnswerMeans DEF Healthy, WellNow
<1> QED BY <1>2, <1>3, <1>4 DEF Times, At, Reading, LookPcs, Asleep

LEMMA WindowTimes ==
    ASSUME CheckTypeOK, Conclude \/ Window \/ SampleAssessed
    PROVE  Times
<1>1. CASE Conclude
  <2>1. check.pc = "assessed"
        BY <1>1 DEF Conclude, At
  <2>2. CASE Returns("needs_followup", "no") \/ Unproven
        BY <2>2, ReturnTimes DEF Unproven
  <2>3. CASE Goes("done")
        BY <2>3, GoesWrites DEF Times, Reading, LookPcs, Asleep
  <2>4. CASE /\ check.stability # 0
             /\ check.until = 0
             /\ check' = [check EXCEPT !.pc = "window", !.until = now + check.stability]
    <3>1. /\ check'.pc = "window" /\ check'.until = now + check.stability
          /\ UNCHANGED <<Given, check.wake>>
          BY <2>4, FieldsTyped DEF CheckRecord, Given
    <3>2. now \in Nat /\ check.stability \in Nat
          BY FieldsTyped DEF CheckTypeOK
    <3> QED BY <2>1, <2>4, <3>1, <3>2 DEF Times, Reading, LookPcs, Asleep
  <2> QED BY <1>1, <2>2, <2>3, <2>4 DEF Conclude
<1>2. CASE Window
  <2>1. CASE Returns("verified", "yes") \/ Returns("cancelled", "no")
        BY <2>1, ReturnTimes
  <2>2. CASE now < check.until /\ SleepsUntil("held", check.until)
    <3>1. check.pc = "window"
          BY <1>2 DEF Window, At
    <3> QED BY <2>2, <3>1, SleepWrites DEF Times, Reading, LookPcs, Asleep
  <2>3. now \in Nat /\ check.until \in Nat
        BY FieldsTyped DEF CheckTypeOK
  <2> QED BY <1>2, <2>1, <2>2, <2>3 DEF Window
<1>3. CASE SampleAssessed
  <2>1. check.pc = "assessed"
        BY <1>3 DEF SampleAssessed, At
  <2>2. CASE Goes("window")
        BY <2>1, <2>2, GoesWrites DEF Times, Reading, LookPcs, Asleep
  <2> QED BY <1>3, <2>2, ReturnTimes DEF SampleAssessed
<1> QED BY <1>1, <1>2, <1>3

LEMMA CheckTimes ==
    ASSUME CheckTypeOK, VerdictInv, CheckActs
    PROVE  Times
<1>1. CASE Begin
  <2>1. check.pc = "called"
        BY <1>1 DEF Begin, At
  <2>2. PICK go \in {"single", "grace", "probe"} : Goes(go)
        BY <1>1 DEF Begin
  <2> QED BY <2>1, <2>2, GoesWrites DEF Times, Reading, LookPcs, Asleep
<1>2. CASE GracePoll
  <2>1. check.pc = "grace" /\ Awake
        BY <1>2 DEF GracePoll, At
  <2>2. CASE Goes("probe")
        BY <2>1, <2>2, GoesWrites DEF Times, Reading, LookPcs, Asleep
  <2>3. CASE Returns("cancelled", "no")
        BY <2>3, ReturnTimes
  <2>4. CASE now < Least(Grace, Timeout) /\ check' = [check EXCEPT !.wake = now + 1]
    <3>1. check'.pc = "grace" /\ check'.wake = now + 1 /\ UNCHANGED <<Given, check.until>>
          BY <2>1, <2>4, FieldsTyped DEF CheckRecord, Given
    <3>2. now + 1 <= Timeout /\ now <= now + 1
          BY <2>4, WindowAssumption DEF CheckTypeOK, Least
    <3> QED BY <2>1, <3>1, <3>2 DEF Times, Reading, LookPcs, Asleep
  <2>5. now \in Nat /\ Least(Grace, Timeout) \in Nat
        BY WindowAssumption DEF CheckTypeOK, Least
  <2> QED BY <1>2, <2>2, <2>3, <2>4, <2>5 DEF GracePoll
<1>3. CASE Judge
  <2>1. check.pc = "judge"
        BY <1>3 DEF Judge, At
  <2>2. CASE AssessAll
        BY <2>1, <2>2, AssessWrites DEF Times, Reading, LookPcs, Asleep
  <2>3. CASE Goes("done")
        BY <2>3, GoesWrites DEF Times, Reading, LookPcs, Asleep
  <2>4. CASE now < Timeout /\ SleepsUntil("sleep", Timeout)
    <3>1. /\ now <= Least(now + Interval, Timeout)
          /\ Least(now + Interval, Timeout) <= Timeout
          BY <2>4, WindowAssumption DEF CheckTypeOK, Least
    <3> QED BY <2>1, <2>4, <3>1, SleepWrites DEF Times, Reading, LookPcs, Asleep
  <2>5. now \in Nat /\ Timeout \in Nat
        BY WindowAssumption DEF CheckTypeOK
  <2> QED BY <1>3, <2>2, <2>3, <2>4, <2>5, ReturnTimes DEF Judge
<1>4. CASE Retry \/ Sample
  <2>1. CASE Retry
        BY <2>1, GoesWrites DEF Retry, At, Times, Reading, LookPcs, Asleep
  <2>2. CASE Sample
        BY <2>2, GoesWrites DEF Sample, At, Times, Reading, LookPcs, Asleep
  <2> QED BY <1>4, <2>1, <2>2
<1>5. CASE ReadPod
  <2>1. check.pc = "pod"
        BY <1>5 DEF ReadPod, At
  <2>2. CASE ~Unproven
    <3>1. check'.pc = "owner" /\ UNCHANGED <<Given, check.until, check.wake>>
          BY <1>5, <2>2, ReadPodWrites
    <3> QED BY <2>1, <3>1 DEF Times, Reading, LookPcs, Asleep
  <2> QED BY <2>2, ReturnTimes DEF Unproven
<1>6. CASE ReadOwner
  <2>1. check.pc = "owner"
        BY <1>6 DEF ReadOwner, At
  <2>2. ASSUME NEW rolledOut \in BOOLEAN, Evaluate(rolledOut) PROVE Times
    <3>1. check'.pc \in {"assessed", "pod"} /\ UNCHANGED <<Given, check.until, check.wake>>
          BY <2>2, EvaluateWrites
    <3> QED BY <2>1, <3>1 DEF Times, Reading, LookPcs, Asleep
  <2>3. OwnerRolledOut \in BOOLEAN /\ (check.plan.type = "cronjob") \in BOOLEAN
        BY DEF OwnerRolledOut
  <2> QED BY <1>6, <2>2, <2>3, ReturnTimes DEF ReadOwner, Unproven
<1>7. CASE Sampled
  <2>1. check.pc = "sampled"
        BY <1>7 DEF Sampled, At
  <2>2. CASE check.last.recovered = "yes" /\ AssessAll
        BY <2>1, <2>2, AssessWrites DEF Times, Reading, LookPcs, Asleep
  <2> QED BY <1>7, <2>2, ReturnTimes DEF Sampled
<1> QED BY <1>1, <1>2, <1>3, <1>4, <1>5, <1>6, <1>7, ProbeTimes, WindowTimes
        DEF CheckActs, CheckStep

LEMMA CheckKeepsClock ==
    ASSUME CheckTypeOK, VerdictInv, ClockInv, CheckActs
    PROVE  ClockInv'
<1>0. /\ now \in Nat /\ ill \in Nat /\ check.wake \in Nat /\ check.until \in Nat
      /\ Interval \in Nat /\ Look \in Nat
      BY FieldsTyped, WindowAssumption DEF CheckTypeOK
<1>1. Times
      BY CheckTimes
<1>2. /\ Healthy' = Healthy
      /\ UNCHANGED <<now, ill, worst>>
      BY <1>1, SameCluster DEF CheckActs, clusterVars, Times, Given
<1>3. WellInv'
  <2>1. check'.until = 0 => ill = 0
        BY <1>0, <1>1, FieldsTyped DEF Times, ClockInv, WellInv, LookInv
  <2>2. check'.pc \in {"called", "single", "grace", "probe", "judge", "sleep"} => check'.until = 0
        BY <1>1 DEF Times, ClockInv, WellInv
  <2> QED BY <1>2, <2>1, <2>2 DEF ClockInv, WellInv
<1>4. LookInv'
  <2>1. check'.pc \in LookPcs \cup {"window"} =>
          check'.wake <= now /\ now <= check'.wake + Look
        BY <1>0, <1>1 DEF Times, ClockInv, LookInv, Awake, LookPcs, Asleep
  <2>2. check'.pc \in {"grace", "sleep"} => now <= check'.wake
        BY <1>0, <1>1 DEF Times, ClockInv, LookInv
  <2>3. check'.pc = "held" => now <= check'.wake
        BY <1>0, <1>1 DEF Times, Least
  <2>4. check'.pc # "called"
        BY <1>1 DEF Times
  <2> QED BY <1>2, <2>1, <2>2, <2>3, <2>4 DEF LookInv, Asleep
<1>5. IllInv'
  <2>1. check'.pc \in Reading => ill + check'.wake <= now
    <3>1. CASE check.pc = "judge"
      <4>1. ill = 0 /\ check.wake <= now
            BY <3>1 DEF ClockInv, WellInv, LookInv, LookPcs
      <4> QED BY <1>0, <1>1, <3>1, <4>1 DEF Times, Reading, Asleep
    <3> QED BY <1>0, <1>1, <3>1 DEF Times, ClockInv, IllInv, Reading, Asleep
  <2>2. check'.pc = "sampled" /\ check'.last.recovered = "yes" => ill + check'.wake <= now
    <3> SUFFICES ASSUME check'.pc = "sampled", check'.last.recovered = "yes"
                 PROVE  ill + check'.wake <= now
        OBVIOUS
    <3>1. ill = 0
          BY <1>1 DEF Times, ClockInv, WellInv
    <3>2. check'.wake <= now
          BY <1>2, <1>4 DEF LookInv, LookPcs
    <3>3. check'.wake \in Nat
          BY <1>0, <1>1 DEF Times, Asleep
    <3> QED BY <1>0, <3>1, <3>2, <3>3
  <2>3. check'.pc = "held" => ill + check'.wake <= now + Interval + Look
    <3> SUFFICES ASSUME check'.pc = "held"
                 PROVE  ill + check'.wake <= now + Interval + Look
        OBVIOUS
    <3>1. check.pc = "window" /\ check'.wake = Least(now + Interval, check.until)
          BY <1>1 DEF Times
    <3>2. ill + check.wake <= now /\ now <= check.wake + Look
          BY <3>1 DEF ClockInv, IllInv, LookInv, Reading
    <3>3. check'.wake <= now + Interval /\ check'.wake \in Nat
          BY <1>0, <3>1 DEF Least
    <3> QED BY <1>0, <3>2, <3>3
  <2>4. check'.pc \in {"sample", "sampled"} => ill + check'.wake <= now + Interval + Look
        BY <1>0, <1>1 DEF Times, ClockInv, IllInv, Asleep
  <2> QED BY <1>2, <2>1, <2>2, <2>3, <2>4 DEF ClockInv, IllInv, Reading
<1> QED BY <1>3, <1>4, <1>5 DEF ClockInv

(* ------------------------------- the theorems ------------------------------- *)
LEMMA Invariance == Spec => []IInv
<1>1. Init => IInv
      BY InitTyped, InitInv DEF IInv
<1>2. IInv /\ [Next]_vars => IInv'
  <2> SUFFICES ASSUME IInv, [Next]_vars PROVE IInv'
      OBVIOUS
  <2> USE DEF IInv
  <2>1. CASE ClusterActs
        BY <2>1, ClusterTyped, ClusterKeepsVerdict, ClusterKeepsClock
  <2>2. CASE CheckActs
        BY <2>2, CheckTyped, CheckKeepsVerdict, CheckKeepsClock
  <2>3. CASE TimePasses
    <3>1. UNCHANGED <<pods, rollout, aside, check, facts>>
          BY <2>3 DEF TimePasses, clusterVars
    <3> QED BY <2>3, <3>1, TimeTyped, QuietKeepsVerdict, TimeKeepsClock
  <2>4. CASE OperatorStops \/ UNCHANGED vars
    <3>1. UNCHANGED <<pods, rollout, aside, check, facts, now, ill, worst>>
          BY <2>4 DEF OperatorStops, vars, clusterVars
    <3> QED BY <2>4, <3>1, StopTyped, QuietKeepsVerdict, QuietKeepsClock
  <2> QED BY <2>1, <2>2, <2>3, <2>4 DEF Next
<1> QED BY <1>1, <1>2, PTL DEF Spec

\* A verification of any plan, over any window, keeps its record well formed:
\* every answer it returns is one the job engine knows.
THEOREM ChecksAreTyped == Spec => []CheckTypeOK
<1>1. IInv => CheckTypeOK
      BY DEF IInv
<1> QED BY Invariance, <1>1, PTL

\* A plan of any kind is called recovered only when, since the last probe began,
\* every condition the verdict stands for was seen to hold.
THEOREM RecoveriesAreProven == Spec => []RecoveredWasProven
<1>1. IInv => RecoveredWasProven
      BY DEF IInv, VerdictInv
<1> QED BY Invariance, <1>1, PTL

\* Over any stability window, any sampling interval and looks of any length, a
\* verdict of recovery never passes over an illness longer than one interval and
\* two looks.
THEOREM LastingRelapsesWithdraw == Spec => []RelapseWithdraws
<1>1. IInv => RelapseWithdraws
      BY DEF IInv, ClockInv, IllInv, RelapseWithdraws
<1> QED BY Invariance, <1>1, PTL

-----------------------------------------------------------------------------
(* How long a verification takes: no sleep reaches past the deadline, or     *)
(* past the end of the window, and the look after it lasts at most Look; so  *)
(* does the one that opens the window, whose end is counted from there.      *)
EndsBy == Timeout + check.stability + 2 * Look
DeadlineInv ==
    /\ check.until = 0 => check.wake <= Timeout
    /\ check.until # 0 => check.wake <= check.until
    /\ check.until <= Timeout + Look + check.stability
    /\ now <= check.wake + Look

LEMMA DeadlineKept ==
    ASSUME IInv, DeadlineInv, [Next]_vars
    PROVE  DeadlineInv'
<1> USE DEF IInv
<1>1. /\ now \in Nat /\ check.stability \in Nat /\ check.wake \in Nat /\ check.until \in Nat
      /\ Timeout \in Nat /\ Interval \in Nat /\ Look \in Nat
      BY FieldsTyped, WindowAssumption DEF CheckTypeOK
<1>2. CASE UNCHANGED <<check, now>>
      BY <1>2 DEF DeadlineInv
<1>3. CASE CheckActs
  <2>1. Times /\ now' = now
        BY <1>3, CheckTimes DEF CheckActs
  <2>2. CASE check'.pc \in {"grace", "sleep"}
    <3>1. check'.until = 0 /\ check.until = 0
          BY <2>1, <2>2 DEF Times, ClockInv, WellInv
    <3>2. now <= check'.wake /\ check'.wake <= Timeout /\ check'.wake \in Nat
      <4>1. CASE check.pc = "called" /\ check'.wake = check.wake
            BY <1>1, <3>1, <4>1 DEF ClockInv, LookInv, DeadlineInv
      <4>2. CASE now <= check'.wake /\ check'.wake <= Timeout
        <5>1. check'.wake \in Nat
              BY <1>3, CheckTyped, FieldsTyped DEF CheckTypeOK, CheckRecord
        <5> QED BY <4>2, <5>1
      <4> QED BY <2>1, <2>2, <4>1, <4>2 DEF Times
    <3> QED BY <1>1, <2>1, <3>1, <3>2 DEF DeadlineInv, Times, Given
  <2>3. CASE check'.pc = "held"
    <3>1. /\ check.pc = "window" /\ now < check.until
          /\ check'.wake = Least(now + Interval, check.until)
          BY <2>1, <2>3 DEF Times
    <3>2. now <= check'.wake /\ check'.wake <= check.until /\ check'.wake \in Nat
          BY <1>1, <3>1 DEF Least
    <3>3. check'.until = check.until
          BY <2>1, <3>1 DEF Times
    <3> QED BY <1>1, <2>1, <3>1, <3>2, <3>3 DEF DeadlineInv, Times, Given
  <2>4. CASE check'.pc \notin Asleep
    <3>1. check'.wake = check.wake
          BY <2>1, <2>4 DEF Times
    <3>2. CASE check'.until = check.until
          BY <1>1, <2>1, <3>1, <3>2 DEF DeadlineInv, Times, Given
    <3>3. CASE check.pc = "assessed" /\ check.until = 0 /\ check'.until = now + check.stability
      <4>1. check.wake <= now
            BY <3>3 DEF ClockInv, LookInv, LookPcs
      <4> QED BY <1>1, <2>1, <3>1, <3>3, <4>1 DEF DeadlineInv, Times, Given
    <3> QED BY <2>1, <3>2, <3>3 DEF Times
  <2> QED BY <2>2, <2>3, <2>4 DEF Asleep
<1>4. CASE TimePasses
  <2>1. /\ check' = check /\ now' = now + 1
        /\ now < check.wake \/ now < check.wake + Look
        BY <1>1, <1>4 DEF TimePasses, Tick, Awake
  <2> QED BY <1>1, <2>1 DEF DeadlineInv
<1>5. ClusterActs \/ OperatorStops \/ UNCHANGED vars => UNCHANGED <<check, now>>
      BY DEF ClusterActs, OperatorStops, vars
<1> QED BY <1>2, <1>3, <1>4, <1>5 DEF Next

\* A verification is over by OPS_VERIFY_TIMEOUT_SECONDS and, if it reaches the
\* stability window, the length of that, and by two looks: the one under way at
\* the deadline, whose end opens the window, and the one at the window's end.
THEOREM VerificationIsTimely == Spec => [](now <= EndsBy)
<1>1. Init => DeadlineInv
  <2> SUFFICES ASSUME Init PROVE DeadlineInv
      OBVIOUS
  <2>1. check.wake = 0 /\ check.until = 0 /\ now = 0
        BY DEF Init
  <2>2. check.stability \in Nat /\ Timeout \in Nat /\ Look \in Nat
        BY InitTyped, FieldsTyped, WindowAssumption
  <2> QED BY <2>1, <2>2 DEF DeadlineInv
<1>2. IInv /\ DeadlineInv /\ [Next]_vars => DeadlineInv'
      BY DeadlineKept
<1>3. IInv /\ DeadlineInv => now <= EndsBy
      BY FieldsTyped, WindowAssumption DEF IInv, CheckTypeOK, DeadlineInv, EndsBy
<1> QED BY <1>1, <1>2, <1>3, Invariance, PTL DEF Spec
=============================================================================
