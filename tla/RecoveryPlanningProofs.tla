----------------------- MODULE RecoveryPlanningProofs -----------------------
(***************************************************************************)
(* What the planning loop carries out, for every set of Skills, scenes and *)
(* incidents and a loop of any length: what the gate let through on fresh  *)
(* evidence, and never again what has failed.                              *)
(*                                                                         *)
(* The loop forgets its strategy whenever it replans, so what it remembers *)
(* of a failure is the fingerprint in attempted.  PInv ties the three      *)
(* together: a strategy under way is the one fingerprinted and is          *)
(* remembered, and no failed one is ever taken out again.                  *)
(***************************************************************************)
EXTENDS RecoveryPlanning, SkillRegistryProofs

-----------------------------------------------------------------------------
(* Every plan the loop holds is a plan *)

Evidence == [ok : BOOLEAN, sit : Situations, uid : Ids, pod : {"old", "new"}, memory : BOOLEAN]

LEMMA RemedyTyped == ASSUME NEW s PROVE Remedy(s) \subseteq Changes
  BY DEF Remedy, Changes

LEMMA SkillsNamed == Executable \subseteq SkillIds
  BY PlanningAssumption DEF SkillIds

LEMMA ProposalTyped ==
    ASSUME NEW c \in SUBSET Changes, NEW p \in Probes
    PROVE  Proposal(c, p) \in Plan /\ Proposal(c, p).changes = c /\ Proposal(c, p).skill = NoSkill
  BY DEF Proposal, Plan, Ids

LEMMA LadderTyped ==
    ASSUME NEW p \in Plan, NEW e
    PROVE  Ladder(p, e) \in Plan
<1> DEFINE uid == IF e.uid # "none" THEN e.uid ELSE p.identity
           force == e.memory \/ Write(e) = "closed"
           probed == p.failed \cap {"probe", "reprobe"} # {}
           grouped == p.failed \cap {"nonroot", "init"} # {}
           step == IF ~force /\ uid # "user" /\ ~probed THEN {IF e.pod = "old" THEN "probe" ELSE "reprobe"}
                   ELSE IF ~force /\ uid = "user" /\ ~grouped THEN {"nonroot"}
                   ELSE IF ~force /\ uid = "user" /\ e.sit.mount /\ "init" \notin p.failed THEN {"init"}
                   ELSE {"root"} \ p.failed
<1>1. step \subseteq Changes
      BY DEF Changes, Stages
<1>2. Ladder(p, e) = [p EXCEPT !.changes = step, !.probes = IF step = {} THEN "admin" ELSE "stage",
                               !.manual = p.manual \/ step = {}]
      BY DEF Ladder
<1> HIDE DEF step
<1> QED BY <1>1, <1>2 DEF Plan, Probes

LEMMA GeneratedTyped ==
    ASSUME NEW p \in Plan, NEW e \in Evidence, NEW s
    PROVE  /\ VolumeHandler(p, e) \subseteq Plan /\ PvcHandler(p, e) \subseteq Plan
           /\ Generated(s, p, e) \subseteq Plan
<1>1. VolumeHandler(p, e) \subseteq Plan
  <2>1. [p EXCEPT !.changes = {}, !.probes = "mounts", !.skill = PermissionSkill] \in Plan
        BY SkillsNamed DEF Plan, Probes, Executable
  <2>2. [Ladder(p, e) EXCEPT !.skill = PermissionSkill] \in Plan
        BY LadderTyped, SkillsNamed DEF Plan, Executable
  <2> QED BY <2>1, <2>2 DEF VolumeHandler
<1>2. PvcHandler(p, e) \subseteq Plan
  <2>1. [p EXCEPT !.changes = Remedy(e.sit), !.probes = "storage", !.skill = StorageSkill] \in Plan
        BY RemedyTyped, SkillsNamed DEF Plan, Probes, Executable
  <2> QED BY <2>1 DEF PvcHandler
<1> QED BY <1>1, <1>2 DEF Generated

LEMMA MatchTyped ==
    ASSUME NEW p, NEW m \in Matches(p)
    PROVE  m.skill \in SkillIds \cup {NoSkill} /\ m.may \in BOOLEAN /\ (m # NoMatch => m.skill \in SkillIds /\ Known(m.skill))
<1> DEFINE S == {s \in SkillIds : Known(s) /\ skills[s].enabled /\ (s \notin p.tried \/ s \in Executable)}
<1>1. CASE m = NoMatch
      BY <1>1 DEF NoMatch
<1>2. CASE m \in [skill : S, may : BOOLEAN]
  <2>1. m.skill \in S /\ m.may \in BOOLEAN
        BY <1>2, Zenon
  <2> QED BY <2>1
<1> QED BY <1>1, <1>2 DEF Matches

LEMMA AttachTyped ==
    ASSUME NEW p \in Plan, NEW e \in Evidence, NEW m \in Matches(p)
    PROVE  Attach(p, e, m) \in Plan
<1>1. CASE m = NoMatch
      BY <1>1 DEF Attach, Plan
<1>2. CASE m # NoMatch
  <2> DEFINE made == IF Authorised(m) /\ m.skill \in Executable THEN Generated(m.skill, p, e) ELSE {}
             q == IF made = {} THEN p ELSE [(CHOOSE g \in made : TRUE) EXCEPT !.handled = TRUE]
  <2>1. made \subseteq Plan
        BY GeneratedTyped
  <2>2. q \in Plan
    <3>1. made # {} => (CHOOSE g \in made : TRUE) \in Plan
          BY <2>1
    <3> HIDE DEF made
    <3> QED BY <3>1 DEF Plan
  <2>3. Attach(p, e, m) = [q EXCEPT !.skill = m.skill, !.changes = Permitted(q.changes, m)]
        BY <1>2 DEF Attach
  <2> HIDE DEF q
  <2>4. Permitted(q.changes, m) \subseteq q.changes
        BY DEF Permitted
  <2> QED BY <2>2, <2>3, <2>4, MatchTyped DEF Plan
<1> QED BY <1>1, <1>2

LEMMA AttachedTyped ==
    ASSUME NEW p \in Plan, NEW e \in Evidence
    PROVE  Attached(p, e) \subseteq Plan
  BY AttachTyped DEF Attached

LEMMA ReplansTyped ==
    ASSUME NEW p \in Plan, NEW e \in Evidence, NEW offered \in SUBSET Changes, NEW done
    PROVE  Replans(p, e, offered, done) \subseteq SUBSET Plan
<1>1. \A c \in Offered(offered, e, done) : {c} \in SUBSET Changes
      BY DEF Offered
<1>2. \A c \in Offered(offered, e, done) : Attached(Proposal({c}, "engine"), e) \subseteq Plan
      BY <1>1, ProposalTyped, AttachedTyped DEF Probes
<1> QED BY <1>2, GeneratedTyped DEF Replans

LEMMA PlannedTyped ==
    ASSUME NEW p \in Plan, NEW e \in Evidence, NEW done
    PROVE  Planned(p, e, done) \subseteq SUBSET Plan
<1>1. ModelChanges \in SUBSET Changes /\ Remedy(e.sit) \in SUBSET Changes
      BY PlanningAssumption, RemedyTyped
<1> QED BY <1>1, ReplansTyped DEF Planned

LEMMA DerivedTyped ==
    ASSUME NEW p \in Plan, NEW e \in Evidence
    PROVE  Derived(p, e) \in Plan
<1>1. /\ Proposal({"restart"}, "engine") \in Plan /\ Proposal({"tune"}, "engine") \in Plan
      /\ Proposal({}, "deep") \in Plan
      BY ProposalTyped DEF Changes, Probes
<1>2. VolumeHandler(p, e) # {} => (CHOOSE q \in VolumeHandler(p, e) : TRUE) \in Plan
      BY GeneratedTyped
<1> QED BY <1>1, <1>2 DEF Derived

\* What the loop chooses among is a sequence of plans.
LEMMA AlternativesTyped ==
    ASSUME NEW p \in Plan, NEW e \in Evidence, NEW done, NEW x \in Alternatives(p, e, done)
    PROVE  x \in Seq(Plan)
<1>1. PICK r \in Planned(p, e, done) :
        \/ \E a \in UNION {Attached(q, e) : q \in r}, b \in Attached(Derived(p, e), e) : x = <<a, b>>
        \/ \E b \in Attached(Derived(p, e), e) : x = <<b>>
      BY DEF Alternatives
<1>2. Attached(Derived(p, e), e) \subseteq Plan
      BY DerivedTyped, AttachedTyped
<1>3. CASE \E b \in Attached(Derived(p, e), e) : x = <<b>>
      BY <1>2, <1>3
<1>4. CASE \E a \in UNION {Attached(q, e) : q \in r}, b \in Attached(Derived(p, e), e) : x = <<a, b>>
  <2>1. UNION {Attached(q, e) : q \in r} \subseteq Plan
        BY PlannedTyped, AttachedTyped
  <2> QED BY <1>2, <1>4, <2>1
<1> QED BY <1>1, <1>3, <1>4

LEMMA InOrderTyped == ASSUME NEW r \in SUBSET Plan PROVE InOrder(r) \in Seq(Plan)
<1>1. CASE r = {}
      BY <1>1 DEF InOrder
<1>2. CASE r # {}
      BY <1>2 DEF InOrder
<1> QED BY <1>1, <1>2

LEMMA AdoptedTyped ==
    ASSUME initial \in Plan, NEW p \in Plan, NEW q \in Plan
    PROVE  Adopted(q, p) \in Plan
  BY DEF Adopted, Plan

LEMMA RecheckTyped == ASSUME NEW p \in Plan PROVE Recheck(p) \in Plan
  BY DEF Recheck, Plan, Probes, Ids

LEMMA FingerprintTyped ==
    ASSUME NEW p \in Plan
    PROVE  /\ Fingerprint(p) \in Fingerprints /\ Fingerprint(p).changes = p.changes
           /\ Remembered(Fingerprint(p)) \subseteq {Fingerprint(p)}
           /\ p.changes # {} => Fingerprint(p) = [changes |-> p.changes, probes |-> "engine", manual |-> FALSE]
           /\ p.changes # {} => Remembered(Fingerprint(p)) = {Fingerprint(p)}
  BY DEF Fingerprint, Fingerprints, Plan, Remembered, Probes

LEMMA SeenTyped == world \in World => Seen(world) \in Evidence
  BY DEF World, Seen, Evidence

LEMMA FailedTyped == ASSUME NEW e \in Evidence PROVE Failed(e) \in Evidence
  BY DEF Evidence, Failed

\* What the gate lets through.
LEMMA AttachGates ==
    ASSUME NEW p \in Plan, NEW e \in Evidence, NEW m \in Matches(p)
    PROVE  /\ ~Attach(p, e, m).handled => Attach(p, e, m).changes \subseteq p.changes
           /\ Attach(p, e, m).changes # {} =>
                /\ Attach(p, e, m).skill = m.skill /\ m.skill \in SkillIds /\ Known(m.skill)
                /\ {ActionOf(c) : c \in Attach(p, e, m).changes} \subseteq skills[m.skill].actions \cap Catalog
<1>1. CASE m = NoMatch
      BY <1>1 DEF Attach, Plan
<1>2. CASE m # NoMatch
  <2> DEFINE made == IF Authorised(m) /\ m.skill \in Executable THEN Generated(m.skill, p, e) ELSE {}
             q == IF made = {} THEN p ELSE [(CHOOSE g \in made : TRUE) EXCEPT !.handled = TRUE]
  <2>1. q \in Plan
    <3>1. made \subseteq Plan
          BY GeneratedTyped
    <3>2. made # {} => (CHOOSE g \in made : TRUE) \in Plan
          BY <3>1
    <3> HIDE DEF made
    <3> QED BY <3>2 DEF Plan
  <2>2. ~q.handled => q = p
    <3>1. made \subseteq Plan
          BY GeneratedTyped
    <3>2. made # {} => (CHOOSE g \in made : TRUE) \in Plan
          BY <3>1
    <3> HIDE DEF made
    <3> QED BY <3>2 DEF Plan
  <2>3. Attach(p, e, m) = [q EXCEPT !.skill = m.skill, !.changes = Permitted(q.changes, m)]
        BY <1>2 DEF Attach
  <2> HIDE DEF q
  <2>4. /\ Attach(p, e, m).changes = Permitted(q.changes, m)
        /\ Attach(p, e, m).skill = m.skill /\ Attach(p, e, m).handled = q.handled
        BY <2>1, <2>3 DEF Plan
  <2>5. m.skill \in SkillIds /\ Known(m.skill)
        BY <1>2, MatchTyped
  <2>6. \A c \in Permitted(q.changes, m) : ActionOf(c) \in skills[m.skill].actions \cap Catalog /\ c \in q.changes
        BY DEF Permitted
  <2>7. {ActionOf(c) : c \in Permitted(q.changes, m)} \subseteq skills[m.skill].actions \cap Catalog
        BY <2>6
  <2> QED BY <2>2, <2>4, <2>5, <2>6, <2>7
<1> QED BY <1>1, <1>2

-----------------------------------------------------------------------------
(* The invariant *)

Canonical(changes) == [changes |-> changes, probes |-> "engine", manual |-> FALSE]

\* A strategy under way is the plan's, is remembered, and has not failed yet.
StrategyInv ==
    /\ pc = "route" => strategy.changes = plan.changes
    /\ pc \in {"route", "approve", "verify"} /\ strategy.changes # {} =>
           strategy = Canonical(strategy.changes) /\ strategy \in attempted /\ strategy.changes \notin failures

\* A strategy that failed stays remembered.
FailuresInv == \A f \in failures : f # {} /\ Canonical(f) \in attempted

\* What is approved passed the gate on the evidence it is carried out on.
ApprovedInv ==
    /\ pc \in {"approve", "verify"} => plan.skill \in SkillIds /\ strategy.changes # {}
    /\ pc = "approve" =>
        /\ plan.changes # {} /\ plan.changes \subseteq strategy.changes /\ evidence.ok
        /\ {ActionOf(c) : c \in plan.changes} \subseteq grant \cap Catalog
        /\ ~Contradicted(plan.changes, evidence)

PInv == TypeOK /\ SkillInv /\ StrategyInv /\ FailuresInv /\ ApprovedInv

LEMMA RegistryTyped == SkillInv => RegistryTypeOK
  BY DEF SkillInv

LEMMA PausedKeeps ==
    ASSUME TypeOK, SkillInv', pc' \in {"head", "wait"}, strategy' = NoStrategy, outcome' = "none", grant' = {},
           plan' \in Plan, UNCHANGED <<initial, cycles, worldVars>>, evidence' \in Evidence,
           attempted' \subseteq attempted, spent' \subseteq Changes, failures' \subseteq SUBSET Changes,
           grounds' \subseteq {"closed", "identity", "unmounted", "nonroot", "init"}, FailuresInv'
    PROVE  PInv'
<1>1. TypeOK'
  <2>1. NoStrategy \in Fingerprints
        BY DEF NoStrategy, Fingerprints, Probes
  <2> QED BY <2>1, RegistryTyped DEF TypeOK, SkillInv, worldVars, Evidence
<1>2. StrategyInv' /\ ApprovedInv'
      BY DEF StrategyInv, ApprovedInv
<1> QED BY <1>1, <1>2 DEF PInv

LEMMA ContinueMoves ==
    ASSUME initial \in Plan, NEW p \in Plan, NEW a \in Seq(Plan), Continue(p, a)
    PROVE  /\ pc' \in {"head", "wait"} /\ strategy' = NoStrategy /\ outcome' = "none" /\ grant' = {}
           /\ plan' \in Plan
<1> DEFINE open == {i \in DOMAIN a : Fingerprint(a[i]) \notin attempted}
<1>1. CASE Pause(p)
      BY <1>1, RecheckTyped DEF Pause, Between
<1>2. CASE \E i \in open : Between /\ pc' = "head" /\ plan' = Adopted(a[i], p)
  <2>1. PICK i \in DOMAIN a : Between /\ pc' = "head" /\ plan' = Adopted(a[i], p)
        BY <1>2
  <2>2. a[i] \in Plan
        OBVIOUS
  <2> QED BY <2>1, <2>2, AdoptedTyped DEF Between
<1> QED BY <1>1, <1>2 DEF Continue

LEMMA SkillsRest == SkillInv /\ UNCHANGED skillVars => SkillInv'
<1> SUFFICES ASSUME SkillInv, UNCHANGED skillVars PROVE SkillInv'
    OBVIOUS
<1> QED BY DEF SkillInv, skillVars, RegistryTypeOK, Sound, Live

LEMMA SpeaksTyped == ASSUME NEW e PROVE Speaks(e) \subseteq {"closed", "identity", "unmounted"}
  BY DEF Speaks

LEMMA Starts == Init => PInv
<1> SUFFICES ASSUME Init PROVE PInv
    OBVIOUS
<1>1. PICK s \in Scenes :
        /\ world = [sit |-> s.sit, uid |-> s.uid, image |-> s.image, pod |-> "old", memory |-> s.memory]
        /\ initial = [Proposal(s.changes, "start") EXCEPT !.handled = s.handled]
        /\ \/ pc = "head" /\ edits = s.edits /\ shifts = s.shifts /\ cycles = s.cycles
           \/ pc = "idle" /\ edits = MaxEdits /\ shifts = 0 /\ cycles = 0
      BY DEF Init
<1>2. s \in Scene
      BY PlanningAssumption
<1>3. world \in World
      BY <1>1, <1>2 DEF Scene, World
<1>4. initial \in Plan
      BY <1>1, <1>2, ProposalTyped DEF Scene, Plan, Probes
<1>5. evidence \in Evidence
      BY <1>3, SeenTyped, FailedTyped DEF Init
<1>6. NoStrategy \in Fingerprints
      BY DEF NoStrategy, Fingerprints, Probes
<1>7. edits \in 0 .. MaxEdits /\ shifts \in 0 .. MaxShifts /\ cycles \in 0 .. MaxCycles /\ pc \in {"head", "idle"}
      BY <1>1, <1>2, SkillAssumption, PlanningAssumption DEF Scene
<1>8. SkillInv
      BY <1>7, RegistryStarts DEF Init
<1>9. TypeOK
      BY <1>3, <1>4, <1>5, <1>6, <1>7, <1>8 DEF Init, TypeOK, SkillInv, Evidence
<1>10. StrategyInv /\ FailuresInv /\ ApprovedInv
       BY <1>7 DEF StrategyInv, FailuresInv, ApprovedInv, Init
<1> QED BY <1>8, <1>9, <1>10 DEF PInv

LEMMA TakeStrategyKeeps == PInv /\ TakeStrategy => PInv'
<1> SUFFICES ASSUME PInv, TakeStrategy PROVE PInv'
    OBVIOUS
<1> USE DEF PInv
<1>1. UNCHANGED <<initial, spent, evidence, cycles, worldVars, failures, grounds, skillVars>>
      BY DEF TakeStrategy
<1>2. SkillInv' /\ plan \in Plan
      BY <1>1, SkillsRest DEF TypeOK
<1>3. CASE Pause(plan) /\ UNCHANGED attempted
  <2>1. FailuresInv'
        BY <1>1, <1>3 DEF FailuresInv
  <2>2. plan' \in Plan
        BY <1>2, <1>3, RecheckTyped DEF Pause
  <2> QED BY <1>1, <1>2, <1>3, <2>1, <2>2, PausedKeeps DEF Pause, Between, TypeOK, Evidence
<1>4. CASE /\ Fingerprint(plan) \notin attempted /\ pc' = "route" /\ strategy' = Fingerprint(plan)
           /\ attempted' = attempted \cup Remembered(Fingerprint(plan)) /\ UNCHANGED <<plan, outcome, grant>>
  <2>1. TypeOK'
        BY <1>1, <1>2, <1>4, FingerprintTyped, RegistryTyped DEF TypeOK, worldVars, SkillInv
  <2>2. FailuresInv'
        BY <1>1, <1>4 DEF FailuresInv
  <2>3. StrategyInv'
    <3>1. strategy'.changes = plan.changes
          BY <1>2, <1>4, FingerprintTyped
    <3>2. plan.changes # {} => strategy' = Canonical(plan.changes) /\ strategy' \in attempted'
          BY <1>2, <1>4, FingerprintTyped DEF Canonical
    <3>3. plan.changes # {} => plan.changes \notin failures
          BY <1>4, <3>2 DEF FailuresInv
    <3> QED BY <1>1, <1>4, <3>1, <3>2, <3>3 DEF StrategyInv
  <2>4. ApprovedInv'
        BY <1>4 DEF ApprovedInv
  <2> QED BY <1>2, <2>1, <2>2, <2>3, <2>4
<1> QED BY <1>3, <1>4 DEF TakeStrategy

LEMMA RouteKeeps == PInv /\ Route => PInv'
<1> SUFFICES ASSUME PInv, Route PROVE PInv'
    OBVIOUS
<1> USE DEF PInv
<1>1. /\ pc = "route" /\ plan \in Plan /\ initial \in Plan /\ evidence \in Evidence /\ world \in World
      /\ spent \subseteq Changes /\ SkillInv'
      /\ UNCHANGED <<initial, attempted, cycles, worldVars, failures, skillVars>>
      BY SkillsRest DEF Route, TypeOK, Evidence
<1>2. PICK e \in {Seen(world), Failed(evidence)} :
        /\ evidence' = e /\ grounds' = grounds \cup Speaks(e)
        /\ \/ /\ ~e.ok /\ pc' = "readonly" /\ plan' = [plan EXCEPT !.changes = {}]
              /\ UNCHANGED <<spent, strategy, outcome, grant>>
           \/ /\ e.ok
              /\ \E m \in Matches(plan) :
                   LET q == Attach(plan, e, m)
                       done == spent \cup q.changes
                   IN \/ Replaced(q) /\ Continue(q, <<q>>) /\ spent' = done
                      \/ /\ ~Replaced(q) /\ Contradicted(q.changes, e) /\ spent' = done
                         /\ \E r \in Replans(q, e, Remedy(e.sit), done) : Continue(q, InOrder(r))
                      \/ /\ ~Replaced(q) /\ ~Contradicted(q.changes, e)
                         /\ pc' = (IF q.changes = {} THEN "readonly" ELSE "approve") /\ plan' = q
                         /\ grant' = (IF q.changes = {} THEN {} ELSE skills[m.skill].actions)
                         /\ UNCHANGED <<spent, strategy, outcome>>
      BY Zenon DEF Route
<1>3. e \in Evidence
      BY <1>1, SeenTyped, FailedTyped
<1>4. grounds' \subseteq {"closed", "identity", "unmounted", "nonroot", "init"}
      BY <1>2, SpeaksTyped DEF TypeOK
<1>5. FailuresInv'
      BY <1>1 DEF FailuresInv
\* The plan goes on in this attempt.
<1>6. ASSUME pc' \in {"readonly", "approve"}, plan' \in Plan, grant' \subseteq Actions,
             UNCHANGED <<spent, strategy, outcome>>
      PROVE  TypeOK'
      BY <1>1, <1>2, <1>3, <1>4, <1>6, RegistryTyped DEF TypeOK, SkillInv, worldVars, Evidence
<1>7. CASE ~e.ok /\ pc' = "readonly" /\ plan' = [plan EXCEPT !.changes = {}] /\ UNCHANGED <<spent, strategy, outcome, grant>>
  <2>1. plan' \in Plan
        BY <1>1, <1>7 DEF Plan
  <2>2. TypeOK'
        BY <1>6, <1>7, <2>1 DEF TypeOK
  <2>3. StrategyInv' /\ ApprovedInv'
        BY <1>7 DEF StrategyInv, ApprovedInv
  <2> QED BY <1>1, <1>5, <2>2, <2>3
<1>8. ASSUME e.ok, NEW m \in Matches(plan), NEW q \in Plan, q = Attach(plan, e, m),
             NEW a \in Seq(Plan), Continue(q, a), spent' = spent \cup q.changes
      PROVE  PInv'
  <2>1. /\ pc' \in {"head", "wait"} /\ strategy' = NoStrategy /\ outcome' = "none" /\ grant' = {} /\ plan' \in Plan
        BY <1>1, <1>8, ContinueMoves
  <2>2. spent' \subseteq Changes
        BY <1>1, <1>8 DEF Plan
  <2> QED BY <1>1, <1>2, <1>3, <1>4, <1>5, <2>1, <2>2, PausedKeeps DEF TypeOK
<1>9. ASSUME e.ok, NEW m \in Matches(plan), NEW q \in Plan, q = Attach(plan, e, m),
             ~Replaced(q), ~Contradicted(q.changes, e),
             pc' = (IF q.changes = {} THEN "readonly" ELSE "approve"), plan' = q,
             grant' = (IF q.changes = {} THEN {} ELSE skills[m.skill].actions), UNCHANGED <<spent, strategy, outcome>>
      PROVE  PInv'
  <2>1. q.changes # {} =>
          /\ q.skill = m.skill /\ m.skill \in SkillIds /\ Known(m.skill)
          /\ {ActionOf(c) : c \in q.changes} \subseteq skills[m.skill].actions \cap Catalog
        BY <1>1, <1>3, <1>9, AttachGates
  <2>2. q.changes \subseteq strategy.changes
    <3>1. ~q.handled => q.changes \subseteq plan.changes
          BY <1>1, <1>3, <1>9, AttachGates
    <3> QED BY <1>1, <1>9, <3>1 DEF Replaced, StrategyInv
  <2>3. grant' \subseteq Actions
    <3>1. q.changes # {} => skills[m.skill] \in Skill
          BY <2>1 DEF TypeOK, RegistryTypeOK, Known
    <3> QED BY <1>9, <3>1 DEF Skill
  <2>4. TypeOK'
        BY <1>6, <1>9, <2>3
  <2>5. StrategyInv'
        BY <1>1, <1>9 DEF StrategyInv
  <2>6. ApprovedInv'
    <3>1. CASE q.changes = {}
          BY <1>9, <3>1 DEF ApprovedInv
    <3>2. CASE q.changes # {}
      <4>1. plan' = q /\ pc' = "approve" /\ grant' = skills[m.skill].actions /\ strategy' = strategy /\ evidence' = e
            BY <1>2, <1>9, <3>2
      <4>2. Contradicted(plan.changes, evidence)' = Contradicted(q.changes, e)
            BY <4>1 DEF Contradicted, Proven, Cause
      <4>3. ({ActionOf(c) : c \in plan.changes} \subseteq grant \cap Catalog)'
            BY <2>1, <3>2, <4>1
      <4> QED BY <1>9, <2>1, <2>2, <3>2, <4>1, <4>2, <4>3 DEF ApprovedInv
    <3> QED BY <3>1, <3>2
  <2> QED BY <1>1, <1>5, <2>4, <2>5, <2>6
<1>10. ASSUME e.ok, NEW m \in Matches(plan) PROVE Attach(plan, e, m) \in Plan
       BY <1>1, <1>3, AttachTyped
<1>11. ASSUME NEW q \in Plan, NEW done, NEW r \in Replans(q, e, Remedy(e.sit), done) PROVE InOrder(r) \in Seq(Plan)
  <2>1. r \in SUBSET Plan
        BY <1>3, RemedyTyped, ReplansTyped
  <2> QED BY <2>1, InOrderTyped
<1>12. CASE e.ok
  <2>1. PICK m \in Matches(plan) :
          LET q == Attach(plan, e, m)
              done == spent \cup q.changes
          IN \/ Replaced(q) /\ Continue(q, <<q>>) /\ spent' = done
             \/ /\ ~Replaced(q) /\ Contradicted(q.changes, e) /\ spent' = done
                /\ \E r \in Replans(q, e, Remedy(e.sit), done) : Continue(q, InOrder(r))
             \/ /\ ~Replaced(q) /\ ~Contradicted(q.changes, e)
                /\ pc' = (IF q.changes = {} THEN "readonly" ELSE "approve") /\ plan' = q
                /\ grant' = (IF q.changes = {} THEN {} ELSE skills[m.skill].actions)
                /\ UNCHANGED <<spent, strategy, outcome>>
        BY <1>2, <1>12, Zenon
  <2> DEFINE q == Attach(plan, e, m)
  <2>2. q \in Plan /\ <<q>> \in Seq(Plan)
        BY <1>10, <1>12
  <2>3. q = Attach(plan, e, m)
        OBVIOUS
  <2>4. \/ Continue(q, <<q>>) /\ spent' = spent \cup q.changes
        \/ /\ spent' = spent \cup q.changes
           /\ \E r \in Replans(q, e, Remedy(e.sit), spent \cup q.changes) : Continue(q, InOrder(r))
        \/ /\ ~Replaced(q) /\ ~Contradicted(q.changes, e)
           /\ pc' = (IF q.changes = {} THEN "readonly" ELSE "approve") /\ plan' = q
           /\ grant' = (IF q.changes = {} THEN {} ELSE skills[m.skill].actions)
           /\ UNCHANGED <<spent, strategy, outcome>>
        BY <2>1, Zenon
  <2> HIDE DEF q
  <2> QED BY <1>8, <1>9, <1>11, <1>12, <2>2, <2>3, <2>4
<1> QED BY <1>2, <1>7, <1>12

LEMMA OverKeeps ==
    ASSUME PInv, Over, SkillInv', UNCHANGED <<initial, evidence, cycles, worldVars>>
    PROVE  PInv'
<1>1. NoStrategy \in Fingerprints
      BY DEF NoStrategy, Fingerprints, Probes
<1>2. TypeOK'
      BY <1>1, RegistryTyped DEF PInv, TypeOK, SkillInv, worldVars, Over, Between
<1>3. StrategyInv' /\ FailuresInv' /\ ApprovedInv'
      BY DEF StrategyInv, FailuresInv, ApprovedInv, Over
<1> QED BY <1>2, <1>3 DEF PInv

LEMMA ReadOnlyKeeps == PInv /\ ReadOnly => PInv'
<1> SUFFICES ASSUME PInv, ReadOnly PROVE PInv'
    OBVIOUS
<1>1. SkillInv' /\ UNCHANGED <<initial, evidence, cycles, worldVars>>
      BY SkillsRest DEF PInv, ReadOnly
<1>2. CASE Over
      BY <1>1, <1>2, OverKeeps
<1>3. CASE /\ \E r \in Planned(plan, evidence, spent) : Continue(plan, InOrder(r))
           /\ UNCHANGED <<attempted, spent, failures, grounds>>
  <2>1. PICK r \in Planned(plan, evidence, spent) : Continue(plan, InOrder(r))
        BY <1>3
  <2>2. plan \in Plan /\ initial \in Plan /\ evidence \in Evidence
        BY DEF PInv, TypeOK, Evidence
  <2>3. InOrder(r) \in Seq(Plan)
        BY <2>2, PlannedTyped, InOrderTyped
  <2>4. pc' \in {"head", "wait"} /\ strategy' = NoStrategy /\ outcome' = "none" /\ grant' = {} /\ plan' \in Plan
        BY <2>1, <2>2, <2>3, ContinueMoves
  <2>5. FailuresInv'
        BY <1>3 DEF PInv, FailuresInv
  <2> QED BY <1>1, <1>3, <2>2, <2>4, <2>5, PausedKeeps DEF PInv, TypeOK
<1> QED BY <1>2, <1>3 DEF ReadOnly

LEMMA LandedTyped ==
    ASSUME NEW w \in World, NEW c
    PROVE  Landed(w, c) \in World
  BY DEF World, Landed, Ids

LEMMA SubmitKeeps == PInv /\ Submit => PInv'
<1> SUFFICES ASSUME PInv, Submit PROVE PInv'
    OBVIOUS
<1>1. /\ SkillInv' /\ pc = "approve" /\ pc' = "verify"
      /\ UNCHANGED <<initial, plan, strategy, attempted, spent, evidence, cycles, shifts, historyVars, skillVars>>
      BY SkillsRest DEF PInv, Submit
<1>2. outcome' \in {"applied", "rejected", "channel"} /\ world' \in World
      BY LandedTyped DEF PInv, TypeOK, Submit
<1>3. TypeOK'
      BY <1>1, <1>2, RegistryTyped DEF PInv, TypeOK, SkillInv, historyVars
<1>4. StrategyInv' /\ FailuresInv' /\ ApprovedInv'
      BY <1>1 DEF PInv, StrategyInv, FailuresInv, ApprovedInv, historyVars
<1> QED BY <1>1, <1>3, <1>4 DEF PInv

\* Taking a strategy back forgets no strategy that failed.
LEMMA TakenBackForgets ==
    ASSUME PInv, pc = "verify", attempted' = attempted \ {strategy}, failures' = failures
    PROVE  FailuresInv'
<1>1. strategy = Canonical(strategy.changes) /\ strategy.changes \notin failures
      BY DEF PInv, StrategyInv, ApprovedInv
<1>2. \A f : Canonical(f).changes = f
      BY DEF Canonical
<1> QED BY <1>1, <1>2 DEF PInv, FailuresInv

LEMMA RecoveredKeeps == PInv /\ Recovered => PInv'
<1> SUFFICES ASSUME PInv, Recovered PROVE PInv'
    OBVIOUS
<1>1. SkillInv'
  <2>1. PICK s \in Candidates : LearnSkill(s, {ActionOf(c) : c \in plan.changes})
        BY DEF Recovered
  <2>2. {ActionOf(c) : c \in plan.changes} \in SUBSET Actions
    <3>1. plan.changes \subseteq Changes
          BY DEF PInv, TypeOK, Plan
    <3>2. {ActionOf(c) : c \in Changes} \subseteq Actions
          BY PlanningAssumption
    <3> QED BY <3>1, <3>2
  <2>3. edits' \in 0 .. MaxEdits
        BY DEF Recovered, PInv, SkillInv, RegistryTypeOK
  <2> QED BY <2>1, <2>2, <2>3, LearnKeeps DEF PInv
<1>2. pc = "verify" /\ UNCHANGED <<initial, evidence, cycles, worldVars>>
      BY DEF Recovered
<1>3. CASE Over
      BY <1>1, <1>2, <1>3, OverKeeps
<1>4. CASE /\ Pause([plan EXCEPT !.tried = @ \cup {plan.skill}])
           /\ IF TakenBack(outcome)
              THEN attempted' = attempted \ {strategy} /\ UNCHANGED spent
              ELSE spent' = spent \cup plan.changes /\ UNCHANGED attempted
           /\ UNCHANGED <<failures, grounds>>
  <2>1. plan \in Plan /\ plan.skill \in SkillIds
        BY <1>2 DEF PInv, TypeOK, ApprovedInv
  <2>2. [plan EXCEPT !.tried = @ \cup {plan.skill}] \in Plan
        BY <2>1 DEF Plan
  <2>3. pc' \in {"head", "wait"} /\ strategy' = NoStrategy /\ outcome' = "none" /\ grant' = {} /\ plan' \in Plan
        BY <1>4, <2>2, RecheckTyped DEF Pause, Between
  <2>4. spent' \subseteq Changes /\ attempted' \subseteq attempted
        BY <1>4, <2>1 DEF PInv, TypeOK, Plan
  <2>5. FailuresInv'
    <3>1. CASE attempted' = attempted \ {strategy}
          BY <1>2, <1>4, <3>1, TakenBackForgets
    <3>2. CASE attempted' = attempted
          BY <1>4, <3>2 DEF PInv, FailuresInv
    <3> QED BY <1>4, <3>1, <3>2
  <2> QED BY <1>1, <1>2, <1>4, <2>3, <2>4, <2>5, PausedKeeps DEF PInv, TypeOK, Evidence
<1> QED BY <1>3, <1>4 DEF Recovered

LEMMA UnresolvedKeeps == PInv /\ Unresolved => PInv'
<1> SUFFICES ASSUME PInv, Unresolved PROVE PInv'
    OBVIOUS
<1>1. /\ SkillInv' /\ pc = "verify" /\ UNCHANGED <<initial, cycles, worldVars>>
      /\ plan \in Plan /\ plan.skill \in SkillIds /\ initial \in Plan /\ evidence \in Evidence /\ world \in World
      /\ spent \subseteq Changes /\ strategy.changes \in SUBSET Changes /\ strategy.changes # {}
      BY SkillsRest DEF Unresolved, PInv, TypeOK, ApprovedInv, Evidence, Fingerprints
<1>2. PICK e \in {Seen(world), evidence} :
        /\ evidence' = e
        /\ grounds' = grounds \cup Speaks(e) \cup (plan.changes \cap {"nonroot", "init"})
        /\ failures' = IF outcome = "channel" THEN failures ELSE failures \cup {strategy.changes}
        /\ IF TakenBack(outcome)
           THEN /\ Pause(AfterFailure) /\ attempted' = attempted \ {strategy}
                /\ UNCHANGED spent
           ELSE /\ spent' = spent \cup plan.changes
                /\ \E a \in Alternatives(AfterFailure, e, spent') : Continue(AfterFailure, a)
                /\ UNCHANGED attempted
      BY Zenon DEF Unresolved
<1>3. e \in Evidence
      BY <1>1, SeenTyped
<1>4. AfterFailure \in Plan
  <2>1. Identity(world) \in Ids /\ "none" \in Ids
        BY <1>1 DEF World, Identity, Ids
  <2> QED BY <1>1, <2>1 DEF AfterFailure, Plan
<1>5. grounds' \subseteq {"closed", "identity", "unmounted", "nonroot", "init"}
      BY <1>2, SpeaksTyped DEF PInv, TypeOK
<1>6. failures' \subseteq SUBSET Changes
      BY <1>1, <1>2 DEF PInv, TypeOK
<1>7. CASE TakenBack(outcome)
  <2>1. attempted' = attempted \ {strategy} /\ failures' = failures
        BY <1>2, <1>7 DEF TakenBack
  <2>2. FailuresInv'
        BY <1>1, <2>1, TakenBackForgets
  <2>3. pc' \in {"head", "wait"} /\ strategy' = NoStrategy /\ outcome' = "none" /\ grant' = {} /\ plan' \in Plan
        BY <1>2, <1>4, <1>7, RecheckTyped DEF Pause, Between
  <2>4. spent' = spent
        BY <1>2, <1>7
  <2> QED BY <1>1, <1>2, <1>3, <1>5, <1>6, <2>1, <2>2, <2>3, <2>4, PausedKeeps DEF PInv
<1>8. CASE ~TakenBack(outcome)
  <2>1. /\ spent' = spent \cup plan.changes /\ UNCHANGED attempted
        /\ \E a \in Alternatives(AfterFailure, e, spent') : Continue(AfterFailure, a)
        BY <1>2, <1>8
  <2>2. PICK a \in Seq(Plan) : Continue(AfterFailure, a)
        BY <1>3, <1>4, <2>1, AlternativesTyped
  <2>3. pc' \in {"head", "wait"} /\ strategy' = NoStrategy /\ outcome' = "none" /\ grant' = {} /\ plan' \in Plan
        BY <1>1, <1>4, <2>2, ContinueMoves
  <2>4. spent' \subseteq Changes
        BY <1>1, <2>1 DEF Plan
  <2>5. FailuresInv'
    <3>1. Canonical(strategy.changes) \in attempted
          BY <1>1 DEF PInv, StrategyInv
    <3>2. failures' \subseteq failures \cup {strategy.changes}
          BY <1>2
    <3> QED BY <1>1, <2>1, <3>1, <3>2 DEF PInv, FailuresInv
  <2>6. attempted' \subseteq attempted
        BY <2>1
  <2> QED BY <1>1, <1>2, <1>3, <1>5, <1>6, <2>3, <2>4, <2>5, <2>6, PausedKeeps DEF PInv
<1> QED BY <1>7, <1>8

\* Steps that leave the job and what it remembers alone.
LEMMA QuietKeeps ==
    ASSUME PInv, SkillInv', world' \in World, shifts' \in 0 .. MaxShifts, UNCHANGED <<jobVars, historyVars>>
    PROVE  PInv'
<1>1. TypeOK'
      BY RegistryTyped DEF PInv, TypeOK, SkillInv, jobVars, historyVars
<1>2. StrategyInv' /\ FailuresInv'
      BY DEF PInv, StrategyInv, FailuresInv, jobVars, historyVars
<1>3. ApprovedInv'
      BY DEF PInv, ApprovedInv, jobVars, historyVars, Contradicted, Proven, Cause
<1> QED BY <1>1, <1>2, <1>3 DEF PInv

LEMMA RestKeeps == PInv /\ (NextCycle \/ Cancel \/ Shift \/ RegistryMoves \/ UNCHANGED vars) => PInv'
<1> SUFFICES ASSUME PInv, NextCycle \/ Cancel \/ Shift \/ RegistryMoves \/ UNCHANGED vars PROVE PInv'
    OBVIOUS
<1>1. CASE NextCycle
  <2>1. SkillInv'
        BY <1>1, SkillsRest DEF NextCycle, PInv
  <2>2. TypeOK'
        BY <1>1, <2>1, RegistryTyped, PlanningAssumption DEF NextCycle, PInv, TypeOK, SkillInv, worldVars, historyVars
  <2>3. StrategyInv' /\ FailuresInv' /\ ApprovedInv'
        BY <1>1 DEF NextCycle, PInv, StrategyInv, FailuresInv, ApprovedInv, historyVars
  <2> QED BY <2>1, <2>2, <2>3 DEF PInv
<1>2. CASE Cancel
      BY <1>2, SkillsRest, OverKeeps DEF Cancel, PInv
<1>3. CASE Shift
  <2>1. world' \in World /\ shifts' \in 0 .. MaxShifts
        BY <1>3, PlanningAssumption DEF Shift, PInv, TypeOK, World
  <2> QED BY <1>3, <2>1, SkillsRest, QuietKeeps DEF Shift, PInv
<1>4. CASE RegistryMoves
  <2>1. SkillInv'
        BY <1>4, OperatorEditsKeep, OthersKeep, RestartKeeps DEF RegistryMoves, PInv
  <2> QED BY <1>4, <2>1, QuietKeeps DEF RegistryMoves, PInv, TypeOK, worldVars
<1>5. CASE UNCHANGED vars
      BY <1>5, SkillsRest, QuietKeeps DEF vars, PInv, TypeOK, worldVars
<1> QED BY <1>1, <1>2, <1>3, <1>4, <1>5

LEMMA Invariant == Spec => []PInv
<1>1. PInv /\ [Next]_vars => PInv'
      BY TakeStrategyKeeps, RouteKeeps, ReadOnlyKeeps, SubmitKeeps, RecoveredKeeps, UnresolvedKeeps, RestKeeps
         DEF Next, JobMoves
<1> QED BY Starts, <1>1, PTL DEF Spec

-----------------------------------------------------------------------------
(* The ladder *)

\* What a root patch has to rest on, and how a plan and evidence that rest on
\* it are told: mem and G are the memory and the grounds so far.
Earned(mem, G) ==
    \/ mem \/ G \cap {"closed", "identity", "init"} # {}
    \/ {"nonroot", "unmounted"} \subseteq G
Fits(p, mem, G) ==
    /\ p.failed \cap {"nonroot", "init"} \subseteq G
    /\ "root" \in p.changes \ (initial.changes \cup ModelChanges) => Earned(mem, G)
Spoken(e, mem, G) == Speaks(e) \subseteq G /\ (e.memory => mem)

\* The one place a root patch comes from.
LEMMA LadderFits ==
    ASSUME NEW mem \in BOOLEAN, NEW G, NEW p \in Plan, NEW e \in Evidence, Spoken(e, mem, G), Fits(p, mem, G)
    PROVE  Fits(Ladder(p, e), mem, G) /\ Ladder(p, e).failed = p.failed
<1> DEFINE uid == IF e.uid # "none" THEN e.uid ELSE p.identity
           force == e.memory \/ Write(e) = "closed"
           probed == p.failed \cap {"probe", "reprobe"} # {}
           grouped == p.failed \cap {"nonroot", "init"} # {}
           step == IF ~force /\ uid # "user" /\ ~probed THEN {IF e.pod = "old" THEN "probe" ELSE "reprobe"}
                   ELSE IF ~force /\ uid = "user" /\ ~grouped THEN {"nonroot"}
                   ELSE IF ~force /\ uid = "user" /\ e.sit.mount /\ "init" \notin p.failed THEN {"init"}
                   ELSE {"root"} \ p.failed
<1>1. force => Earned(mem, G)
      BY DEF Spoken, Speaks, Earned
<1>2. uid # "user" => Earned(mem, G)
  <2>1. uid # "user" => e.uid # "user"
        OBVIOUS
  <2>2. e.uid # "user" => "identity" \in Speaks(e)
        BY DEF Speaks
  <2> QED BY <2>1, <2>2 DEF Spoken, Earned
<1>3. "init" \in p.failed => Earned(mem, G)
      BY DEF Fits, Earned
<1>4. grouped /\ ~e.sit.mount => Earned(mem, G)
  <2>1. ~e.sit.mount => "unmounted" \in Speaks(e)
        BY DEF Speaks
  <2> QED BY <2>1 DEF Spoken, Fits, Earned
<1>5. "root" \in step => Earned(mem, G)
  <2> HIDE DEF uid, force, grouped, probed
  <2>1. "root" \in step => force \/ uid # "user" \/ (grouped /\ (~e.sit.mount \/ "init" \in p.failed))
        OBVIOUS
  <2> QED BY <1>1, <1>2, <1>3, <1>4, <2>1
<1>6. Ladder(p, e) = [p EXCEPT !.changes = step, !.probes = IF step = {} THEN "admin" ELSE "stage",
                               !.manual = p.manual \/ step = {}]
      BY DEF Ladder
<1> HIDE DEF step
<1>7. Ladder(p, e).changes = step /\ Ladder(p, e).failed = p.failed
      BY <1>6 DEF Plan
<1> QED BY <1>5, <1>7 DEF Fits

LEMMA HandlersFit ==
    ASSUME NEW mem \in BOOLEAN, NEW G, NEW p \in Plan, NEW e \in Evidence, Spoken(e, mem, G), Fits(p, mem, G)
    PROVE  /\ \A q \in VolumeHandler(p, e) : Fits(q, mem, G)
           /\ \A q \in PvcHandler(p, e) : Fits(q, mem, G)
           /\ \A s : \A q \in Generated(s, p, e) : Fits(q, mem, G)
<1>1. ASSUME NEW q \in VolumeHandler(p, e) PROVE Fits(q, mem, G)
  <2>1. CASE q = [p EXCEPT !.changes = {}, !.probes = "mounts", !.skill = PermissionSkill]
        BY <2>1 DEF Fits, Plan
  <2>2. CASE q = [Ladder(p, e) EXCEPT !.skill = PermissionSkill]
    <3>1. q.changes = Ladder(p, e).changes /\ q.failed = Ladder(p, e).failed
          BY <2>2, LadderTyped DEF Plan
    <3> QED BY <3>1, LadderFits DEF Fits
  <2> QED BY <2>1, <2>2 DEF VolumeHandler
<1>2. ASSUME NEW q \in PvcHandler(p, e) PROVE Fits(q, mem, G)
  <2>1. q = [p EXCEPT !.changes = Remedy(e.sit), !.probes = "storage", !.skill = StorageSkill]
        BY DEF PvcHandler
  <2>2. q.changes = Remedy(e.sit) /\ q.failed = p.failed
        BY <2>1 DEF Plan
  <2>3. "root" \notin Remedy(e.sit)
        BY DEF Remedy
  <2> QED BY <2>2, <2>3 DEF Fits
<1> QED BY <1>1, <1>2 DEF Generated

LEMMA AttachFits ==
    ASSUME NEW mem \in BOOLEAN, NEW G, NEW p \in Plan, NEW e \in Evidence, Spoken(e, mem, G), Fits(p, mem, G),
           NEW m \in Matches(p)
    PROVE  Fits(Attach(p, e, m), mem, G)
<1>1. CASE m = NoMatch
      BY <1>1 DEF Attach, Fits, Plan
<1>2. CASE m # NoMatch
  <2> DEFINE made == IF Authorised(m) /\ m.skill \in Executable THEN Generated(m.skill, p, e) ELSE {}
             q == IF made = {} THEN p ELSE [(CHOOSE g \in made : TRUE) EXCEPT !.handled = TRUE]
  <2>1. q \in Plan /\ Fits(q, mem, G)
    <3>1. made \subseteq Plan /\ \A g \in made : Fits(g, mem, G)
          BY GeneratedTyped, HandlersFit
    <3>2. made # {} => (CHOOSE g \in made : TRUE) \in Plan /\ Fits(CHOOSE g \in made : TRUE, mem, G)
          BY <3>1
    <3> HIDE DEF made
    <3> QED BY <3>2 DEF Plan, Fits
  <2>2. Attach(p, e, m) = [q EXCEPT !.skill = m.skill, !.changes = Permitted(q.changes, m)]
        BY <1>2 DEF Attach
  <2> HIDE DEF q
  <2>3. Attach(p, e, m).changes \subseteq q.changes /\ Attach(p, e, m).failed = q.failed
        BY <2>1, <2>2 DEF Plan, Permitted
  <2> QED BY <2>1, <2>3 DEF Fits
<1> QED BY <1>1, <1>2

LEMMA AttachedFit ==
    ASSUME NEW mem \in BOOLEAN, NEW G, NEW p \in Plan, NEW e \in Evidence, Spoken(e, mem, G), Fits(p, mem, G),
           NEW q \in Attached(p, e)
    PROVE  Fits(q, mem, G)
  BY AttachFits DEF Attached

\* The engine has no root patch to offer; the model may.
LEMMA ReplansFit ==
    ASSUME NEW mem \in BOOLEAN, NEW G, NEW p \in Plan, NEW e \in Evidence, Spoken(e, mem, G), Fits(p, mem, G),
           NEW offered \in SUBSET Changes, "root" \in offered => "root" \in ModelChanges,
           NEW done, NEW r \in Replans(p, e, offered, done), NEW q \in r
    PROVE  Fits(q, mem, G)
<1>1. ASSUME NEW c \in Offered(offered, e, done), NEW a \in Attached(Proposal({c}, "engine"), e)
      PROVE  Fits(a, mem, G)
  <2>1. c \in offered
        BY <1>1 DEF Offered
  <2>2. Proposal({c}, "engine") \in Plan
        BY <2>1, ProposalTyped DEF Probes
  <2>3. Fits(Proposal({c}, "engine"), mem, G)
        BY <2>1 DEF Fits, Proposal
  <2> QED BY <1>1, <2>2, <2>3, AttachedFit
<1>2. q \in VolumeHandler(p, e) \/ q \in PvcHandler(p, e)
      \/ \E c \in Offered(offered, e, done) : q \in Attached(Proposal({c}, "engine"), e)
      BY DEF Replans
<1> QED BY <1>1, <1>2, HandlersFit

LEMMA PlannedFit ==
    ASSUME NEW mem \in BOOLEAN, NEW G, NEW p \in Plan, NEW e \in Evidence, Spoken(e, mem, G), Fits(p, mem, G),
           NEW done, NEW r \in Planned(p, e, done), NEW q \in r
    PROVE  Fits(q, mem, G)
<1>1. /\ ModelChanges \in SUBSET Changes /\ Remedy(e.sit) \in SUBSET Changes
      /\ "root" \notin Remedy(e.sit)
      BY PlanningAssumption, RemedyTyped DEF Remedy
<1>2. PICK o \in {ModelChanges, Remedy(e.sit)} : r \in Replans(p, e, o, done)
      BY DEF Planned
<1>3. o \in SUBSET Changes /\ ("root" \in o => "root" \in ModelChanges)
      BY <1>1
<1> QED BY <1>2, <1>3, ReplansFit

LEMMA DerivedFits ==
    ASSUME NEW mem \in BOOLEAN, NEW G, NEW p \in Plan, NEW e \in Evidence, Spoken(e, mem, G), Fits(p, mem, G)
    PROVE  Fits(Derived(p, e), mem, G)
<1>1. \A c, k : "root" \notin c => Fits(Proposal(c, k), mem, G)
      BY DEF Fits, Proposal
<1>2. VolumeHandler(p, e) # {} => Fits(CHOOSE q \in VolumeHandler(p, e) : TRUE, mem, G)
      BY HandlersFit
<1>3. \/ VolumeHandler(p, e) # {} /\ Derived(p, e) = CHOOSE q \in VolumeHandler(p, e) : TRUE
      \/ \E c \in {{"restart"}, {"tune"}, {}}, k \in {"engine", "deep"} : Derived(p, e) = Proposal(c, k)
      BY DEF Derived
<1> QED BY <1>1, <1>2, <1>3

LEMMA AlternativesFit ==
    ASSUME NEW mem \in BOOLEAN, NEW G, NEW p \in Plan, NEW e \in Evidence, Spoken(e, mem, G), Fits(p, mem, G),
           NEW done, NEW x \in Alternatives(p, e, done), NEW i \in DOMAIN x
    PROVE  Fits(x[i], mem, G)
<1>1. PICK r \in Planned(p, e, done) :
        \/ \E a \in UNION {Attached(q, e) : q \in r}, b \in Attached(Derived(p, e), e) : x = <<a, b>>
        \/ \E b \in Attached(Derived(p, e), e) : x = <<b>>
      BY DEF Alternatives
<1>2. ASSUME NEW b \in Attached(Derived(p, e), e) PROVE Fits(b, mem, G)
      BY DerivedTyped, DerivedFits, AttachedFit
<1>3. ASSUME NEW q \in r, NEW a \in Attached(q, e) PROVE Fits(a, mem, G)
  <2>1. q \in Plan
        BY PlannedTyped
  <2>2. Fits(q, mem, G)
        BY PlannedFit
  <2> QED BY <1>3, <2>1, <2>2, AttachedFit
<1>4. CASE \E b \in Attached(Derived(p, e), e) : x = <<b>>
      BY <1>2, <1>4
<1>5. CASE \E a \in UNION {Attached(q, e) : q \in r}, b \in Attached(Derived(p, e), e) : x = <<a, b>>
      BY <1>2, <1>3, <1>5
<1> QED BY <1>1, <1>4, <1>5

LEMMA ContinueFits ==
    ASSUME initial \in Plan, NEW mem \in BOOLEAN, NEW G, NEW p \in Plan, Fits(p, mem, G),
           NEW a \in Seq(Plan), \A i \in DOMAIN a : Fits(a[i], mem, G), Continue(p, a)
    PROVE  /\ plan'.failed \cap {"nonroot", "init"} \subseteq G
           /\ "root" \in plan'.changes \ (initial.changes \cup ModelChanges) => Earned(mem, G)
<1>1. CASE plan' = Recheck(p)
      BY <1>1 DEF Recheck, Plan
<1>2. ASSUME NEW i \in DOMAIN a, plan' = Adopted(a[i], p)
      PROVE  plan'.failed = p.failed /\ plan'.changes = a[i].changes
  <2>1. a[i] \in Plan
        OBVIOUS
  <2> QED BY <1>2, <2>1 DEF Adopted, Plan
<1>3. plan' = Recheck(p) \/ \E i \in DOMAIN a : plan' = Adopted(a[i], p)
      BY DEF Continue, Pause
<1> QED BY <1>1, <1>2, <1>3 DEF Fits

\* The plan rests on what has spoken so far, and so does the evidence once it
\* was routed.
GroundsInv ==
    /\ initial.failed = {} /\ evidence.memory = world.memory
    /\ Fits(plan, world.memory, grounds)
    /\ pc \in {"readonly", "approve", "verify"} => Speaks(evidence) \subseteq grounds

LEMMA InOrderFits ==
    ASSUME NEW mem, NEW G, NEW r, \A q \in r : Fits(q, mem, G)
    PROVE  \A i \in DOMAIN InOrder(r) : Fits(InOrder(r)[i], mem, G)
<1>1. CASE r = {}
      BY <1>1 DEF InOrder
<1>2. CASE r # {}
  <2>1. Fits(CHOOSE q \in r : TRUE, mem, G)
        BY <1>2
  <2>2. DOMAIN InOrder(r) = {1} /\ InOrder(r)[1] = CHOOSE q \in r : TRUE
        BY <1>2 DEF InOrder
  <2> QED BY <2>1, <2>2
<1> QED BY <1>1, <1>2

\* More grounds take nothing back.
LEMMA GroundsGrow ==
    ASSUME NEW mem, NEW G, NEW H, G \subseteq H, NEW p, Fits(p, mem, G)
    PROVE  Fits(p, mem, H)
  BY DEF Fits, Earned

LEMMA GroundsStart == Init => GroundsInv
<1> SUFFICES ASSUME Init PROVE GroundsInv
    OBVIOUS
<1>1. PICK s \in Scenes :
        /\ world = [sit |-> s.sit, uid |-> s.uid, image |-> s.image, pod |-> "old", memory |-> s.memory]
        /\ initial = [Proposal(s.changes, "start") EXCEPT !.handled = s.handled]
        /\ pc \in {"head", "idle"}
      BY DEF Init
<1>2. initial.failed = {}
      BY <1>1 DEF Proposal
<1> QED BY <1>1, <1>2 DEF Init, GroundsInv, Fits, Failed, Seen

\* Steps that leave plan, grounds and evidence alone, and those that pause.
LEMMA GroundsRest ==
    ASSUME GroundsInv, initial' = initial, world'.memory = world.memory, evidence' = evidence, grounds' = grounds,
           plan' = plan, pc' \in {"readonly", "approve", "verify"} => pc \in {"readonly", "approve", "verify"}
    PROVE  GroundsInv'
<1>1. Speaks(evidence)' = Speaks(evidence)
      BY DEF Speaks, Write
<1> QED BY <1>1 DEF GroundsInv, Fits

LEMMA GroundsPause ==
    ASSUME GroundsInv, initial' = initial, world'.memory = world.memory, evidence' = evidence, grounds' = grounds,
           NEW p \in Plan, Pause(p)
    PROVE  GroundsInv'
<1>1. plan'.changes = {} /\ plan'.failed = {} /\ pc' = "wait"
      BY DEF Pause, Recheck, Plan
<1> QED BY <1>1 DEF GroundsInv, Fits

LEMMA GroundsOver ==
    ASSUME GroundsInv, Over, UNCHANGED <<initial, evidence, worldVars>>
    PROVE  GroundsInv'
  BY DEF GroundsInv, Fits, Over, worldVars

LEMMA RouteGrounds == PInv /\ GroundsInv /\ Route => GroundsInv'
<1> SUFFICES ASSUME PInv, GroundsInv, Route PROVE GroundsInv'
    OBVIOUS
<1>1. /\ plan \in Plan /\ initial \in Plan /\ evidence \in Evidence /\ world \in World
      /\ UNCHANGED <<initial, world>>
      BY DEF Route, PInv, TypeOK, Evidence, worldVars
<1>2. PICK e \in {Seen(world), Failed(evidence)} :
        /\ evidence' = e /\ grounds' = grounds \cup Speaks(e)
        /\ \/ ~e.ok /\ plan' = [plan EXCEPT !.changes = {}]
           \/ \E m \in Matches(plan) :
                LET q == Attach(plan, e, m)
                    done == spent \cup q.changes
                IN \/ Continue(q, <<q>>)
                   \/ \E r \in Replans(q, e, Remedy(e.sit), done) : Continue(q, InOrder(r))
                   \/ plan' = q
      BY Zenon DEF Route
<1> DEFINE mem == world.memory
           G == grounds \cup Speaks(e)
<1>3. e \in Evidence /\ e.memory = world.memory /\ mem \in BOOLEAN
      BY <1>1, SeenTyped, FailedTyped DEF GroundsInv, Seen, Failed, World, Evidence
<1>4. Spoken(e, mem, G) /\ Fits(plan, mem, G)
      BY <1>3, GroundsGrow DEF Spoken, GroundsInv
<1> HIDE DEF mem, G
<1>5. /\ plan'.failed \cap {"nonroot", "init"} \subseteq G
      /\ "root" \in plan'.changes \ (initial.changes \cup ModelChanges) => Earned(mem, G)
  <2>1. CASE plan' = [plan EXCEPT !.changes = {}]
        BY <1>1, <1>4, <2>1 DEF Fits, Plan
  <2>2. ASSUME NEW m \in Matches(plan), NEW q, q = Attach(plan, e, m),
               \/ Continue(q, <<q>>)
               \/ \E r \in Replans(q, e, Remedy(e.sit), spent \cup q.changes) : Continue(q, InOrder(r))
               \/ plan' = q
        PROVE  /\ plan'.failed \cap {"nonroot", "init"} \subseteq G
               /\ "root" \in plan'.changes \ (initial.changes \cup ModelChanges) => Earned(mem, G)
    <3>1. q \in Plan /\ Fits(q, mem, G)
          BY <1>1, <1>3, <1>4, <2>2, AttachTyped, AttachFits
    <3>2. CASE Continue(q, <<q>>)
      <4>1. <<q>> \in Seq(Plan) /\ \A i \in DOMAIN <<q>> : Fits(<<q>>[i], mem, G)
            BY <3>1
      <4> QED BY <1>1, <1>3, <3>1, <3>2, <4>1, ContinueFits
    <3>3. CASE \E r \in Replans(q, e, Remedy(e.sit), spent \cup q.changes) : Continue(q, InOrder(r))
      <4>1. PICK r \in Replans(q, e, Remedy(e.sit), spent \cup q.changes) : Continue(q, InOrder(r))
            BY <3>3
      <4>2. Remedy(e.sit) \in SUBSET Changes /\ "root" \notin Remedy(e.sit)
            BY RemedyTyped DEF Remedy
      <4>3. InOrder(r) \in Seq(Plan)
            BY <1>3, <3>1, <4>2, ReplansTyped, InOrderTyped
      <4>4. \A a \in r : Fits(a, mem, G)
            BY <1>3, <1>4, <3>1, <4>2, ReplansFit
      <4> QED BY <1>1, <1>3, <3>1, <4>1, <4>3, <4>4, InOrderFits, ContinueFits
    <3>4. CASE plan' = q
          BY <3>1, <3>4 DEF Fits
    <3> QED BY <2>2, <3>2, <3>3, <3>4
  <2> QED BY <1>2, <2>1, <2>2, Zenon
<1>6. Speaks(evidence)' \subseteq grounds'
      BY <1>2 DEF Speaks, Write
<1> QED BY <1>1, <1>2, <1>3, <1>5, <1>6 DEF GroundsInv, Fits, G, mem

LEMMA ReplanGrounds ==
    ASSUME PInv, GroundsInv, NEW e \in Evidence, NEW p \in Plan, NEW a \in Seq(Plan), Continue(p, a),
           NEW G, grounds' = G, Fits(p, world.memory, G), \A i \in DOMAIN a : Fits(a[i], world.memory, G),
           evidence' = e, e.memory = world.memory, UNCHANGED <<initial, world>>
    PROVE  GroundsInv'
<1>1. initial \in Plan /\ world.memory \in BOOLEAN
      BY DEF PInv, TypeOK, World
<1>2. pc' \in {"head", "wait"}
      BY <1>1, ContinueMoves
<1>3. /\ plan'.failed \cap {"nonroot", "init"} \subseteq G
      /\ "root" \in plan'.changes \ (initial.changes \cup ModelChanges) => Earned(world.memory, G)
      BY <1>1, ContinueFits
<1> QED BY <1>2, <1>3 DEF GroundsInv, Fits

LEMMA ReadOnlyGrounds == PInv /\ GroundsInv /\ ReadOnly => GroundsInv'
<1> SUFFICES ASSUME PInv, GroundsInv, ReadOnly PROVE GroundsInv'
    OBVIOUS
<1>1. /\ plan \in Plan /\ evidence \in Evidence /\ world.memory \in BOOLEAN
      /\ pc = "readonly" /\ UNCHANGED <<initial, evidence, world, worldVars>>
      BY DEF ReadOnly, PInv, TypeOK, Evidence, World, worldVars
<1>2. CASE Over
      BY <1>1, <1>2, GroundsOver
<1>3. CASE (\E r \in Planned(plan, evidence, spent) : Continue(plan, InOrder(r))) /\ UNCHANGED grounds
  <2>1. PICK r \in Planned(plan, evidence, spent) : Continue(plan, InOrder(r))
        BY <1>3
  <2>2. Spoken(evidence, world.memory, grounds) /\ Fits(plan, world.memory, grounds)
        BY <1>1 DEF GroundsInv, Spoken
  <2>3. InOrder(r) \in Seq(Plan)
        BY <1>1, PlannedTyped, InOrderTyped
  <2>4. \A q \in r : Fits(q, world.memory, grounds)
        BY <1>1, <2>2, PlannedFit
  <2>5. \A i \in DOMAIN InOrder(r) : Fits(InOrder(r)[i], world.memory, grounds)
        BY <2>4, InOrderFits
  <2> QED BY <1>1, <1>3, <2>1, <2>2, <2>3, <2>5, ReplanGrounds DEF GroundsInv
<1> QED BY <1>2, <1>3 DEF ReadOnly

LEMMA UnresolvedGrounds == PInv /\ GroundsInv /\ Unresolved => GroundsInv'
<1> SUFFICES ASSUME PInv, GroundsInv, Unresolved PROVE GroundsInv'
    OBVIOUS
<1>1. /\ plan \in Plan /\ plan.skill \in SkillIds /\ initial \in Plan /\ evidence \in Evidence /\ world \in World
      /\ UNCHANGED <<initial, world>>
      BY DEF Unresolved, PInv, TypeOK, ApprovedInv, Evidence, worldVars
<1>2. PICK e \in {Seen(world), evidence} :
        /\ evidence' = e
        /\ grounds' = grounds \cup Speaks(e) \cup (plan.changes \cap {"nonroot", "init"})
        /\ Pause(AfterFailure) \/ \E a \in Alternatives(AfterFailure, e, spent') : Continue(AfterFailure, a)
      BY Zenon DEF Unresolved
<1> DEFINE G == grounds \cup Speaks(e) \cup (plan.changes \cap {"nonroot", "init"})
<1>3. e \in Evidence /\ e.memory = world.memory /\ world.memory \in BOOLEAN
  <2>1. Seen(world) \in Evidence /\ Seen(world).memory = world.memory
        BY <1>1, SeenTyped DEF Seen
  <2>2. evidence \in Evidence /\ evidence.memory = world.memory
        BY <1>1 DEF GroundsInv
  <2>3. world.memory \in BOOLEAN
        BY <1>1 DEF World
  <2> QED BY <2>1, <2>2, <2>3
<1>4. AfterFailure \in Plan
  <2>1. Identity(world) \in Ids /\ "none" \in Ids
        BY <1>1 DEF World, Identity, Ids
  <2> QED BY <1>1, <2>1 DEF AfterFailure, Plan
<1>5. Fits(AfterFailure, world.memory, G)
  <2>1. AfterFailure.failed = plan.changes /\ AfterFailure.changes = plan.changes
        BY <1>1 DEF AfterFailure, Plan
  <2>2. Fits(plan, world.memory, G)
        BY GroundsGrow DEF GroundsInv
  <2> QED BY <2>1, <2>2 DEF Fits
<1>6. Spoken(e, world.memory, G)
      BY <1>3 DEF Spoken
<1>7. grounds' = G
      BY <1>2
<1> HIDE DEF G
<1>8. CASE Pause(AfterFailure)
  <2>1. plan'.changes = {} /\ plan'.failed = {} /\ pc' = "wait"
        BY <1>4, <1>8 DEF Pause, Recheck, Plan
  <2> QED BY <1>1, <1>2, <1>3, <2>1 DEF GroundsInv, Fits
<1>9. CASE \E a \in Alternatives(AfterFailure, e, spent') : Continue(AfterFailure, a)
  <2>1. PICK a \in Alternatives(AfterFailure, e, spent') : Continue(AfterFailure, a)
        BY <1>9
  <2>2. a \in Seq(Plan) /\ \A i \in DOMAIN a : Fits(a[i], world.memory, G)
        BY <1>3, <1>4, <1>5, <1>6, AlternativesTyped, AlternativesFit
  <2> QED BY <1>1, <1>2, <1>3, <1>4, <1>5, <1>7, <2>1, <2>2, ReplanGrounds
<1> QED BY <1>2, <1>8, <1>9

LEMMA GroundsKept == PInv /\ GroundsInv /\ [Next]_vars => GroundsInv'
<1> SUFFICES ASSUME PInv, GroundsInv, [Next]_vars PROVE GroundsInv'
    OBVIOUS
<1>1. plan \in Plan /\ world \in World
      BY DEF PInv, TypeOK
<1>2. UNCHANGED worldVars => world'.memory = world.memory
      BY DEF worldVars
<1>3. CASE TakeStrategy
  <2>1. /\ initial' = initial /\ evidence' = evidence /\ grounds' = grounds /\ world'.memory = world.memory
        BY <1>2, <1>3 DEF TakeStrategy
  <2>2. Pause(plan) \/ (pc' = "route" /\ plan' = plan)
        BY <1>3 DEF TakeStrategy
  <2>3. CASE Pause(plan)
        BY <1>1, <2>1, <2>3, GroundsPause
  <2>4. CASE pc' = "route" /\ plan' = plan
        BY <2>1, <2>4, GroundsRest
  <2> QED BY <2>2, <2>3, <2>4
<1>4. CASE Submit
  <2>1. world'.memory = world.memory
        BY <1>1, <1>4 DEF Submit, Landed, World
  <2> QED BY <1>4, <2>1, GroundsRest DEF Submit, historyVars
<1>5. CASE Recovered
  <2>1. CASE Over
        BY <1>5, <2>1, GroundsOver DEF Recovered
  <2>2. CASE Pause([plan EXCEPT !.tried = @ \cup {plan.skill}]) /\ UNCHANGED grounds
    <3>1. [plan EXCEPT !.tried = @ \cup {plan.skill}] \in Plan
          BY <1>1, <1>5 DEF PInv, ApprovedInv, Recovered, Plan
    <3> QED BY <1>2, <1>5, <2>2, <3>1, GroundsPause DEF Recovered
  <2> QED BY <1>5, <2>1, <2>2 DEF Recovered
<1>6. CASE NextCycle
      BY <1>2, <1>6, GroundsRest DEF NextCycle, historyVars
<1>7. CASE Cancel
      BY <1>7, GroundsOver DEF Cancel
<1>8. CASE Shift
  <2>1. world'.memory = world.memory
    <3>1. \E s \in Situations : world' = [world EXCEPT !.sit = s]
          BY <1>8 DEF Shift
    <3> QED BY <1>1, <3>1 DEF World
  <2> QED BY <1>8, <2>1, GroundsRest DEF Shift, jobVars, historyVars
<1>9. CASE RegistryMoves
      BY <1>2, <1>9, GroundsRest DEF RegistryMoves, jobVars, historyVars
<1>10. CASE UNCHANGED vars
       BY <1>2, <1>10, GroundsRest DEF vars, jobVars, historyVars
<1> QED BY <1>3, <1>4, <1>5, <1>6, <1>7, <1>8, <1>9, <1>10, RouteGrounds, ReadOnlyGrounds, UnresolvedGrounds
        DEF Next, JobMoves

LEMMA GroundsInvariant == Spec => []GroundsInv
  BY Invariant, GroundsStart, GroundsKept, PTL DEF Spec

-----------------------------------------------------------------------------
(* Theorems *)

\* Every record the loop and the registry keep has the shape the code gives it.
THEOREM PlanningTyped == Spec => []TypeOK
<1>1. PInv => TypeOK
      BY DEF PInv
<1> QED BY <1>1, Invariant, PTL

\* A Skill that may authorise a change was shipped, published or uploaded, or is
\* exactly what the JSON file of an older version says; and none was switched
\* off on disk, whatever is learned, torn, deleted or restarted.
THEOREM OperatorsDecide == Spec => []OperatorDecides
<1>1. PInv => OperatorDecides
      BY Decides DEF PInv
<1> QED BY <1>1, Invariant, PTL

\* No change is carried out that its strategy did not name, that the Skill
\* chosen on fresh evidence does not allow, or that the evidence refutes.
THEOREM GateIsPassed == Spec => ExecutedWasAuthorised
<1>1. PInv /\ [Next]_vars =>
        [Submit => /\ plan.changes \subseteq strategy.changes /\ evidence.ok
                   /\ {ActionOf(c) : c \in plan.changes} \subseteq grant \cap Catalog
                   /\ ~Contradicted(plan.changes, evidence)]_vars
      BY DEF PInv, ApprovedInv, Submit
<1> QED BY <1>1, Invariant, PTL DEF Spec, ExecutedWasAuthorised

\* A strategy that failed is not carried out again in the life of the job.
THEOREM FailuresEnd == Spec => NoStrategyTwice
<1>1. PInv /\ [Next]_vars => [Submit => strategy.changes \notin failures]_vars
      BY DEF PInv, ApprovedInv, StrategyInv, Submit
<1> QED BY <1>1, Invariant, PTL DEF Spec, NoStrategyTwice

\* The ladder makes a container root only on grounds it has seen in this job.
THEOREM LadderIsClimbed == Spec => RootIsEarned
<1>1. GroundsInv /\ [Next]_vars =>
        [Submit /\ "root" \in plan.changes \ (initial.changes \cup ModelChanges) =>
            \/ world.memory \/ grounds \cap {"closed", "identity", "init"} # {}
            \/ {"nonroot", "unmounted"} \subseteq grounds]_vars
      BY DEF GroundsInv, Fits, Earned
<1> QED BY <1>1, GroundsInvariant, PTL DEF Spec, RootIsEarned
=============================================================================
