------------------------ MODULE SkillRegistryProofs ------------------------
(***************************************************************************)
(* The Skill registry, for every set of Skills and actions: an operator    *)
(* decides which Skill may authorise a change.                             *)
(*                                                                         *)
(* The decision lives in two places that fail apart, the record in memory  *)
(* and the package on disk, so the invariant says of both what             *)
(* OperatorDecides says of what is usable now.  A package that allows      *)
(* nothing yet, the torn one, is harmless: it is read back as not ready.   *)
(* What the JSON file lets is in both places exactly as the file has it.   *)
(***************************************************************************)
EXTENDS SkillRegistry, TLAPS

Live(r) == r # Absent /\ r.enabled

FromFile(s, k) == Legacy[s] # Absent /\ k = AsRead(Legacy[s])
FileOnDisk(s, p) == Legacy[s] # Absent /\ p = Legacy[s]

\* Of one Skill, in memory and on disk: enabled only when it may be, and off
\* in both places once an operator switched it off.
Sound(s, k, p) ==
    /\ Live(k) /\ (k.ready \/ k.actions # {}) => s \in Builtins \cup released \/ FromFile(s, k)
    /\ Live(p) /\ p.actions # {} => s \in Builtins \cup released \/ FileOnDisk(s, p)
    /\ s \in off => p # Absent /\ ~p.enabled /\ ~Live(k)

SkillInv == RegistryTypeOK /\ \A s \in SkillIds : Sound(s, skills[s], package[s])

LEMMA NotAbsent == Absent \notin Package /\ Absent \notin Skill
  BY SkillAssumption DEF Package, Skill

LEMMA OnDiskTyped ==
    ASSUME NEW k \in Skill
    PROVE  /\ OnDisk(k) \in Package /\ OnDisk(k) # Absent
           /\ OnDisk(k).enabled = k.enabled /\ OnDisk(k).actions = k.actions
<1>1. OnDisk(k) \in Package
      BY DEF OnDisk, Package, Skill
<1> QED BY <1>1, NotAbsent DEF OnDisk

LEMMA ShippedTyped ==
    ASSUME NEW s \in Builtins, NEW enabled \in BOOLEAN
    PROVE  BuiltinSkill(s, enabled) \in Skill /\ BuiltinSkill(s, enabled).enabled = enabled
<1>1. Shipped[s] \in SUBSET Actions
      BY SkillAssumption
<1> QED BY <1>1 DEF BuiltinSkill, Skill

\* An item of the JSON file is read and written without loss.
LEMMA FileTyped ==
    ASSUME NEW s \in SkillIds, Legacy[s] # Absent
    PROVE  /\ AsRead(Legacy[s]) \in Skill /\ Legacy[s] \in Package
           /\ OnDisk(AsRead(Legacy[s])) = Legacy[s]
<1>1. Legacy[s] \in Package
      BY SkillAssumption DEF Package
<1>2. AsRead(Legacy[s]) \in Skill
      BY <1>1 DEF AsRead, Skill, Package
<1>3. OnDisk(AsRead(Legacy[s])) = Legacy[s]
      BY <1>1 DEF OnDisk, AsRead, Package
<1> QED BY <1>1, <1>2, <1>3

\* Without its package a Skill is the file's, the shipped one, or none.
LEMMA ShelvedTyped ==
    ASSUME NEW s \in SkillIds
    PROVE  /\ Shelved(s) \in Skill \cup {Absent} /\ Written(Shelved(s)) \in Package \cup {Absent}
           /\ Shelved(s) # Absent => s \in Builtins \/ FromFile(s, Shelved(s))
           /\ Written(Shelved(s)) # Absent => s \in Builtins \/ FileOnDisk(s, Written(Shelved(s)))
<1>1. CASE Legacy[s] # Absent
  <2>1. Shelved(s) = AsRead(Legacy[s])
        BY <1>1 DEF Shelved
  <2>2. Shelved(s) \in Skill /\ Shelved(s) # Absent /\ Legacy[s] \in Package
        BY <1>1, <2>1, FileTyped, NotAbsent
  <2>3. Written(Shelved(s)) = Legacy[s]
        BY <1>1, <2>1, <2>2, FileTyped DEF Written
  <2> QED BY <1>1, <2>1, <2>2, <2>3 DEF FromFile, FileOnDisk
<1>2. CASE Legacy[s] = Absent /\ s \in Builtins
  <2>1. Shelved(s) = BuiltinSkill(s, TRUE)
        BY <1>2 DEF Shelved
  <2>2. Shelved(s) \in Skill /\ Shelved(s) # Absent
        BY <1>2, <2>1, ShippedTyped, NotAbsent
  <2>3. Written(Shelved(s)) \in Package
        BY <2>2, OnDiskTyped DEF Written
  <2> QED BY <1>2, <2>2, <2>3
<1>3. CASE Legacy[s] = Absent /\ s \notin Builtins
      BY <1>3 DEF Shelved, Written
<1> QED BY <1>1, <1>2, <1>3

LEMMA RegistryStarts == RegistryInit /\ edits \in 0 .. MaxEdits => SkillInv
<1> SUFFICES ASSUME RegistryInit, edits \in 0 .. MaxEdits PROVE SkillInv
    OBVIOUS
<1>1. RegistryTypeOK
  <2>1. skills \in [SkillIds -> Skill \cup {Absent}]
        BY ShelvedTyped DEF RegistryInit
  <2>2. package \in [SkillIds -> Package \cup {Absent}]
        BY ShelvedTyped DEF RegistryInit
  <2> QED BY <2>1, <2>2 DEF RegistryInit, RegistryTypeOK
<1>2. ASSUME NEW s \in SkillIds PROVE Sound(s, skills[s], package[s])
  <2>1. skills[s] = Shelved(s) /\ package[s] = Written(Shelved(s)) /\ off = {}
        BY DEF RegistryInit
  <2> QED BY <2>1, ShelvedTyped DEF Sound, Live
<1> QED BY <1>1, <1>2 DEF SkillInv

\* What writing a package may leave behind.
LEMMA PersistWrites ==
    ASSUME RegistryTypeOK, NEW s \in SkillIds, NEW k \in Skill, Persist(s, k)
    PROVE  /\ writable' \in BOOLEAN
           /\ \E p \in {OnDisk(k), package[s], Torn(s)} :
                package' = [package EXCEPT ![s] = p] /\ p \in Package \cup {Absent}
<1>1. OnDisk(k) \in Package
      BY OnDiskTyped
<1>2. package[s] \in Package \cup {Absent} /\ package = [package EXCEPT ![s] = package[s]]
      BY DEF RegistryTypeOK
<1>3. Torn(s) \in Package
      BY <1>2 DEF Torn, Package
<1>4. writable' \in BOOLEAN
      BY DEF Persist, RegistryTypeOK
<1>5. \E p \in {OnDisk(k), package[s], Torn(s)} : package' = [package EXCEPT ![s] = p]
      BY <1>2 DEF Persist
<1> QED BY <1>1, <1>2, <1>3, <1>4, <1>5

\* An operation on one Skill is sound when what it leaves of that Skill is.
LEMMA OneSkill ==
    ASSUME SkillInv, NEW s \in SkillIds, NEW k \in Skill \cup {Absent}, NEW p \in Package \cup {Absent},
           skills' = [skills EXCEPT ![s] = k], package' = [package EXCEPT ![s] = p],
           writable' \in BOOLEAN, edits' \in 0 .. MaxEdits,
           released' \in {released \cup {s}, released \ {s}, released},
           off' \in {off \cup {s}, off \ {s}, off},
           Live(k) /\ (k.ready \/ k.actions # {}) => s \in Builtins \cup released' \/ FromFile(s, k),
           Live(p) /\ p.actions # {} => s \in Builtins \cup released' \/ FileOnDisk(s, p),
           s \in off' => p # Absent /\ ~p.enabled /\ ~Live(k)
    PROVE  SkillInv'
<1>1. RegistryTypeOK'
      BY DEF SkillInv, RegistryTypeOK
<1>2. ASSUME NEW t \in SkillIds PROVE Sound(t, skills[t], package[t])'
  <2>1. CASE t = s
    <3>1. skills'[t] = k /\ package'[t] = p
          BY <2>1 DEF SkillInv, RegistryTypeOK
    <3> QED BY <3>1, <2>1 DEF Sound, Live
  <2>2. CASE t # s
    <3>1. skills'[t] = skills[t] /\ package'[t] = package[t]
          BY <2>2 DEF SkillInv, RegistryTypeOK
    <3>2. (t \in off' <=> t \in off) /\ (t \in released' <=> t \in released)
          BY <2>2
    <3>3. Sound(t, skills[t], package[t])
          BY DEF SkillInv
    <3> QED BY <3>1, <3>2, <3>3 DEF Sound, Live
  <2> QED BY <2>1, <2>2
<1> QED BY <1>1, <1>2 DEF SkillInv

LEMMA EditsCount == RegistryTypeOK /\ Edits => edits' \in 0 .. MaxEdits
  BY SkillAssumption DEF RegistryTypeOK, Edits

\* Of a Skill the invariant holds of, whatever a write leaves is sound too.
LEMMA DecidedKeeps ==
    ASSUME SkillInv, NEW s \in SkillIds, NEW k \in Skill, skills' = [skills EXCEPT ![s] = k],
           Persist(s, k), Decided(s, k), edits' \in 0 .. MaxEdits
    PROVE  SkillInv'
<1>1. PICK p \in {OnDisk(k), package[s], Torn(s)} :
        package' = [package EXCEPT ![s] = p] /\ p \in Package \cup {Absent}
      BY PersistWrites DEF SkillInv
<1>2. writable' \in BOOLEAN
      BY PersistWrites DEF SkillInv
<1>3. k # Absent /\ k.enabled \in BOOLEAN
      BY NotAbsent DEF Skill
<1>4. Sound(s, skills[s], package[s])
      BY DEF SkillInv
<1>5. package'[s] = p
      BY <1>1 DEF SkillInv, RegistryTypeOK
<1>6. package[s] = Absent => Torn(s) # Absent /\ Torn(s).actions = {}
  <2>1. [enabled |-> TRUE, builtin |-> FALSE, actions |-> {}] \in Package
        BY DEF Package
  <2> QED BY <2>1, NotAbsent DEF Torn
<1>7. package[s] # Absent => Torn(s) = package[s]
      BY DEF Torn
<1>8. CASE k.enabled
  <2>1. released' = released \cup {s} /\ off' = off \ {s}
        BY <1>8 DEF Decided
  <2> QED BY <1>1, <1>2, <2>1, OneSkill
<1>9. CASE ~k.enabled
  <2>1. released' = released /\ off' = IF p = OnDisk(k) THEN off \cup {s} ELSE off
        BY <1>5, <1>9 DEF Decided
  <2>2. p # Absent /\ Live(p) /\ p.actions # {} => s \in Builtins \cup released \/ FileOnDisk(s, p)
        BY <1>1, <1>4, <1>6, <1>7, <1>9, OnDiskTyped DEF Sound, Live
  <2>3. s \in off' => p # Absent /\ ~p.enabled
        BY <1>1, <1>4, <1>7, <1>9, <2>1, OnDiskTyped DEF Sound
  <2>4. ~Live(k)
        BY <1>9 DEF Live
  <2> QED BY <1>1, <1>2, <2>1, <2>2, <2>3, <2>4, OneSkill DEF Live
<1> QED BY <1>3, <1>8, <1>9

\* What is learned is disabled, and no decision changes.
LEMMA LearnKeeps ==
    ASSUME SkillInv, NEW s \in Candidates, NEW allowed \in SUBSET Actions, LearnSkill(s, allowed),
           edits' \in 0 .. MaxEdits
    PROVE  SkillInv'
<1> DEFINE k == Candidate(allowed)
<1>1. k \in Skill /\ ~k.enabled
      BY DEF Candidate, Skill
<1>2. s \in SkillIds
      BY SkillAssumption DEF SkillIds
<1>3. skills' = [skills EXCEPT ![s] = k] /\ Persist(s, k) /\ UNCHANGED <<released, off>>
      BY DEF LearnSkill
<1> HIDE DEF k
<1>4. PICK p \in {OnDisk(k), package[s], Torn(s)} :
        package' = [package EXCEPT ![s] = p] /\ p \in Package \cup {Absent}
      BY <1>1, <1>2, <1>3, PersistWrites DEF SkillInv
<1>5. writable' \in BOOLEAN
      BY <1>1, <1>2, <1>3, PersistWrites DEF SkillInv
<1>6. Sound(s, skills[s], package[s])
      BY <1>2 DEF SkillInv
<1>7. package[s] = Absent => Torn(s).actions = {}
      BY DEF Torn
<1>8. package[s] # Absent => Torn(s) = package[s]
      BY DEF Torn
<1>9. Live(p) /\ p.actions # {} => s \in Builtins \cup released \/ FileOnDisk(s, p)
      BY <1>1, <1>4, <1>6, <1>7, <1>8, OnDiskTyped DEF Sound, Live
<1>10. s \in off => p # Absent /\ ~p.enabled
       BY <1>1, <1>4, <1>6, <1>8, OnDiskTyped DEF Sound
<1>11. ~Live(k)
       BY <1>1 DEF Live
<1> QED BY <1>1, <1>2, <1>3, <1>4, <1>5, <1>9, <1>10, <1>11, OneSkill

LEMMA OperatorEditsKeep ==
    ASSUME SkillInv, OperatorEdits
    PROVE  SkillInv'
<1> USE DEF SkillInv
<1>1. edits' \in 0 .. MaxEdits
      BY EditsCount DEF OperatorEdits, UpsertSkill, ImportSkill, DeleteSkill, ExportSkill
<1>2. CASE UpsertSkill
  <2>1. PICK s \in SkillIds, enabled \in BOOLEAN, allowed \in {a \in Policies : a # {} /\ a \subseteq Catalog} :
          LET k == [enabled |-> enabled, ready |-> TRUE, builtin |-> FALSE, actions |-> allowed]
          IN skills' = [skills EXCEPT ![s] = k] /\ Persist(s, k) /\ Decided(s, k)
        BY <1>2 DEF UpsertSkill
  <2> DEFINE k == [enabled |-> enabled, ready |-> TRUE, builtin |-> FALSE, actions |-> allowed]
  <2>2. k \in Skill
        BY SkillAssumption DEF Skill
  <2>3. skills' = [skills EXCEPT ![s] = k] /\ Persist(s, k) /\ Decided(s, k)
        BY <2>1
  <2> HIDE DEF k
  <2> QED BY <1>1, <2>2, <2>3, DecidedKeeps
<1>3. CASE ImportSkill
  <2>1. PICK s \in SkillIds, p \in {q \in Package : q.actions \in Policies} :
          /\ package' = [package EXCEPT ![s] = p]
          /\ released' = IF p.enabled THEN released \cup {s} ELSE released
          /\ off' = off \ {s}
          /\ skills' = [skills EXCEPT ![s] = Imported(p)] \/ UNCHANGED skills
          /\ UNCHANGED writable
        BY <1>3 DEF ImportSkill
  <2>2. Imported(p) \in Skill /\ Imported(p).enabled = p.enabled
        BY SkillAssumption DEF Imported, Skill, Package
  <2>3. p.enabled \in BOOLEAN
        BY DEF Package
  <2>4. Sound(s, skills[s], package[s])
        OBVIOUS
  <2>5. CASE skills' = [skills EXCEPT ![s] = Imported(p)]
        BY <1>1, <2>1, <2>2, <2>3, <2>5, OneSkill DEF Live, RegistryTypeOK
  <2>6. CASE UNCHANGED skills
    <3>1. skills' = [skills EXCEPT ![s] = skills[s]] /\ skills[s] \in Skill \cup {Absent}
          BY <2>6 DEF RegistryTypeOK
    <3>2. released \subseteq released'
          BY <2>1
    <3> QED BY <1>1, <2>1, <2>3, <2>4, <3>1, <3>2, OneSkill DEF Live, RegistryTypeOK, Sound
  <2> QED BY <2>1, <2>5, <2>6
<1>4. CASE DeleteSkill
  <2>1. PICK s \in SkillIds : DisableBuiltin(s) \/ RemoveCustom(s)
        BY <1>4 DEF DeleteSkill
  <2>2. skills[s] \in Skill
        BY <2>1 DEF DisableBuiltin, RemoveCustom, Known, RegistryTypeOK
  <2>3. CASE DisableBuiltin(s)
    <3> DEFINE k == [skills[s] EXCEPT !.enabled = FALSE]
    <3>1. k \in Skill
          BY <2>2 DEF Skill
    <3>2. skills' = [skills EXCEPT ![s] = k] /\ Persist(s, k) /\ Decided(s, k)
          BY <2>3 DEF DisableBuiltin
    <3> HIDE DEF k
    <3> QED BY <1>1, <3>1, <3>2, DecidedKeeps
  <2>4. CASE RemoveCustom(s)
    <3>1. PICK p \in {Absent, package[s]} :
            /\ package' = [package EXCEPT ![s] = p]
            /\ released' \in {released \ {s}, released}
            /\ p # Absent => released' = released
          BY <2>4 DEF RemoveCustom, RegistryTypeOK
    <3>2. skills' = [skills EXCEPT ![s] = Absent] /\ off' = off \ {s} /\ UNCHANGED writable
          BY <2>4 DEF RemoveCustom
    <3>3. Sound(s, skills[s], package[s])
          OBVIOUS
    <3> QED BY <1>1, <3>1, <3>2, <3>3, OneSkill DEF Live, RegistryTypeOK, Sound
  <2> QED BY <2>1, <2>3, <2>4
<1>5. CASE ExportSkill
  <2>1. PICK s \in SkillIds :
          /\ Known(s) /\ package[s] = Absent
          /\ package' = [package EXCEPT ![s] = OnDisk(skills[s])]
          /\ UNCHANGED <<skills, writable, released, off>>
        BY <1>5 DEF ExportSkill
  <2>2. skills[s] \in Skill /\ skills' = [skills EXCEPT ![s] = skills[s]]
        BY <2>1 DEF Known, RegistryTypeOK
  <2>3. Sound(s, skills[s], package[s])
        OBVIOUS
  <2>4. FromFile(s, skills[s]) => FileOnDisk(s, OnDisk(skills[s]))
        BY FileTyped DEF FromFile, FileOnDisk
  <2> QED BY <1>1, <2>1, <2>2, <2>3, <2>4, OnDiskTyped, OneSkill DEF Live, RegistryTypeOK, Sound, Known
<1> QED BY <1>2, <1>3, <1>4, <1>5 DEF OperatorEdits

\* A start reads what is on disk, where the decisions are, and the file.
LEMMA LoadedSound ==
    ASSUME SkillInv, NEW s \in SkillIds
    PROVE  /\ Loaded(s) \in Skill \cup {Absent}
           /\ Sound(s, Loaded(s), Written(Loaded(s))) /\ Sound(s, Loaded(s), package[s])
<1>1. package[s] \in Package \cup {Absent} /\ Sound(s, skills[s], package[s])
      BY DEF SkillInv, RegistryTypeOK
<1>2. CASE package[s] = Absent
  <2>1. Loaded(s) = Shelved(s) /\ s \notin off
        BY <1>1, <1>2 DEF Loaded, Sound
  <2> QED BY <1>1, <1>2, <2>1, ShelvedTyped DEF Sound, Live
<1>3. CASE package[s] # Absent /\ package[s].builtin /\ s \in Builtins
  <2>1. Loaded(s) = BuiltinSkill(s, package[s].enabled) /\ package[s].enabled \in BOOLEAN
        BY <1>1, <1>3 DEF Loaded, Package
  <2>2. Loaded(s) \in Skill /\ Loaded(s).enabled = package[s].enabled /\ Loaded(s) # Absent
        BY <1>3, <2>1, ShippedTyped, NotAbsent
  <2>3. Written(Loaded(s)) # Absent /\ Written(Loaded(s)).enabled = package[s].enabled
        BY <2>2, OnDiskTyped DEF Written
  <2> QED BY <1>1, <1>3, <2>2, <2>3 DEF Sound, Live
<1>4. CASE package[s] # Absent /\ ~(package[s].builtin /\ s \in Builtins)
  <2>1. Loaded(s) = AsRead(package[s]) /\ package[s] \in Package
        BY <1>1, <1>4 DEF Loaded
  <2>2. /\ Loaded(s) \in Skill /\ Loaded(s).enabled = package[s].enabled
        /\ Loaded(s).actions = package[s].actions /\ Loaded(s).ready = (package[s].actions # {})
        BY <2>1 DEF AsRead, Package, Skill
  <2>3. OnDisk(AsRead(package[s])) = package[s]
        BY <2>1 DEF OnDisk, AsRead, Package
  <2>4. Loaded(s) # Absent /\ Written(Loaded(s)) = package[s]
        BY <2>1, <2>2, <2>3, NotAbsent DEF Written
  <2>5. FileOnDisk(s, package[s]) => FromFile(s, Loaded(s))
        BY <2>1 DEF FileOnDisk, FromFile
  <2> QED BY <1>1, <1>4, <2>2, <2>4, <2>5 DEF Sound, Live
<1> QED BY <1>2, <1>3, <1>4

LEMMA RestartKeeps ==
    ASSUME SkillInv, RestartRegistry
    PROVE  SkillInv'
<1>1. edits' \in 0 .. MaxEdits /\ UNCHANGED <<released, off>> /\ writable' \in BOOLEAN
      BY EditsCount DEF RestartRegistry, SkillInv
<1>2. \A s \in SkillIds : skills'[s] = Loaded(s)
      BY DEF RestartRegistry
<1>3. \A s \in SkillIds : package[s] \in Package \cup {Absent} /\ (package[s] # Absent => Torn(s) = package[s])
      BY DEF SkillInv, RegistryTypeOK, Torn
<1>4. \A s \in SkillIds : Written(Loaded(s)) \in Package \cup {Absent}
      BY LoadedSound, OnDiskTyped DEF Written
<1>5. \A s \in Unwritten : OnDisk(Loaded(s)) = Written(Loaded(s))
  <2>1. ASSUME NEW s \in Unwritten, Loaded(s) = Absent PROVE FALSE
    <3>1. s \in SkillIds /\ package[s] # Absent
          BY <2>1 DEF Unwritten, Written
    <3>2. Loaded(s) \in {BuiltinSkill(s, package[s].enabled), AsRead(package[s])}
          BY <3>1 DEF Loaded
    <3>3. package[s] \in Package
          BY <1>3, <3>1
    <3>4. AsRead(package[s]) \in Skill
          BY <3>3 DEF AsRead, Package, Skill
    <3>5. Loaded(s) = BuiltinSkill(s, package[s].enabled) => s \in Builtins \/ Loaded(s) = AsRead(package[s])
          BY <3>1 DEF Loaded
    <3>6. s \in Builtins => BuiltinSkill(s, package[s].enabled) \in Skill
          BY <3>3, ShippedTyped DEF Package
    <3> QED BY <2>1, <3>2, <3>4, <3>5, <3>6, NotAbsent
  <2> QED BY <2>1 DEF Written
<1>6. ASSUME NEW s \in SkillIds
      PROVE  package'[s] \in {package[s], Written(Loaded(s)), Torn(s)}
  <2>1. CASE package' = [t \in SkillIds |-> Written(Loaded(t))]
        BY <2>1
  <2>2. CASE \E failing \in Unwritten, some \in SUBSET Unwritten :
               package' \in {[t \in SkillIds |-> IF t = failing THEN left
                                            ELSE IF t \in some THEN OnDisk(Loaded(t)) ELSE package[t]] :
                             left \in {package[failing], Torn(failing)}}
    <3>1. PICK failing \in Unwritten, some \in SUBSET Unwritten :
            \E left \in {package[failing], Torn(failing)} :
              package' = [t \in SkillIds |-> IF t = failing THEN left
                                        ELSE IF t \in some THEN OnDisk(Loaded(t)) ELSE package[t]]
          BY <2>2
    <3> QED BY <1>5, <3>1
  <2> QED BY <2>1, <2>2 DEF RestartRegistry
<1>7. \A s \in SkillIds : Torn(s) \in Package
      BY <1>3 DEF Torn, Package
<1>8. RegistryTypeOK'
  <2>1. skills' \in [SkillIds -> Skill \cup {Absent}]
        BY LoadedSound DEF RestartRegistry
  <2>2. \A s \in SkillIds : package'[s] \in Package \cup {Absent}
        BY <1>3, <1>4, <1>6, <1>7
  <2>3. \E f : package' = [s \in SkillIds |-> f[s]]
    <3>1. CASE package' = [s \in SkillIds |-> Written(Loaded(s))]
          BY <3>1
    <3>2. CASE \E failing \in Unwritten, some \in SUBSET Unwritten :
                 package' \in {[t \in SkillIds |-> IF t = failing THEN left
                                              ELSE IF t \in some THEN OnDisk(Loaded(t)) ELSE package[t]] :
                               left \in {package[failing], Torn(failing)}}
          BY <3>2
    <3> QED BY <3>1, <3>2 DEF RestartRegistry
  <2>4. package' \in [SkillIds -> Package \cup {Absent}]
        BY <2>2, <2>3
  <2> QED BY <1>1, <2>1, <2>4 DEF SkillInv, RegistryTypeOK
<1>9. ASSUME NEW s \in SkillIds PROVE Sound(s, skills[s], package[s])'
  <2>1. /\ Sound(s, Loaded(s), Written(Loaded(s))) /\ Sound(s, Loaded(s), package[s])
        /\ skills'[s] = Loaded(s)
        BY <1>2, LoadedSound
  <2>2. CASE package'[s] \in {package[s], Written(Loaded(s))}
        BY <1>1, <2>1, <2>2 DEF Sound, Live
  <2>3. CASE package'[s] = Torn(s) /\ package[s] = Absent
    <3>1. Torn(s).actions = {} /\ s \notin off
          BY <2>1, <2>3 DEF Torn, Sound
    <3> QED BY <1>1, <2>1, <2>3, <3>1 DEF Sound, Live
  <2> QED BY <1>3, <1>6, <2>2, <2>3
<1> QED BY <1>8, <1>9 DEF SkillInv

LEMMA OthersKeep ==
    ASSUME SkillInv, OtherJobLearns
    PROVE  SkillInv'
<1>1. PICK s \in Candidates, c \in Catalog : Edits /\ LearnSkill(s, {c})
      BY DEF OtherJobLearns
<1>2. {c} \in SUBSET Actions
      BY SkillAssumption
<1> QED BY <1>1, <1>2, EditsCount, LearnKeeps DEF SkillInv

LEMMA Decides == SkillInv => OperatorDecides
  BY DEF SkillInv, Sound, Live, FromFile, OperatorDecides, Usable, Known
=============================================================================
