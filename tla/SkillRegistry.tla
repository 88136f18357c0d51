--------------------------- MODULE SkillRegistry ---------------------------
(***************************************************************************)
(* OpsSkillRegistry of backend/app/services/ops_skill_registry.py and the  *)
(* package directory agent_skill_packages.py keeps for it.                 *)
(*                                                                         *)
(* Every operation holds the registry's lock, so each is one step.  The    *)
(* registry in memory is what planning reads; the packages on disk are     *)
(* what a restart reads, on top of the Skills of an older version's JSON   *)
(* file, which nothing here ever writes.  A write may fail, and from then  *)
(* on the process writes no package.  A Skill is what the gate before an   *)
(* execution looks at: whether it is enabled, ready, and what it allows.   *)
(***************************************************************************)
EXTENDS Naturals, FiniteSets

CONSTANTS
    Builtins,   \* ids of DEFAULT_OPERATOR_SKILLS
    Others,     \* ids of other Skills: the operators' and the learned ones
    Candidates, \* ids a lesson is stored under: candidate-<digest>
    Actions,    \* actions a Skill may name
    Catalog,    \* the registered ones, ACTION_CATALOG
    Shipped,    \* the actions each built-in Skill allows
    Policies,   \* the allow lists an operator writes
    Legacy,     \* what legacy_path, OPS_SKILL_STORE_PATH, says of each Skill
    Absent,     \* no such Skill, no such package
    MaxEdits    \* bound: operations on the registry

SkillIds == Builtins \cup Others

ASSUME SkillAssumption ==
    /\ Catalog \subseteq Actions /\ Policies \subseteq SUBSET Actions /\ Shipped \in [Builtins -> SUBSET Catalog]
    /\ \A s \in Builtins : Shipped[s] # {}
    /\ Absent \notin [enabled : BOOLEAN, builtin : BOOLEAN, actions : SUBSET Actions]
    /\ Absent \notin [enabled : BOOLEAN, ready : BOOLEAN, builtin : BOOLEAN, actions : SUBSET Actions]
    /\ Legacy \in [SkillIds -> [enabled : BOOLEAN, builtin : BOOLEAN, actions : SUBSET Actions] \cup {Absent}]
    /\ Candidates \subseteq Others /\ MaxEdits \in Nat

VARIABLES
    skills,     \* _skills
    package,    \* what read_package finds in each directory
    writable,   \* _writable
    edits,      \* bound: operations left
    released,   \* history: Skills an operator published or uploaded
    off         \* history: Skills an operator switched off, and that was written

skillVars == <<skills, package, writable, edits, released, off>>

Package == [enabled : BOOLEAN, builtin : BOOLEAN, actions : SUBSET Actions]
Skill == [enabled : BOOLEAN, ready : BOOLEAN, builtin : BOOLEAN, actions : SUBSET Actions]

Known(s) == skills[s] # Absent
BuiltinSkill(s, enabled) == [enabled |-> enabled, ready |-> TRUE, builtin |-> TRUE, actions |-> Shipped[s]]
OnDisk(k) == [enabled |-> k.enabled, builtin |-> k.builtin, actions |-> k.actions]

\* What a package, or an item of the JSON file, is in memory after a start.
AsRead(p) == [enabled |-> p.enabled, ready |-> p.actions # {}, builtin |-> p.builtin, actions |-> p.actions]

\* What there is of s before its package is read.
Shelved(s) ==
    CASE Legacy[s] # Absent -> AsRead(Legacy[s])
      [] Legacy[s] = Absent /\ s \in Builtins -> BuiltinSkill(s, TRUE)
      [] OTHER -> Absent
Written(k) == IF k = Absent THEN Absent ELSE OnDisk(k)

\* The first start writes a package of every Skill it has.
RegistryInit ==
    /\ skills = [s \in SkillIds |-> Shelved(s)]
    /\ package = [s \in SkillIds |-> Written(Shelved(s))]
    /\ writable = TRUE
    /\ released = {} /\ off = {}

-----------------------------------------------------------------------------
(* The package directory *)

\* SKILL.md is written before the policy: without one, a package is enabled
\* and allows nothing.  Where an older policy is in place it stays.
Torn(s) == IF package[s] = Absent THEN [enabled |-> TRUE, builtin |-> FALSE, actions |-> {}] ELSE package[s]

\* _persist of one Skill; the caller is not told of a failure.
Persist(s, k) ==
    \/ writable /\ package' = [package EXCEPT ![s] = OnDisk(k)] /\ UNCHANGED writable
    \/ /\ writable /\ writable' = FALSE
       /\ package' \in {package, [package EXCEPT ![s] = Torn(s)]}
    \/ ~writable /\ UNCHANGED <<package, writable>>

\* Mutant of Loaded: the JSON file is read after the packages.
LoadedLegacyLast(s) ==
    CASE Legacy[s] # Absent \/ package[s] = Absent -> Shelved(s)
      [] Legacy[s] = Absent /\ package[s] # Absent /\ package[s].builtin /\ s \in Builtins ->
           BuiltinSkill(s, package[s].enabled)
      [] OTHER -> AsRead(package[s])

\* _load of one id: the packages replace what the JSON file says, and of a
\* built-in one only the switch is taken.
Loaded(s) ==
    CASE package[s] = Absent -> Shelved(s)
      [] package[s] # Absent /\ package[s].builtin /\ s \in Builtins -> BuiltinSkill(s, package[s].enabled)
      [] OTHER -> AsRead(package[s])

-----------------------------------------------------------------------------
(* Operations *)

Edits == edits > 0 /\ edits' = edits - 1

\* What an operator decided about s counts as off once it is on disk.
Decided(s, k) ==
    /\ released' = IF k.enabled THEN released \cup {s} ELSE released
    /\ off' = IF k.enabled THEN off \ {s}
              ELSE IF package'[s] = OnDisk(k) THEN off \cup {s} ELSE off

\* The definition a client posts names no builtin: under a built-in id it
\* takes that Skill's place.  An unknown action is refused before.
UpsertSkill ==
    \E s \in SkillIds, enabled \in BOOLEAN, allowed \in {a \in Policies : a # {} /\ a \subseteq Catalog} :
        LET k == [enabled |-> enabled, ready |-> TRUE, builtin |-> FALSE, actions |-> allowed]
        IN /\ Edits /\ skills' = [skills EXCEPT ![s] = k]
           /\ Persist(s, k) /\ Decided(s, k)

\* The record in memory is cut to the catalog, and not ready when something
\* was cut.
Imported(p) == [enabled |-> p.enabled, builtin |-> FALSE, actions |-> p.actions \cap Catalog,
                ready |-> p.actions # {} /\ p.actions \subseteq Catalog]

\* The archive is copied as it is.  It asks no _writable.
ImportSkill ==
    \E s \in SkillIds, p \in {q \in Package : q.actions \in Policies} :
        /\ Edits /\ package' = [package EXCEPT ![s] = p]
        /\ released' = IF p.enabled THEN released \cup {s} ELSE released
        /\ off' = off \ {s}
        \* A later package of the same archive that cannot be copied ends the
        \* import, with this one in place.
        /\ skills' = [skills EXCEPT ![s] = Imported(p)] \/ UNCHANGED skills
        /\ UNCHANGED writable

DisableBuiltin(s) ==
    /\ Known(s) /\ skills[s].builtin
    /\ LET k == [skills[s] EXCEPT !.enabled = FALSE]
       IN skills' = [skills EXCEPT ![s] = k] /\ Persist(s, k) /\ Decided(s, k)
\* The record is gone when the directory cannot be removed.
RemoveCustom(s) ==
    /\ Known(s) /\ ~skills[s].builtin
    /\ skills' = [skills EXCEPT ![s] = Absent] /\ off' = off \ {s}
    /\ \/ package' = [package EXCEPT ![s] = Absent] /\ released' = released \ {s}
       \/ UNCHANGED <<package, released>>
    /\ UNCHANGED writable
DeleteSkill == \E s \in SkillIds : Edits /\ (DisableBuiltin(s) \/ RemoveCustom(s))

\* A download writes the package when there is none.
ExportSkill ==
    \E s \in SkillIds :
        /\ Known(s) /\ package[s] = Absent /\ Edits
        /\ package' = [package EXCEPT ![s] = OnDisk(skills[s])]
        /\ UNCHANGED <<skills, writable, released, off>>

Candidate(allowed) == [enabled |-> FALSE, ready |-> TRUE, builtin |-> FALSE, actions |-> allowed]

\* _capture_candidate_skill: the same fault, target and actions give the same
\* id, whatever an operator made of that Skill since.
LearnSkill(s, allowed) ==
    LET k == Candidate(allowed)
    IN skills' = [skills EXCEPT ![s] = k] /\ Persist(s, k) /\ UNCHANGED <<released, off>>

\* A new process reads the JSON file and the packages, and writes the ones that
\* are missing and the built-in ones that say something else, until one fails.
Unwritten == {s \in SkillIds : package[s] # Written(Loaded(s))}
RestartRegistry ==
    /\ Edits /\ skills' = [s \in SkillIds |-> Loaded(s)]
    /\ \/ /\ writable' = TRUE
          /\ package' = [s \in SkillIds |-> Written(Loaded(s))]
       \/ /\ writable' = FALSE
          /\ \E failing \in Unwritten, some \in SUBSET Unwritten :
               package' \in {[s \in SkillIds |-> IF s = failing THEN left
                                            ELSE IF s \in some THEN OnDisk(Loaded(s)) ELSE package[s]] :
                             left \in {package[failing], Torn(failing)}}
    /\ UNCHANGED <<released, off>>

OperatorEdits == UpsertSkill \/ ImportSkill \/ DeleteSkill \/ ExportSkill

\* Another job of the platform recovers something and learns from it.
OtherJobLearns == \E s \in Candidates, c \in Catalog : Edits /\ LearnSkill(s, {c})

-----------------------------------------------------------------------------
(* Properties *)

RegistryTypeOK ==
    /\ skills \in [SkillIds -> Skill \cup {Absent}] /\ package \in [SkillIds -> Package \cup {Absent}]
    /\ writable \in BOOLEAN /\ edits \in 0 .. MaxEdits
    /\ released \subseteq SkillIds /\ off \subseteq SkillIds

Usable(s) == Known(s) /\ skills[s].enabled /\ skills[s].ready

\* A Skill authorises changes only when an operator let it: one that was
\* learned from a recovery not before it was published, and one that was
\* switched off on disk never again, through restarts, failed and torn writes,
\* downloads and the same lesson learned twice.  A Skill of the JSON file counts
\* as let, exactly as the file has it: it is there again after a start that
\* finds no package of it, even when an operator deleted it.
OperatorDecides ==
    \A s \in SkillIds : Usable(s) =>
        /\ s \notin off
        /\ s \in Builtins \cup released \/ (Legacy[s] # Absent /\ skills[s] = AsRead(Legacy[s]))

\* The comment in _load: built-in policy is versioned with the application and
\* cannot be shadowed by an older package.  A start restores it.
BuiltinPolicyPrevails ==
    [][RestartRegistry => \A s \in Builtins : skills'[s].actions = Shipped[s]]_skillVars
=============================================================================
