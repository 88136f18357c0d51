CONSTANTS
    PermissionSkill = "permission skill"
    StorageSkill = "storage skill"
    Builtins = {"permission skill", "storage skill", "general skill"}
    Others = {"learned", "kept"}
    Candidates = {"learned"}
    Actions <- MCActions
    Catalog <- MCCatalog
    Shipped <- MCShipped
    Policies <- MCPolicies
    Legacy <- MCLegacy
    Absent = Absent
    ModelChanges = {"restart", "tune"}
    Situations <- MCSituations
    Scenes <- MCScenes
    MaxEdits = 3
    MaxShifts = 1
    MaxCycles = 1
SPECIFICATION Spec
INVARIANTS TypeOK OperatorDecides
PROPERTIES ExecutedWasAuthorised RootIsEarned NoStrategyTwice ChainPauses
CHECK_DEADLOCK FALSE
