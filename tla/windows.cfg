SPECIFICATION FairSpec
CONSTANTS
    Gates = {g1}
    AdminCalls = {a1}
    Procs <- MCProcs
    Admins = {a1}
    Keys <- MCKeys
    LenientKeys = {"settings"}
    Semesters = {"s1", "s2"}
    Missing = Missing
    Free = Free
    Never = Never
    NoRow = NoRow
    Students <- MCStudents
    SlotIds = {1, 2, 3}
    Patches = {"later", "inverted", "semester"}
    Updates = {"moved"}
    DefaultSettings <- MCDefault
    SettingsPatches <- SettingsSent
    SlotInputs <- MCSlotInputs
    SlotPatches <- SlotsSent
    InitialSlots <- MCInitialSlots
    Times <- MCTimes
    Instants = {"first", "evening"}
    MaxWrites = 1
    MaxErrors = 1
CHECK_DEADLOCK FALSE
INVARIANTS
    CachedIsCurrent
    
    
    LockHeldByOwner
PROPERTIES
    CachesConverge
    CallsAnswered
