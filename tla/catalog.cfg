SPECIFICATION Spec
CONSTANTS
    Visitors = {v1}
    Administrators = {a1}
    Procs <- MCProcs
    Admins = {a1}
    Keys <- MCKeys
    LenientKeys = {}
    Codes <- CodeSet
    CodeSet = {"a", "b"}
    Missing = Missing
    Free = Free
    Null = Null
    NoRow = NoRow
    Sections = {1, 2}
    Courses = {"x"}
    Visits = {"lookup", "listing", "courses"}
    Edits = {"rename", "lab", "later"}
    Creates = TRUE
    SectionInputs <- MCInputs
    SectionPatches <- MCPatches
    Imports <- MCImports
    InitialSections <- MCInitialSections
    InitialCourses <- MCInitialCourses
    Reconciling = FALSE
    MaxWrites = 2
    MaxSeats = 0
    MaxErrors = 0
CHECK_DEADLOCK FALSE
INVARIANTS
    CatalogTypeOK
    SchedulesWhole
    CatalogCurrent
