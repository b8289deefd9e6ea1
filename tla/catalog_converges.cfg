SPECIFICATION FairSpec
CONSTANTS
    Visitors = {v1}
    Administrators = {a1}
    Procs <- MCProcs
    Admins = {a1}
    Keys <- MCKeys
    LenientKeys = {}
    Codes <- CodeSet
    CodeSet = {"a"}
    Missing = Missing
    Free = Free
    Null = Null
    NoRow = NoRow
    Sections = {1}
    Courses = {"x"}
    Visits = {"lookup", "listing"}
    Edits = {"capacity"}
    Creates = FALSE
    SectionInputs <- MCInputs
    SectionPatches <- MCPatches
    Imports <- MCImports
    InitialSections <- MCInitialSections
    InitialCourses <- MCInitialCourses
    Reconciling = TRUE
    MaxWrites = 1
    MaxSeats = 1
    MaxErrors = 1
CHECK_DEADLOCK FALSE
PROPERTIES
    CatalogConverges
    
