SPECIFICATION Spec
CONSTANTS
    Students = {u1}
    CodeSet = {"c1", "c2"}
    Meetings = 2
    Capacity = 1
    Types = {"CREATE"}
    Batches = {b1, b2, b3}
    Deliveries = {d1, d2}
    MaxRetries = 1
    Clients = "serial"
    Db = 1
    Ambiguous = 0
    Redis = 1
    Lost = 1
    Crashes = 1
    Connections = 0
    Drops = 0
    Codes <- CodeSet
    Rows <- MCRows
    RowsOf <- MCRowsOf
    Rep <- MCRep
    CourseOf <- OneCourse
    SlMax <- MCSlMax
    Asks <- MCAsks
    MaxFaults <- MCMaxFaults
    Prewarmed = FALSE
    NoBatch = NoBatch
    Missing = Missing
    NoRow = NoRow
SYMMETRY Symmetry
CHECK_DEADLOCK FALSE
INVARIANTS
    
    OneCoursePerStudent
