SPECIFICATION FairSpec
CONSTANTS
    Students = {u1}
    CodeSet = {"c1"}
    Meetings = 1
    Capacity = 1
    Types = {"CREATE", "CANCEL"}
    Batches = {b1, b2}
    Deliveries = {d1, d2}
    MaxRetries = 1
    Clients = "free"
    Db = 2
    Ambiguous = 0
    Redis = 0
    Lost = 1
    Crashes = 1
    Connections = 0
    Drops = 0
    Codes <- CodeSet
    Rows <- MCRows
    RowsOf <- MCRowsOf
    Rep <- MCRep
    CourseOf <- OwnCourse
    SlMax <- MCSlMax
    Asks <- MCAsks
    MaxFaults <- MCMaxFaults
    Prewarmed = TRUE
    NoBatch = NoBatch
    Missing = Missing
    NoRow = NoRow
CHECK_DEADLOCK FALSE
PROPERTIES AcceptedCompletes
