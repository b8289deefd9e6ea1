SPECIFICATION Spec
CONSTANTS
    Students = {u1}
    CodeSet = {"c1"}
    Meetings = 2
    Capacity = 1
    Types = {"CREATE"}
    Batches = {b1, b2}
    Deliveries = {d1, d2}
    MaxRetries = 1
    Clients = "free"
    Db = 2
    Ambiguous = 1
    Redis = 0
    Lost = 1
    Crashes = 0
    Connections = 1
    Drops = 1
    Codes <- CodeSet
    Rows <- MCRows
    RowsOf <- MCRowsOf
    Rep <- MCRep
    CourseOf <- OwnCourse
    SlMax <- MCSlMax
    Asks <- MCAsks
    MaxFaults <- MCMaxFaults
    Prewarmed = TRUE
    NoBatch = NoBatch
    Missing = Missing
    NoRow = NoRow
SYMMETRY Symmetry
CHECK_DEADLOCK FALSE
INVARIANTS
    TypeOK
    CapacityRespected
    HoldersWithinCapacity
    CompletedIsSettled
    AcceptedNotLost
    SlotsAccountForReservations
