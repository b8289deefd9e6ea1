SPECIFICATION Spec
CONSTANTS
    Students = {u1, u2}
    CodeSet = {"c1"}
    Meetings = 2
    Capacity = 1
    Types = {"CREATE", "CANCEL"}
    Batches = {b1, b2, b3, b4}
    Deliveries = {d1, d2}
    MaxRetries = 1
    Clients = "polling"
    Db = 0
    Ambiguous = 0
    Redis = 0
    Lost = 0
    Crashes = 1
    Connections = 0
    Drops = 0
    Codes <- CodeSet
    Rows <- MCRows
    RowsOf <- MCRowsOf
    Rep <- MCRep
    CourseOf <- OwnCourse
    SlMax <- MCSlMax
    Asks <- MCAsks
    MaxFaults <- MCMaxFaults
    Prewarmed = TRUE
    NoBatch = NoBatch
    Missing = Missing
    NoRow = NoRow
SYMMETRY Symmetry
CHECK_DEADLOCK FALSE
INVARIANTS
    SeatsMatchHolders
    SettledInv
    SlotsAccountForReservations
PROPERTIES
    OutcomeIsFinal
    LedgerSpec
