SPECIFICATION FairCacheSpec
CONSTANTS
    Students = {u1, u2}
    CodeSet = {"c1"}
    Meetings = 1
    Capacity = 1
    Types = {"CREATE"}
    Batches = {b1, b2}
    Deliveries = {d1}
    MaxRetries = 0
    Clients = "free"
    Db = 0
    Ambiguous = 0
    Redis = 1
    Lost = 1
    Crashes = 0
    Connections = 0
    Drops = 0
    Codes <- CodeSet
    Rows <- MCRows
    RowsOf <- MCRowsOf
    Rep <- MCRep
    CourseOf <- OwnCourse
    SlMax <- MCSlMax
    Asks <- MCAsks
    MaxFaults <- MCMaxFaults
    Prewarmed = TRUE
    NoBatch = NoBatch
    Missing = Missing
    NoRow = NoRow
    Sample <- MCSample
    MaxExpiries = 1
INVARIANTS
    CacheTypeOK
    
 
