SPECIFICATION FairSpec
CONSTANTS
    u1 = u1
    u2 = u2
    b1 = b1
    b2 = b2
    b3 = b3
    Students = {u1, u2}
    Batches = {b1, b2, b3}
    Owner <- MCOwner
    Cancels = {b2}
    Section <- MCSection
    SlotsOfStudent <- MCSlotsOfStudent
    Runs = {1, 2}
    MaxRetries = 2
    ScanLimit = 2
    Times <- MCTimes
    MaxFaults = 2
    Never = Never
CHECK_DEADLOCK FALSE
INVARIANTS
    SentIsReported
    LastMailIsCurrent
    MailedOncePerFault
PROPERTIES
    SummariesSettle
