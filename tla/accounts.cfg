SPECIFICATION Spec
CONSTANTS
    Procs = {p1, p2}
    Instances = {n1, n2}
    Ids = {1, 2, 3}
    Codes <- MCCodes
    Emails <- MCEmails
    AdminCode = "admin"
    AdminEmail = "real"
    Placeholder = "placeholder"
    NewUsers <- MCNewUsers
    UserPatches <- MCUserPatches
    Files <- MCFiles
    InitialUsers <- MCInitialUsers
    NoRow = NoRow
    Gone = Gone
    Missing = Missing
    MaxRequests = 4
    MaxFaults = 1
SYMMETRY Symmetry
CHECK_DEADLOCK FALSE
INVARIANTS
    SessionsFollowPasswords
    OneResetPerOtp
    ImportAddsUp
    InstancesStart
