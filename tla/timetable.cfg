SPECIFICATION Spec
CONSTANTS
    Codes <- MCCodes
    Rows <- MCRows
    Courses <- MCCourses
    CodeOf <- MCCodeOf
    Rep <- MCRep
    CourseOf <- MCCourseOf
    Kind <- MCKind
    Open <- MCCodes
    RequiresLab = {"CalcLT"}
    Linked <- MCLinked
    Meeting <- MCMeeting
    Scheduled <- MCScheduled
    Credits <- MCCredits
    MaxCredits = 7
    Periods = {1, 2, 3, 4, 5, 6}
    Weeks <- MCWeeks
CHECK_DEADLOCK FALSE
INVARIANTS
    TimetableTypeOK
    NeverInTwoClasses
    OneClassPerCourse
    CreditsWithinLimit
