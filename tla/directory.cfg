\* Sign-ins overlap the sync: another instance serves while this one starts.
CHECK_DEADLOCK FALSE
CONSTANTS
    p1 = p1
    p2 = p2
    n1 = n1
    n2 = n2
    Requests = {r1, r2}
    People <- MCPeople
    Names <- MCNames
    Answers <- MCAnswers
    NoAddress = NoAddress
    Blank = Blank
    TooLong = TooLong
    None = None
    GoogleName = n1
    GoogleLowers = TRUE
    OtherInstance = TRUE
    MaxRows = 2
    MaxChanges = 1
    MaxRestarts = 1
SPECIFICATION Spec
SYMMETRY Symmetric
INVARIANTS
    TypeOK
    ChosenNameKept
    NoStrangerHasRow
    LastAnswerWins
    ReportAccountsForRows
    SyncCoversMembers
    RestartSeedsNothing
