\* Google writes an address with capitals, as it was given when the account
\* was made; one instance, which is restarted.
CONSTANTS
    p1 = p1
    p2 = p2
    n1 = n1
    n2 = n2
    Requests = {r1}
    People <- MCPeople
    Names <- MCNames
    Answers <- MCAnswers
    NoAddress = NoAddress
    Blank = Blank
    TooLong = TooLong
    None = None
    GoogleName = n1
    GoogleLowers = FALSE
    OtherInstance = FALSE
    MaxRows = 1
    MaxChanges = 0
    MaxRestarts = 1
CHECK_DEADLOCK FALSE
SPECIFICATION Spec
INVARIANT OneRowPerPerson
