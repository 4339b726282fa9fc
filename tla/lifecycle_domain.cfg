SPECIFICATION Spec
CONSTANTS
    Deployments <- MCEmptied
    Letters <- MCLetters
    Requests = {r1, r2}
    MaxStatements = 2
    MaxBoots = 2
INVARIANT DomainCanBeEmptied
CHECK_DEADLOCK FALSE
