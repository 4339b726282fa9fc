SPECIFICATION Spec
CONSTANTS
    Persons = {"ann", "bob"}
    Nested = {"info"}
    Alphabet <- MCAlphabet
    Login = "general"
    File <- MCFile
    MixedCase <- MCMixedCase
    Registered = {"ann"}
    InitialLists = {"general", "info", "fresh"}
    InitialOn <- MCInitialOn
    EarlierLists <- MCEarlierLists
    EarlierOn <- MCEarlierOn
    Edits <- MCEdits
    Requests = {"r1", "r2"}
    Serves <- MCServes
    MaxChanges = 1
INVARIANTS TypeOK StableReported ViewsAgree AdminsAgree
