\* Liveness: fairness for every worker, no symmetry.
SPECIFICATION FairSpec
CONSTANTS
    f1 = f1
    f2 = f2
    w1 = w1
    w2 = w2
    w3 = w3
    FileIds = {f1, f2}
    NoFile = NoFile
    Names = {7, 9}
    Passwords = {8}
    Length <- MCLength
    Workers = {w1, w2}
    Registered <- One
    Stored <- OneFile
    Offered = {"upload", "share", "group", "signUp"}
    MemberLists <- MCMembers
    MaxUser = 2
    MaxGroup = 1
    MaxRequests = 2
    MaxCrashes = 1
CHECK_DEADLOCK FALSE
PROPERTIES
    Answered
