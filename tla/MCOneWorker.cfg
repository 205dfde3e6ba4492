\* One handler at a time: the server implements SharingService.
SPECIFICATION Spec
CONSTANTS
    f1 = f1
    f2 = f2
    w1 = w1
    w2 = w2
    w3 = w3
    FileIds = {f1, f2}
    NoFile = NoFile
    Names = {7, 9}
    Passwords = {8}
    Length <- MCLength
    Workers = {w1}
    Registered <- One
    Stored <- OneFile
    Offered = {"signUp", "upload", "folder", "share", "group", "download", "list", "groups", "users", "current"}
    MemberLists <- MCWhole
    MaxUser = 2
    MaxGroup = 1
    MaxRequests = 4
    MaxCrashes = 1
CHECK_DEADLOCK FALSE
PROPERTIES
    RequestsAreAtomic
