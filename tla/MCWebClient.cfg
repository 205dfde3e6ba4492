\* Clicks, answers in any order, one of them an error.
SPECIFICATION FairSpec
CONSTANTS
    Users = {"ann", "bob"}
    Existing <- OneFolder
    MaxClicks = 4
    MaxFailures = 1
    MaxElsewhere = 1
CHECK_DEADLOCK FALSE
INVARIANTS
    TypeOK
    FreshView
    SpinnerAwaits
PROPERTIES
    DeadEnd
    SpinnerEnds
