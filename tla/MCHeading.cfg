\* Refuted: the heading names the folder whose list is below it.
SPECIFICATION Spec
CONSTANTS
    Users = {"ann"}
    Existing <- OneFolder
    MaxClicks = 4
    MaxFailures = 0
    MaxElsewhere = 0
CHECK_DEADLOCK FALSE
INVARIANTS
    HeadingMatchesList
